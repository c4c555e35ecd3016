----------------------------- MODULE MCPayments -----------------------------
(* Instances of Payments for TLC. *)
EXTENDS Payments, TLC

\* Intents, bank records and workers are interchangeable in Payments.
Symmetry ==
  Permutations(Intents) \cup Permutations(Banks) \cup Permutations(Workers)

=============================================================================
