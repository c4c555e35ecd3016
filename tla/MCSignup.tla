------------------------------ MODULE MCSignup ------------------------------
(* Instances of Signup for TLC. *)
EXTENDS Signup, TLC

\* Applications, workers and the values of the forms are interchangeable.
Symmetry ==
  Permutations(Apps) \cup Permutations(Workers) \cup Permutations(Phones)
    \cup Permutations(Codes) \cup Permutations(Names)
    \cup Permutations(Licences)

=============================================================================
