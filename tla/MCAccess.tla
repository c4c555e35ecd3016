------------------------------ MODULE MCAccess ------------------------------
(* Accounts for one phone: none at all, a person and a club that go by the  *)
(* phone, a coach who also runs a club, and a board.                        *)
EXTENDS Access

CONSTANTS p1, u1

Acc(name, phone, role, club, board, digits) ==
  [username |-> name, phone |-> phone, role |-> role, club |-> club,
   board |-> board, digits |-> digits]

MCAccounts ==
  {Acc("other", None, None, None, FALSE, "latin"),
   Acc(p1, p1, "player", None, FALSE, "persian"),
   Acc("other", p1, "both", p1, FALSE, "persian"),
   Acc("other", None, None, p1, FALSE, "latin"),
   Acc(p1, None, None, None, TRUE, "latin")}
MCWaiting == [kind \in Kinds |-> {}]

=============================================================================
