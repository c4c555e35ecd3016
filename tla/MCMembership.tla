---------------------------- MODULE MCMembership ----------------------------
(* A coach and his player, three clubs of two boards, a limit of one club, and *)
(* two administrators, who are alike.                                        *)
EXTENDS Membership, TLC

CONSTANTS ali, sara, m1, m2, k1, k2, k3, b1, b2

Symmetry == Permutations({m1, m2})
MCBoardOf == [k \in Clubs |-> IF k = k1 THEN b1 ELSE b2]
MCFirst ==
  [p \in Persons |->
     [role |-> IF p = ali THEN "coach" ELSE "player", isCoach |-> p = ali,
      isReferee |-> FALSE, coach |-> IF p = ali THEN None ELSE ali,
      club |-> k1, board |-> b1, coaching |-> IF p = ali THEN {k1} ELSE {}]]
TakesBoth ==
  [role |-> "coach", isCoach |-> TRUE, isReferee |-> TRUE, coach |-> Nobody,
   club |-> k2, board |-> None, clubs |-> {k2, k3}]
NamesHimself ==
  [role |-> None, isCoach |-> None, isReferee |-> TRUE, coach |-> ali,
   club |-> None, board |-> b2, clubs |-> {}]
MCForms ==
  [p \in Persons |-> IF p = ali THEN {TakesBoth, NamesHimself} ELSE {}]

=============================================================================
