----------------------------- MODULE MCBrackets -----------------------------
(* Instances of Brackets for TLC: a group of three enrollments, two of them  *)
(* of one player, and a group of two, in two weights.                        *)
EXTENDS Brackets, TLC

CONSTANTS a1, a2, a3, b1, b2, p1, p2, q1, q2, club

MCPlayerOf == a1 :> p1 @@ a2 :> p2 @@ a3 :> p2 @@ b1 :> q1 @@ b2 :> q2 @@ None :> None
MCGroupOf == [e \in Entries |-> IF e \in {b1, b2} THEN 2 ELSE 1]
MCClubOf == [e \in Entries |-> IF e \in {a2, a3} THEN club ELSE None]
MCPast == {<<1, {p1, p2}>>}
MCWeightOf == [g \in Groups |-> g]

\* The byes of every table the draw page can propose, up to 64 places.
ASSUME ByesSpread ==
  \A count \in 3..64 : Spread(NextPow2(count), count)

\* The enrollments of one player are interchangeable, and so are those of the group
\* of two, whose only meeting is the pair of them.
Symmetry == Permutations({a2, a3}) \cup Permutations({b1, b2})

=============================================================================
