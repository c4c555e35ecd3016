----------------------------- MODULE MCRanking -----------------------------
(* Instances of Ranking for TLC: up to three enrollments in two weights; the*)
(* coach of the first two also competes, and some of what an enrollment    *)
(* leaves out is found on the player's profile or on the club.             *)
EXTENDS Ranking

CONSTANTS e1, e2, e3, p1, p2, p3, club, board, r1, r2

MCPlayer == [e \in Enrollments |->
               CASE e = e1 -> p1 [] e = e2 -> p2 [] OTHER -> p3]
MCCoach == [e \in Enrollments |-> IF e = e3 THEN None ELSE p3]
MCClub == [e \in Enrollments |-> IF e = e2 THEN None ELSE club]
MCBoard == [e \in Enrollments |-> IF e = e1 THEN board ELSE None]
MCPlayerCoach == [p \in Profiles |-> IF p = p3 THEN None ELSE p3]
MCPlayerClub == [p \in Profiles |-> IF p = p2 THEN club ELSE None]
MCPlayerBoard == [p \in Profiles |-> IF p = p3 THEN board ELSE None]
MCClubBoard == [o \in Orgs |-> IF o = club THEN board ELSE None]
MCWeight == [e \in Enrollments |-> IF e = e3 THEN r2 ELSE r1]

=============================================================================
