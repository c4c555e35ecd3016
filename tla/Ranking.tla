------------------------------ MODULE Ranking ------------------------------
(***************************************************************************)
(* Ranking points: what a paid enrollment and a medal add to the           *)
(* ranking_total of the player, the coach, the club and the board          *)
(* (competitions/models.py), the ledger of the medals, and the approval of *)
(* profile edits, which writes a whole profile row back                    *)
(* (accounts/views.py, accounts/admin.py).                                 *)
(*                                                                         *)
(* Points are hundredths.  A transaction is one step; the approval of an   *)
(* edit is two, because it reads the profile without a lock.               *)
(*                                                                         *)
(* An Enrollment row is only ever committed paid: the handlers that create *)
(* one pay it in the same transaction (the serializer that would leave one *)
(* unpaid names columns the table does not have and always fails).         *)
(***************************************************************************)
EXTENDS Integers, FiniteSets, Functions

CONSTANTS
  Enrollments,
  Profiles,      \* UserProfile rows: players and coaches
  Orgs,          \* TkdClub and TkdBoard rows
  Results,       \* KyorugiResult rows: one per competition and weight
  Workers,       \* staff requests that approve a profile edit
  Player, Coach, Club, Board,  \* of each enrollment; Coach.. may be None
  PlayerCoach, PlayerClub, PlayerBoard,  \* on the player's own profile
  ClubBoard,     \* the board of a club
  Weight,        \* the result each enrollment can appear in
  MaxSaves,      \* bound: how often results are saved
  None

Subjects == Profiles \cup Orgs

ASSUME RankingAssumption ==
  /\ None \notin Enrollments \cup Subjects
  /\ Profiles \cap Orgs = {}
  /\ IsFiniteSet(Enrollments) /\ IsFiniteSet(Results)
  /\ Player \in [Enrollments -> Profiles]
  /\ Coach \in [Enrollments -> Profiles \cup {None}]
  /\ Club \in [Enrollments -> Orgs \cup {None}]
  /\ Board \in [Enrollments -> Orgs \cup {None}]
  /\ PlayerCoach \in [Profiles -> Profiles \cup {None}]
  /\ PlayerClub \in [Profiles -> Orgs \cup {None}]
  /\ PlayerBoard \in [Profiles -> Orgs \cup {None}]
  /\ ClubBoard \in [Orgs -> Orgs \cup {None}]
  /\ Weight \in [Enrollments -> Results]
  /\ MaxSaves \in Nat

VARIABLES
  enrolled,  \* Enrollment rows, each with its RankingAward
  awarded,   \* history: enrollments whose points were ever given; the
             \* RankingAward itself is deleted with its enrollment
  total,     \* ranking_total
  result,    \* the medals of each result, or None
  ledger,    \* points per subject in the RankingTransactions of each result
  held,      \* the profile row an approval has read, and its total
  saves

vars == <<enrolled, awarded, total, result, ledger, held, saves>>

-----------------------------------------------------------------------------
(* Points *)

Places == {"gold", "silver", "bronze1", "bronze2"}

\* Who shares the points of an enrollment: what it names, or else what the
\* player's profile, for the board first the club, names.
AwardCoach(e) == IF Coach[e] # None THEN Coach[e] ELSE PlayerCoach[Player[e]]

AwardClub(e) == IF Club[e] # None THEN Club[e] ELSE PlayerClub[Player[e]]

AwardBoard(e) ==
  LET ofClub == IF AwardClub(e) = None THEN None ELSE ClubBoard[AwardClub(e)]
  IN  CASE Board[e] # None -> Board[e]
        [] Board[e] = None /\ ofClub # None -> ofClub
        [] OTHER -> PlayerBoard[Player[e]]

\* _award_points_after_payment: 1, 0.75, 0.5 and 0.5.
AwardPoints(e, s) ==
  (IF Player[e] = s THEN 100 ELSE 0) + (IF AwardCoach(e) = s THEN 75 ELSE 0)
    + (IF AwardClub(e) = s THEN 50 ELSE 0)
    + (IF AwardBoard(e) = s THEN 50 ELSE 0)

MedalValue(place) ==
  CASE place = "gold" -> 300 [] place = "silver" -> 200 [] OTHER -> 100

\* _apply_result_points: 100%, 30%, 20% and 20% of the medal's value,
\* to those the enrollment itself names.
MedalPoints(place, e, s) ==
  LET value == MedalValue(place) IN
  (IF Player[e] = s THEN value ELSE 0)
    + (IF Coach[e] = s THEN (value * 30) \div 100 ELSE 0)
    + (IF Club[e] = s THEN (value * 20) \div 100 ELSE 0)
    + (IF Board[e] = s THEN (value * 20) \div 100 ELSE 0)

Taken(medals) == {m \in Places : medals[m] # None}

\* The ledger entries of a result, summed per subject.
ResultPoints(medals) ==
  [s \in Subjects |->
     SumFunction([m \in Taken(medals) |-> MedalPoints(m, medals[m], s)])]

NoPoints == [s \in Subjects |-> 0]

TypeOK ==
  /\ enrolled \subseteq Enrollments
  /\ awarded \subseteq Enrollments
  /\ total \in [Subjects -> Int]
  /\ result \in [Results -> [Places -> Enrollments \cup {None}] \cup {None}]
  /\ ledger \in [Results -> [Subjects -> Nat]]
  /\ held \in [Workers -> [profile: Profiles, total: Int] \cup {None}]
  /\ saves \in 0..MaxSaves

Init ==
  /\ enrolled = {} /\ awarded = {}
  /\ total = [s \in Subjects |-> 0]
  /\ result = [r \in Results |-> None]
  /\ ledger = [r \in Results |-> NoPoints]
  /\ held = [w \in Workers |-> None]
  /\ saves = 0

-----------------------------------------------------------------------------
(* Enrollments *)

\* An enrollment is created and paid (Enrollment.mark_paid), and its award
\* given, in one transaction.  The post_save signal finds the award made.
Enroll(e) ==
  /\ e \notin awarded
  /\ enrolled' = enrolled \cup {e}
  /\ awarded' = awarded \cup {e}
  /\ total' = [s \in Subjects |-> total[s] + AwardPoints(e, s)]
  /\ UNCHANGED <<result, ledger, held, saves>>

\* ParticipantsReportAdmin deletes enrollments: the award goes with them, a
\* result that names one loses it (SET_NULL), and points and ledger stay.
DeleteEnrollments(gone) ==
  /\ gone # {} /\ gone \subseteq enrolled
  /\ enrolled' = enrolled \ gone
  /\ result' = [r \in Results |->
       IF result[r] = None THEN None
       ELSE [m \in Places |-> IF result[r][m] \in gone THEN None
                              ELSE result[r][m]]]
  /\ UNCHANGED <<awarded, total, ledger, held, saves>>

-----------------------------------------------------------------------------
(* Results *)

\* KyorugiResult.clean and the choices of its form.
Valid(r, medals) ==
  /\ \A m \in Taken(medals) :
       medals[m] \in enrolled /\ Weight[medals[m]] = r
  /\ \A m, n \in Taken(medals) : m # n => medals[m] # medals[n]

\* Mutant: what coaches got before is not taken back.
RollbackPlayersOnly(r) ==
  [s \in Subjects |-> IF \E e \in Enrollments : Player[e] = s
                        THEN total[s] - ledger[r][s] ELSE total[s]]

\* Mutant: the filter on the result is missing.
RollbackAll(r) ==
  [s \in Subjects |->
     total[s] - SumFunction([q \in Results |-> ledger[q][s]])]

\* _rollback_result_points: the ledger of r is taken back.
Rollback(r) == [s \in Subjects |-> total[s] - ledger[r][s]]

\* Mutant: a ledger entry is written where it was negative before.
SaveResultOwing(r, medals) ==
  /\ saves < MaxSaves
  /\ Valid(r, medals)
  /\ result' = [result EXCEPT ![r] = medals]
  /\ ledger' = [ledger EXCEPT ![r] =
       [s \in Subjects |-> ResultPoints(medals)[s] - ledger[r][s]]]
  /\ total' = [s \in Subjects |-> Rollback(r)[s] + ResultPoints(medals)[s]]
  /\ saves' = saves + 1
  /\ UNCHANGED <<enrolled, awarded, held>>

\* KyorugiResult.save, under the row lock: the old points are taken back and
\* the new ones applied and written to the ledger.
SaveResult(r, medals) ==
  /\ saves < MaxSaves
  /\ Valid(r, medals)
  /\ result' = [result EXCEPT ![r] = medals]
  /\ ledger' = [ledger EXCEPT ![r] = ResultPoints(medals)]
  /\ total' = [s \in Subjects |-> Rollback(r)[s] + ResultPoints(medals)[s]]
  /\ saves' = saves + 1
  /\ UNCHANGED <<enrolled, awarded, held>>

\* A result is deleted in the admin: its ledger goes with it (CASCADE).
DeleteResult(r) ==
  /\ result[r] # None
  /\ result' = [result EXCEPT ![r] = None]
  /\ ledger' = [ledger EXCEPT ![r] = NoPoints]
  /\ UNCHANGED <<enrolled, awarded, total, held, saves>>

-----------------------------------------------------------------------------
(* Approval of a profile edit: approve_edited_profile, PendingEditsAdmin *)

\* The profile row is read, without a lock.
EditRead(w, p) ==
  /\ held[w] = None
  /\ held' = [held EXCEPT ![w] = [profile |-> p, total |-> total[p]]]
  /\ UNCHANGED <<enrolled, awarded, total, result, ledger, saves>>

\* user.save() writes every column, ranking_total as it was read.
EditSave(w) ==
  /\ held[w] # None
  /\ total' = [total EXCEPT ![held[w].profile] = held[w].total]
  /\ held' = [held EXCEPT ![w] = None]
  /\ UNCHANGED <<enrolled, awarded, result, ledger, saves>>

-----------------------------------------------------------------------------
Next ==
  \/ \E e \in Enrollments : Enroll(e)
  \/ \E gone \in SUBSET Enrollments : DeleteEnrollments(gone)
  \/ \E r \in Results, medals \in [Places -> Enrollments \cup {None}] :
       SaveResult(r, medals)
  \/ \E r \in Results : DeleteResult(r)
  \/ \E w \in Workers, p \in Profiles : EditRead(w, p)
  \/ \E w \in Workers : EditSave(w)

Spec == Init /\ [][Next]_vars

-----------------------------------------------------------------------------
(* Properties *)

\* What subject s was ever given for enrollments, plus what the ledger holds.  It
\* counts deleted enrollments too, whose RankingAward rows are gone (CASCADE) while
\* their points stay in the totals.
Due(s) ==
  SumFunction([e \in awarded |-> AwardPoints(e, s)])
    + SumFunction([r \in Results |-> ledger[r][s]])

\* Everybody's total is what was given for enrollments plus the ledger
\* ("applied atomically with F").  Does not hold: the approval of an edit
\* writes an old total back, and a deleted result leaves its points behind.
TotalsBalanced == \A s \in Subjects : total[s] = Due(s)

\* Every award and every saved result moves each total by exactly what it
\* changes in the awards and the ledger, also when the winners of the result
\* were deleted since it was last saved and after totals were left wrong by a
\* deleted result or an overwritten edit: saving a result again never doubles
\* or drops points (Enrollment.mark_paid, KyorugiResult.save).
PointsFollowLedger ==
  [][<<awarded, saves>>' # <<awarded, saves>>
       => \A s \in Subjects : total'[s] - total[s] = Due(s)' - Due(s)]_vars

\* Clubs and boards never have fewer points than all awards, those of deleted
\* enrollments included, and the ledger give them, whatever results are deleted and profile edits approved:
\* a rollback only takes back what its own result gave, and the approval of
\* an edit writes no club or board.
OrgsNeverShort == \A s \in Orgs : total[s] >= Due(s)

=============================================================================
