---------------------------- MODULE Registration ----------------------------
(***************************************************************************)
(* Registration for one kyorugi and one poomsae competition and one        *)
(* seminar: approvals of coaches and their codes, the coach's list of      *)
(* students and the group registration, self registration for poomsae,     *)
(* and the enrollment cards (competitions/views.py, models.py,             *)
(* serializers.py).                                                        *)
(*                                                                         *)
(* A request is a transaction and one step, but for two that read first    *)
(* and commit later: an approval draws a code that no row on record has    *)
(* and writes it when it commits (the constraint on codes has a condition, *)
(* so MySQL does not create it), and a group registration looks at who is  *)
(* enrolled and makes its enrollments later: when it is paid (Payments),   *)
(* or, with nothing to pay, when the request commits.  The self            *)
(* registration of the kyorugi competition always fails (it names columns  *)
(* the table does not have) and commits nothing, so it is left out.        *)
(***************************************************************************)
EXTENDS Integers, Sequences, FiniteSets

CONSTANTS
  Students,    \* UserProfile rows that can be enrolled
  Coaches,
  RoleOf,      \* role of a student
  CoachOf,     \* coach of a student
  ClubOf,      \* club and board of a student, which enrollments copy
  BoardOf,
  GenderOf,    \* gender of a student
  BornOf,      \* day of birth of a student
  Belts,       \* what _norm_belt makes of the belt names
  FirstBelt,   \* belt of a student at the start
  Required,    \* gender a competition asks for, or None
  Ages,        \* windows of birth a competition asks for, <<from, to>>
  BeltGroups,  \* the belt groups of a competition, sets of belts
  LevelBelts,  \* belts of its belt_level on the coach's list, used when it
               \* has no groups
  PageBelts,   \* the same on its page, where yellow_blue leaves white out
  Categories,  \* weight categories on its mats: gender, min, max, tolerance
  Weights,     \* weights a coach may declare
  Issued,      \* days an insurance may be issued on
  Opens, Closes, Date,   \* registration window and day, per competition
  LastDay,     \* bound on the calendar
  Codes,       \* approval codes
  Applicants,  \* bound: the coaches who ask for approval, per competition
  Registering, \* bound: the coaches who register groups
  Styles,      \* poomsae types
  Attendees,   \* users who may register for the seminar
  SeminarDays, \* its registration_start, registration_end and event_date
  SeminarRoles,  \* its allowed_roles
  MaxOrders,   \* bound: group registrations
  MaxLines,    \* bound: lines of a group registration
  MaxKyo,      \* bound: kyorugi enrollments
  MaxPoo,      \* bound: poomsae enrollments
  MaxEdits,    \* bound: changes made by administrators and to profiles
  None

Kinds == {"kyorugi", "poomsae"}

\* Rows of the tables, besides their ids.
Approvals == [accepted : BOOLEAN, active : BOOLEAN, code : Codes \cup {None}]
Orders == [coach : Coaches, items : Seq(Students), paid : BOOLEAN, since : Nat]
KyoRows == [player : Students, coach : Coaches, order : Nat, line : Nat,
            paid : BOOLEAN, live : BOOLEAN]
Lines == [player : Students, weight : Weights, issued : Issued]
PooRows == [player : Students, coach : Coaches, style : Styles, code : Codes,
            paid : BOOLEAN, eligible : BOOLEAN]

ASSUME RegistrationAssumption ==
  /\ None \notin Students /\ None \notin Coaches /\ None \notin Codes
  /\ None \notin Approvals /\ None \notin Kinds \X Nat
  /\ None \notin {"unpaid", "paid"}
  /\ RoleOf \in [Students -> {"player", "coach", "referee", "both"}]
  /\ Applicants \in [Kinds -> SUBSET Coaches] /\ Registering \subseteq Coaches
  /\ CoachOf \in [Students -> Coaches \cup {None}]
  /\ FirstBelt \in [Students -> Belts]
  /\ \A k \in Kinds : PageBelts[k] \subseteq LevelBelts[k]
  /\ \A k \in Kinds : BeltGroups[k] = {} \/ UNION BeltGroups[k] # {}
  /\ Opens \in [Kinds -> Int] /\ Closes \in [Kinds -> Int]
  /\ Date \in [Kinds -> Int] /\ LastDay \in Nat
  /\ SeminarDays \in [{"opens", "closes", "event"} -> Int]
  /\ SeminarDays.opens <= SeminarDays.closes /\ SeminarDays.closes <= SeminarDays.event
  /\ SeminarRoles \subseteq {"player", "coach", "referee"}
  /\ MaxOrders \in Nat /\ MaxLines \in Nat /\ MaxKyo \in Nat /\ MaxPoo \in Nat /\ MaxEdits \in Nat

VARIABLES
  today,     \* the calendar
  manual,    \* registration_manual: None, TRUE (open) or FALSE (closed)
  belt,      \* belt_grade of a student
  approval,  \* CoachApproval and PoomsaeCoachApproval rows, or None
  drawing,   \* the code that a request of a coach has drawn and not committed
  orders,    \* GroupRegistrationPayment rows
  kyo,       \* Enrollment rows, by id
  poo,       \* PoomsaeEnrollment rows, by id
  seminar,   \* SeminarRegistration of a user: None, "unpaid" or "paid"
  edits,
  shared     \* history: the codes that two requests under way drew

approvals == <<approval, drawing, shared>>
vars == <<today, manual, belt, approvals, orders, kyo, poo, seminar, edits>>

-----------------------------------------------------------------------------
(* The registration window *)

\* registration_open_effective of the competition: the switch, or else the
\* dates.
OpenEffective(k) ==
  \/ manual[k] = TRUE
  \/ manual[k] = None /\ ~(today < Opens[k]) /\ ~(today > Closes[k])

\* Mutant: the day registration closes is left out.
OpenListedShort(k) ==
  manual[k] = TRUE \/ (manual[k] = None /\ Opens[k] <= today /\ today < Closes[k])

\* _opened, active() and registration_active(): the filter of the lists.
OpenListed(k) ==
  \/ manual[k] = TRUE
  \/ manual[k] = None /\ Opens[k] <= today /\ today <= Closes[k]

\* can_register of the detail pages: for kyorugi the switch does not extend
\* the dates.
CanRegister(k) ==
  /\ OpenEffective(k)
  /\ k = "kyorugi" => Opens[k] <= today /\ today <= Closes[k]

-----------------------------------------------------------------------------
(* Who may compete *)

GenderFits(s, k) == Required[k] = None \/ GenderOf[s] = Required[k]

\* _age_ok_for_comp, and the windows of _poomsae_user_eligible.
AgeFits(s, k) ==
  Ages[k] = {} \/ \E w \in Ages[k] : w[1] <= BornOf[s] /\ BornOf[s] <= w[2]

\* Mutant: the belts of the level are allowed besides those of the groups.
AllowedBeltsBoth(k) == UNION BeltGroups[k] \cup LevelBelts[k]

\* _allowed_belt_names_for_comp: the belts of the coach's list.
AllowedBelts(k) ==
  IF BeltGroups[k] # {} THEN UNION BeltGroups[k] ELSE LevelBelts[k]

\* _allowed_belts: the belts of the detail page and of poomsae.
AllowedOnPage(k) ==
  IF BeltGroups[k] # {} THEN UNION BeltGroups[k] ELSE PageBelts[k]

\* _belt_group_for_player_in_comp; None when the competition has no groups.
GroupsFor(s, k) ==
  IF BeltGroups[k] = {} THEN {None}
  ELSE {g \in BeltGroups[k] : belt[s] \in g}

\* WeightCategory.includes_weight.
Includes(c, w) == c.min <= w /\ w <= c.max + c.tolerance

\* _find_weight_category_for: the first that includes the weight, by
\* min_weight.
CategoriesFor(s, w) ==
  LET gender == IF Required["kyorugi"] # None THEN Required["kyorugi"]
                                              ELSE GenderOf[s]
      fitting == {c \in Categories : c.gender = gender /\ Includes(c, w)}
  IN  {c \in fitting : \A d \in fitting : c.min <= d.min}

\* A live enrollment in the kyorugi competition.
Enrolled(s) == \E i \in DOMAIN kyo : kyo[i].live /\ kyo[i].player = s

\* user_eligible_self of the kyorugi page.
EligibleSelf(s) ==
  /\ GenderFits(s, "kyorugi") /\ AgeFits(s, "kyorugi")
  /\ belt[s] \in AllowedOnPage("kyorugi")

\* user_eligible_self of the poomsae page.
EligibleSelfPoomsae(s) ==
  /\ GenderFits(s, "poomsae") /\ AgeFits(s, "poomsae")
  /\ belt[s] \in AllowedOnPage("poomsae")

\* _poomsae_user_eligible.
PoomsaeEligible(s) ==
  /\ GenderFits(s, "poomsae") /\ AgeFits(s, "poomsae")
  /\ belt[s] \in AllowedOnPage("poomsae")

\* CoachStudentsEligibleListView.
Listed(c) ==
  {s \in Students :
     /\ CoachOf[s] = c /\ RoleOf[s] \in {"player", "both", "coach", "referee"}
     /\ GenderFits(s, "kyorugi") /\ AgeFits(s, "kyorugi")
     /\ belt[s] \in AllowedBelts("kyorugi")}

\* PoomsaeCoachStudentsEligibleListView: whatever the role.
ListedPoomsae(c) == {s \in Students : CoachOf[s] = c /\ PoomsaeEligible(s)}

\* The group registration's verdict on one student: no look at the age.
Accepts(s, w, issued) ==
  /\ RoleOf[s] \in {"player", "both", "coach"}
  /\ GenderFits(s, "kyorugi")
  /\ issued <= Date["kyorugi"] - 3
  /\ w > 0
  /\ GroupsFor(s, "kyorugi") # {}
  /\ CategoriesFor(s, w) # {}

-----------------------------------------------------------------------------
Init ==
  /\ today = 0
  /\ manual = [k \in Kinds |-> None]
  /\ belt = FirstBelt
  /\ approval = [k \in Kinds |-> [c \in Coaches |-> None]]
  /\ drawing = [k \in Kinds |-> [c \in Coaches |-> None]]
  /\ shared = {}
  /\ orders = <<>> /\ kyo = <<>> /\ poo = <<>>
  /\ seminar = [u \in Attendees |-> None]
  /\ edits = 0

NextDay ==
  /\ today < LastDay /\ today' = today + 1
  /\ UNCHANGED <<manual, belt, approvals, orders, kyo, poo, seminar, edits>>

\* An administrator turns the switch of a competition.
SetManual(k, v) ==
  /\ edits < MaxEdits /\ edits' = edits + 1
  /\ manual' = [manual EXCEPT ![k] = v]
  /\ UNCHANGED <<today, belt, approvals, orders, kyo, poo, seminar>>

\* An approved profile edit (Ranking).
Promote(s, b) ==
  /\ edits < MaxEdits /\ edits' = edits + 1
  /\ belt' = [belt EXCEPT ![s] = b]
  /\ UNCHANGED <<today, manual, approvals, orders, kyo, poo, seminar>>

-----------------------------------------------------------------------------
(* Approvals of coaches *)

\* Mutant: codes of approvals that are switched off are handed out again.
CodesOfActive(k) ==
  {approval[k][c].code :
     c \in {d \in Coaches : approval[k][d] # None /\ approval[k][d].active}}

\* Codes that set_fresh_code finds taken in the competition.
CodesOf(k) == {approval[k][c].code : c \in {d \in Coaches : approval[k][d] # None}}

\* Mutant: every acceptance draws a new code.
NeedsCodeAlways(k, c) == TRUE

NeedsCode(k, c) == approval[k][c] # None => approval[k][c].code = None

\* ApproveCompetitionView, on any day, and PoomsaeCoachApprovalApproveView, only
\* while registration is open: the coach accepts the terms.
MayApprove(k) == k = "poomsae" => OpenEffective(k)

\* The request locks the row, so another request or an administrator waits.
Locked(k, c) == drawing[k][c] # None

\* A row that has a code keeps it.
Approve(k, c) ==
  /\ MayApprove(k) /\ ~Locked(k, c) /\ ~NeedsCode(k, c)
  /\ approval' = [approval EXCEPT ![k][c].accepted = TRUE, ![k][c].active = TRUE]
  /\ UNCHANGED <<today, manual, belt, drawing, shared, orders, kyo, poo, seminar, edits>>

\* set_fresh_code: a code that no row on record has.
DrawCode(k, c) ==
  /\ MayApprove(k) /\ ~Locked(k, c) /\ NeedsCode(k, c)
  /\ \E code \in Codes \ CodesOf(k) :
       /\ drawing' = [drawing EXCEPT ![k][c] = code]
       /\ shared' = IF \E d \in Coaches : drawing[k][d] = code
                    THEN shared \cup {<<k, code>>} ELSE shared
  /\ UNCHANGED <<today, manual, belt, approval, orders, kyo, poo, seminar, edits>>

\* The request commits its row and its code.
CommitCode(k, c) ==
  /\ Locked(k, c)
  /\ approval' = [approval EXCEPT ![k][c] =
       [accepted |-> TRUE, active |-> TRUE, code |-> drawing[k][c]]]
  /\ drawing' = [drawing EXCEPT ![k][c] = None]
  /\ UNCHANGED <<today, manual, belt, shared, orders, kyo, poo, seminar, edits>>

\* CoachApprovalInline: a row added or changed by hand; the code is read only.
EditApproval(k, c, accepted, active) ==
  /\ edits < MaxEdits /\ edits' = edits + 1
  /\ ~Locked(k, c)
  /\ approval' = [approval EXCEPT ![k][c] =
       [accepted |-> accepted, active |-> active,
        code |-> IF @ = None THEN None ELSE @.code]]
  /\ UNCHANGED <<today, manual, belt, drawing, shared, orders, kyo, poo, seminar>>

\* The same page gives a row, with its code, to a coach who has none.
MoveApproval(k, c, d) ==
  /\ edits < MaxEdits /\ edits' = edits + 1
  /\ ~Locked(k, c) /\ ~Locked(k, d)
  /\ approval[k][c] # None /\ approval[k][d] = None
  /\ approval' = [approval EXCEPT ![k][d] = approval[k][c], ![k][c] = None]
  /\ UNCHANGED <<today, manual, belt, drawing, shared, orders, kyo, poo, seminar>>

\* "approved" of the status pages.
Approved(k, c) ==
  approval[k][c] # None /\ approval[k][c].active /\ approval[k][c].accepted

\* The same page deletes any row, CoachApprovalsAdmin.detail_view an approved
\* one.
DeleteApproval(k, c) ==
  /\ edits < MaxEdits /\ edits' = edits + 1
  /\ ~Locked(k, c) /\ approval[k][c] # None
  /\ approval' = [approval EXCEPT ![k][c] = None]
  /\ UNCHANGED <<today, manual, belt, drawing, shared, orders, kyo, poo, seminar>>

\* What a coach is shown of his approval: by CoachApprovalStatusView, for
\* poomsae by PoomsaeCoachApprovalStatusView and by the page of the competition.
ShownCode(k, c) ==
  IF approval[k][c] # None /\ approval[k][c].active THEN approval[k][c].code ELSE None

ShownPoomsae(c) ==
  LET row == IF approval["poomsae"][c] # None /\ approval["poomsae"][c].active
             THEN approval["poomsae"][c] ELSE None
  IN  [approved |-> row # None /\ row.accepted,
       code |-> IF row # None THEN row.code ELSE None]

PoomsaePage(c) ==
  [approved |-> Approved("poomsae", c), code |-> ShownCode("poomsae", c)]

\* The coaches a poomsae code is accepted for.
CoachesFor(code) ==
  {c \in Coaches : Approved("poomsae", c) /\ approval["poomsae"][c].code = code}

\* _dashboard_base_qs: what the dashboard lists, by role; the client may ask
\* for the open ones only.
Dashboard(s, onlyOpen) ==
  {k \in Kinds :
     /\ RoleOf[s] = "player" => CoachOf[s] # None /\ Approved(k, CoachOf[s])
     /\ onlyOpen \/ RoleOf[s] = "referee" => OpenListed(k)}

\* PlayerCompetitionsList and RefereeCompetitionsList.
PlayerList(s) ==
  {k \in {"kyorugi"} : /\ RoleOf[s] \in {"player", "both"} /\ CoachOf[s] # None
                       /\ Approved(k, CoachOf[s]) /\ OpenListed(k)}

RefereeList(s) == {k \in {"kyorugi"} : RoleOf[s] = "referee" /\ OpenListed(k)}

-----------------------------------------------------------------------------
(* Group registration *)

\* Mutant: the enrollments are left waiting for a payment.
EnrollItemsUnpaid(o, order) ==
  [i \in DOMAIN order.items |->
     [player |-> order.items[i], coach |-> order.coach, order |-> o, line |-> i,
      paid |-> FALSE, live |-> TRUE]]

\* Mutant: orders counted from zero.
EnrollItemsOff(o, order) ==
  [i \in DOMAIN order.items |->
     [player |-> order.items[i], coach |-> order.coach, order |-> o - 1, line |-> i,
      paid |-> TRUE, live |-> TRUE]]

\* _finalize_group_payment_if_needed and _finalize_free_or_test: one paid
\* enrollment for each line of the order, without another look at who is
\* enrolled.
EnrollItems(o, order) ==
  [i \in DOMAIN order.items |->
     [player |-> order.items[i], coach |-> order.coach, order |-> o, line |-> i,
      paid |-> TRUE, live |-> TRUE]]

\* Mutant: nobody looks at who is enrolled.
FreeAny(s) == TRUE

\* The student is not enrolled yet.
Free(s) == ~Enrolled(s)

\* CoachRegisterStudentsView: the lines that pass become an order, also several
\* lines of one student; lines that do not pass are left out, so a submission
\* is as good as its lines that do.
GroupRegister(c, lines) ==
  /\ OpenEffective("kyorugi")
  /\ Len(orders) < MaxOrders
  /\ \A i \in DOMAIN lines :
       /\ Free(lines[i].player)
       /\ Accepts(lines[i].player, lines[i].weight, lines[i].issued)
  /\ orders' = Append(orders, [coach |-> c,
                               items |-> [i \in DOMAIN lines |-> lines[i].player],
                               paid |-> FALSE, since |-> Len(kyo)])
  /\ UNCHANGED <<today, manual, belt, approvals, kyo, poo, seminar, edits>>

\* A paid intent settles its order (Payments), or the request of an order that
\* costs nothing commits.
GroupPay(o) ==
  /\ ~orders[o].paid
  /\ Len(kyo) + Len(orders[o].items) <= MaxKyo
  /\ orders' = [orders EXCEPT ![o].paid = TRUE]
  /\ kyo' = kyo \o EnrollItems(o, orders[o])
  /\ UNCHANGED <<today, manual, belt, approvals, poo, seminar, edits>>

\* ParticipantsReportAdmin deletes enrollments.
DeleteEnrollment(i) ==
  /\ edits < MaxEdits /\ edits' = edits + 1
  /\ kyo[i].live
  /\ kyo' = [kyo EXCEPT ![i].live = FALSE]
  /\ UNCHANGED <<today, manual, belt, approvals, orders, poo, seminar>>

-----------------------------------------------------------------------------
(* Poomsae *)

\* What the view, full_clean and the unique constraint all ask of a new row.
PoomsaeClean(s, style, issued) ==
  /\ Date["poomsae"] - issued >= 3 /\ Date["poomsae"] - issued <= 365
  /\ ~\E i \in DOMAIN poo : poo[i].player = s /\ poo[i].style = style

\* PoomsaeRegisterSelfView: the student names the code of a coach.  With
\* nothing to pay the request fails after the row is made and is rolled back,
\* so the competition modelled has a fee.
PoomsaeRegister(s, style, code, issued) ==
  /\ OpenEffective("poomsae")
  /\ RoleOf[s] \in {"player", "both"}
  /\ PoomsaeClean(s, style, issued)
  /\ GroupsFor(s, "poomsae") # {}
  /\ Len(poo) < MaxPoo
  /\ \E c \in CoachesFor(code) :
       poo' = Append(poo, [player |-> s, coach |-> c, style |-> style,
                           code |-> code, paid |-> FALSE,
                           eligible |-> PoomsaeEligible(s)])
  /\ UNCHANGED <<today, manual, belt, approvals, orders, kyo, seminar, edits>>

\* A paid intent settles the enrollment (Payments).
PoomsaePay(i) ==
  /\ ~poo[i].paid
  /\ poo' = [poo EXCEPT ![i].paid = TRUE]
  /\ UNCHANGED <<today, manual, belt, approvals, orders, kyo, seminar, edits>>

-----------------------------------------------------------------------------
(* Seminar *)

\* Seminar.registration_open, for the pages; the registration ignores it.
SeminarOpen == SeminarDays.opens <= today /\ today <= SeminarDays.closes

\* The role a client names in a list; clubs and boards see every seminar.
RoleAllowed(role) ==
  \/ role \in {"club", "heyat"}
  \/ SeminarRoles = {}
  \/ role = "both" /\ SeminarRoles \cap {"coach", "referee"} # {}
  \/ role \in SeminarRoles

\* SeminarListView and sidebar_seminars.
SeminarListed(role, show) ==
  /\ RoleAllowed(role)
  /\ CASE show = "open" -> SeminarDays.opens <= today /\ SeminarDays.closes >= today
       [] show = "upcoming" -> SeminarDays.event >= today
       [] show = "past" -> SeminarDays.event < today
       [] OTHER -> TRUE

SeminarSidebar(role, show) ==
  /\ show = "open" => SeminarDays.opens <= today /\ SeminarDays.closes >= today
  /\ show = "upcoming" => SeminarDays.event >= today
  /\ show = "past" => SeminarDays.event < today
  /\ RoleAllowed(role)

\* Mutant: a repeated request starts over.
SeminarRegisterAgain(u) ==
  /\ seminar' = [seminar EXCEPT ![u] = "unpaid"]
  /\ UNCHANGED <<today, manual, belt, approvals, orders, kyo, poo, edits>>

\* SeminarRegisterView: get_or_create, on any day, for a request that names a
\* role the seminar allows.
SeminarRegister(u) ==
  /\ seminar' = [seminar EXCEPT ![u] = IF @ = None THEN "unpaid" ELSE @]
  /\ UNCHANGED <<today, manual, belt, approvals, orders, kyo, poo, edits>>

\* SeminarRegistration.mark_paid, by a paid intent.
SeminarPay(u) ==
  /\ seminar[u] = "unpaid"
  /\ seminar' = [seminar EXCEPT ![u] = "paid"]
  /\ UNCHANGED <<today, manual, belt, approvals, orders, kyo, poo, edits>>

-----------------------------------------------------------------------------
(* Cards: the two tables number their rows independently. *)

KyoIds == {i \in DOMAIN kyo : kyo[i].live}

\* The player, the coach, the club and the board of the enrollment.
MaySee(u, e) ==
  \/ u = e.player \/ u = e.coach
  \/ u # None /\ u \in {ClubOf[e.player], BoardOf[e.player]}

Viewers ==
  (Students \cup Coaches \cup {ClubOf[s] : s \in Students}
     \cup {BoardOf[s] : s \in Students}) \ {None}

\* EnrollmentCardView: the first of the two rows the user may see.
Card(u, i) ==
  CASE i \in KyoIds /\ MaySee(u, kyo[i]) ->
         IF kyo[i].paid THEN <<"kyorugi", i>> ELSE None
    [] ~(i \in KyoIds /\ MaySee(u, kyo[i])) /\ i \in DOMAIN poo ->
         IF MaySee(u, poo[i]) /\ poo[i].paid THEN <<"poomsae", i>> ELSE None
    [] OTHER -> None

\* EnrollmentCardsBulkView: the poomsae row hides the kyorugi one.
BulkCard(u, i) ==
  CASE i \in DOMAIN poo ->
         IF MaySee(u, poo[i]) /\ poo[i].paid THEN <<"poomsae", i>> ELSE None
    [] i \notin DOMAIN poo /\ i \in KyoIds ->
         IF MaySee(u, kyo[i]) /\ kyo[i].paid THEN <<"kyorugi", i>> ELSE None
    [] OTHER -> None

\* MyEnrollmentView, MyPoomsaeEnrollmentsView: the rows whose card the page of
\* a competition offers a player, of kyorugi the first only.
OfferedKyo(s) ==
  LET rows == {i \in KyoIds : RoleOf[s] \in {"player", "both"} /\ kyo[i].player = s}
  IN  {i \in rows : kyo[i].paid /\ \A j \in rows : i <= j}

OfferedPoo(s) ==
  {i \in DOMAIN poo : RoleOf[s] \in {"player", "both"} /\ poo[i].player = s /\ poo[i].paid}

\* The newest enrollment, which the page of the competition names to its
\* player, with its card when it is paid.
PageEnrollment(s) ==
  LET rows == {i \in KyoIds : RoleOf[s] \in {"player", "both"} /\ kyo[i].player = s}
  IN  {i \in rows : \A j \in rows : j <= i}

Next ==
  \/ NextDay
  \/ \E k \in Kinds, v \in {None, TRUE, FALSE} : SetManual(k, v)
  \/ \E s \in Students, b \in Belts : Promote(s, b)
  \/ \E k \in Kinds : \E c \in Applicants[k] :
       \/ Approve(k, c)
       \/ DrawCode(k, c)
       \/ CommitCode(k, c)
       \/ DeleteApproval(k, c)
       \/ \E accepted, active \in BOOLEAN : EditApproval(k, c, accepted, active)
       \/ \E d \in Applicants[k] : MoveApproval(k, c, d)
  \/ \E c \in Registering, n \in 1..MaxLines :
       \E lines \in [1..n -> Lines] : GroupRegister(c, lines)
  \/ \E o \in DOMAIN orders : GroupPay(o)
  \/ \E i \in DOMAIN kyo : DeleteEnrollment(i)
  \/ \E s \in Students, style \in Styles, code \in Codes, issued \in Issued :
       PoomsaeRegister(s, style, code, issued)
  \/ \E i \in DOMAIN poo : PoomsaePay(i)
  \/ \E u \in Attendees : SeminarRegister(u) \/ SeminarPay(u)

Spec == Init /\ [][Next]_vars

-----------------------------------------------------------------------------
(* Properties *)

TypeOK ==
  /\ today \in 0..LastDay
  /\ manual \in [Kinds -> {None, TRUE, FALSE}]
  /\ belt \in [Students -> Belts]
  /\ approval \in [Kinds -> [Coaches -> Approvals \cup {None}]]
  /\ drawing \in [Kinds -> [Coaches -> Codes \cup {None}]]
  /\ shared \subseteq Kinds \X Codes
  /\ orders \in Seq(Orders) /\ kyo \in Seq(KyoRows) /\ poo \in Seq(PooRows)
  /\ Len(orders) <= MaxOrders /\ Len(kyo) <= MaxKyo /\ Len(poo) <= MaxPoo
  /\ \A i \in DOMAIN kyo :
       /\ kyo[i].order \in DOMAIN orders
       /\ kyo[i].line \in DOMAIN orders[kyo[i].order].items
       /\ kyo[i].player = orders[kyo[i].order].items[kyo[i].line]
  /\ seminar \in [Attendees -> {None, "unpaid", "paid"}]
  /\ edits \in 0..MaxEdits

\* Two approvals of a competition have the same code only if two requests that
\* were under way at the same time drew it.
DistinctCodes ==
  \A k \in Kinds : \A c, d \in Coaches :
    /\ approval[k][c] # None /\ approval[k][d] # None
    /\ approval[k][c].code # None /\ approval[k][c].code = approval[k][d].code
    => c = d \/ <<k, approval[k][c].code>> \in shared

\* The code a student types names one coach, through acceptances, changes by
\* hand, moves to another coach and deletions (set_fresh_code), unless two
\* acceptances overlapped and drew the same code: what an approved coach is
\* shown, on either page, is accepted for him, and for nobody else.
CodesNeedOverlap ==
  /\ DistinctCodes
  /\ \A c \in Coaches :
       /\ ShownPoomsae(c).approved /\ ShownPoomsae(c).code # None =>
            /\ c \in CoachesFor(ShownPoomsae(c).code)
            /\ <<"poomsae", ShownPoomsae(c).code>> \notin shared =>
                 CoachesFor(ShownPoomsae(c).code) = {c}
       /\ PoomsaePage(c) = ShownPoomsae(c)

\* A code names one coach.  Does not hold: two acceptances that overlap may draw
\* the same code, and MySQL does not create the constraint, which is conditional
\* (uniq_competition_code).
UniqueCodes ==
  \A k \in Kinds : \A c, d \in Coaches :
    /\ approval[k][c] # None /\ approval[k][d] # None
    /\ approval[k][c].code # None /\ approval[k][c].code = approval[k][d].code
    => c = d

\* The code of an approval changes only by deleting the approval
\* (CoachApproval.save: the code cannot be edited).
CodeStable ==
  [][\A k \in Kinds, c \in Coaches :
       approval[k][c] # None /\ approval'[k][c] # None /\ approval[k][c].code # None
         => approval'[k][c].code = approval[k][c].code]_vars

\* The lists, the pages and the registration itself agree on whether the
\* registration is open, on every day and for every position of the switch:
\* neither a detail page nor the dashboard invites to a registration that is
\* refused.  The two lists of seminars agree, and an open seminar is neither
\* missing there nor over.
OpenAgrees ==
  /\ \A k \in Kinds :
       /\ OpenListed(k) <=> OpenEffective(k)
       /\ CanRegister(k) => OpenListed(k)
  /\ \A s \in Students :
       /\ \A k \in Dashboard(s, TRUE) : OpenEffective(k)
       /\ PlayerList(s) \cup RefereeList(s) \subseteq Dashboard(s, TRUE)
  /\ \A role \in {"player", "coach", "referee", "both", "club", "heyat"} :
       /\ \A show \in {"open", "upcoming", "past", "all"} :
            SeminarListed(role, show) <=> SeminarSidebar(role, show)
       /\ RoleAllowed(role) =>
            /\ SeminarOpen => SeminarListed(role, "open") /\ SeminarListed(role, "upcoming")
            /\ SeminarListed(role, "past") <=> ~SeminarListed(role, "upcoming")

\* Whom the page of a competition calls eligible is on the list of his coach,
\* and whom that list offers is not refused for gender or belt (referees
\* excepted), whatever edits of the profile came before.
ListedAreAccepted ==
  /\ \A s \in Students :
       /\ EligibleSelf(s) => CoachOf[s] = None \/ s \in Listed(CoachOf[s])
       /\ EligibleSelfPoomsae(s) =>
            CoachOf[s] = None \/ s \in ListedPoomsae(CoachOf[s])
  /\ \A c \in Coaches : \A s \in Listed(c) :
       RoleOf[s] # "referee" =>
         \A w \in Weights, d \in Issued :
           d <= Date["kyorugi"] - 3 /\ CategoriesFor(s, w) # {} /\ w > 0
             => Accepts(s, w, d)
  /\ \A c \in Coaches : \A s \in ListedPoomsae(c) :
       GroupsFor(s, "poomsae") # {}

\* Two live enrollments of one student come from two lines of one order, or from
\* two orders of which the second was put together before the first made its
\* enrollments (CoachRegisterStudentsView): no order makes a line's enrollment
\* twice, and none that was put together later.
DoubleNeedsOverlap ==
  \A i, j \in KyoIds :
    i < j /\ kyo[i].player = kyo[j].player =>
      \/ kyo[i].order = kyo[j].order /\ kyo[i].line # kyo[j].line
      \/ kyo[i].order # kyo[j].order /\ orders[kyo[j].order].since < i

\* A student is enrolled once.  Does not hold: an order is checked when it is
\* put together, not when it is paid, and may name a student twice.
NeverTwice ==
  \A i, j \in KyoIds : kyo[i].player = kyo[j].player => i = j

\* The page for several cards shows nothing the page for one card refuses,
\* although they look at the two tables in opposite orders, and a card that
\* the page of a competition offers is not refused.
CardsAgree ==
  /\ \A u \in Viewers : \A i \in KyoIds \cup DOMAIN poo :
       BulkCard(u, i) # None => Card(u, i) # None
  /\ \A s \in Students :
       /\ \A i \in OfferedKyo(s) \cup OfferedPoo(s) : Card(s, i) # None
       /\ \A i \in PageEnrollment(s) : kyo[i].paid => Card(s, i) = <<"kyorugi", i>>
       /\ PageEnrollment(s) = {} <=> OfferedKyo(s) = {}

\* The card offered for a poomsae enrollment is the card that is shown.  Does
\* not hold: a kyorugi enrollment of the player with the same id hides it.
PoomsaeCardShown ==
  \A s \in Students : \A i \in OfferedPoo(s) : Card(s, i) = <<"poomsae", i>>

\* Requests that are sent again, later registrations and changes by
\* administrators take no payment back and move no card to another person.
PaidKept ==
  [][/\ \A u \in Attendees : seminar[u] = "paid" => seminar'[u] = "paid"
     /\ \A i \in DOMAIN poo :
          i \in DOMAIN poo' /\ poo'[i].player = poo[i].player
            /\ (poo[i].paid => poo'[i].paid)]_vars

\* Whoever registers for poomsae is eligible.  Does not hold: the view checks
\* the belt, and neither gender nor age.
PoomsaeEligibleOnly == \A i \in DOMAIN poo : poo[i].eligible

-----------------------------------------------------------------------------
(* What the proofs add to make the properties inductive *)

\* An order knows how many enrollments there were when it was put together;
\* none of its students had a live one among them, and it makes none before it
\* is paid.
OrdersInv ==
  \A o \in DOMAIN orders :
    /\ orders[o].since <= Len(kyo)
    /\ \A i \in 1..orders[o].since, l \in DOMAIN orders[o].items :
         kyo[i].live => kyo[i].player # orders[o].items[l]
    /\ ~orders[o].paid => \A i \in DOMAIN kyo : kyo[i].order # o

\* A code that a request has drawn is on no row and with no other request,
\* unless it is shared.
DrawnInv ==
  \A k \in Kinds : \A c, d \in Coaches :
    drawing[k][c] # None /\ <<k, drawing[k][c]>> \notin shared =>
      /\ approval[k][d] # None => approval[k][d].code # drawing[k][c]
      /\ d # c => drawing[k][d] # drawing[k][c]

\* A request draws for a row without a code, and keeps the row locked.
LockedInv == \A k \in Kinds, c \in Coaches : Locked(k, c) => NeedsCode(k, c)

\* Enrollments are made paid.
EnrolledPaid == \A i \in DOMAIN kyo : kyo[i].paid

=============================================================================
