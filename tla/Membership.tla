----------------------------- MODULE Membership -----------------------------
(***************************************************************************)
(* Who coaches where, who trains with whom, and the lists made of it:      *)
(* edits of a profile that wait for approval, the clubs a coach picks, the *)
(* requests between clubs and coaches (accounts/views.py, admin.py), and   *)
(* the pages and reports that list students, coaches and referees          *)
(* (accounts/views.py, reports/services.py).                               *)
(*                                                                         *)
(* Filing, approving and picking clubs take two steps each, because what a *)
(* request read is stale when it writes: the serializer writes the row of  *)
(* an edit and what follows completes it; an approval reads edit and       *)
(* profile, without a lock, and writes the whole profile later; the clubs  *)
(* of a coach are set by removing and adding what differs from those read. *)
(* A person has one edit and one pick under way.                           *)
(***************************************************************************)
EXTENDS Naturals, FiniteSets

CONSTANTS
  Persons,   \* UserProfile rows
  Admins,    \* administrators at work at the same time
  Clubs,
  Boards,
  BoardOf,   \* TkdClub.tkd_board
  Forms,     \* bound: the edit forms a person may send
  MaxEdits,  \* bound: the edits a person files
  Candidates,  \* bound: persons the page of a club has offered as coaches
  Asking,    \* bound: the clubs that send requests
  First,     \* the profiles at the start
  MaxClubs,  \* clubs a coach may have: 3 in the code
  None,
  Nobody     \* the coach field sent as "other" or empty

Roles == {"player", "coach", "referee", "both"}

\* The columns of a profile and of its pending edit that matter here.
Rows ==
  [role : Roles, isCoach : BOOLEAN, isReferee : BOOLEAN,
   coach : Persons \cup {None}, club : Clubs \cup {None},
   board : Boards \cup {None}, coaching : SUBSET Clubs]

\* What an edit form sends; None is a field it leaves out.
FormFields ==
  [role : Roles \cup {None}, isCoach : BOOLEAN \cup {None},
   isReferee : BOOLEAN \cup {None}, coach : Persons \cup {Nobody, None},
   club : Clubs \cup {None}, board : Boards \cup {None}, clubs : SUBSET Clubs]

\* A request that files an edit: its form and its copy of the row.
Filings == [form : FormFields, row : Rows]

\* The columns of a profile that an approval may leave as they were.
Keepable ==
  [coach : Persons \cup {None}, club : Clubs \cup {None}, board : Boards \cup {None}]

\* An approval under way: the edit and the columns it read, on which path,
\* whether a row on record is still the one it read (by its key), and whether
\* nobody has been filing since.
Decisions ==
  [person : Persons, path : {"view", "action"}, row : Rows, was : Keepable,
   same : BOOLEAN, clean : BOOLEAN]

\* A pick under way: the clubs picked, and those there were.
Picks == [new : SUBSET Clubs, old : SUBSET Clubs]

Kinds == {"add", "remove"}

ASSUME MembershipAssumption ==
  /\ None \notin Persons /\ None \notin Clubs /\ None \notin Boards
  /\ None \notin Rows /\ None \notin Filings /\ None \notin Roles
  /\ None \notin Decisions /\ None \notin Picks /\ None \notin BOOLEAN
  /\ Nobody \notin Persons /\ Nobody # None
  /\ IsFiniteSet(Persons) /\ IsFiniteSet(Clubs)
  /\ BoardOf \in [Clubs -> Boards \cup {None}]
  /\ First \in [Persons -> Rows]
  /\ Candidates \subseteq Persons /\ Asking \subseteq Clubs
  /\ Forms \in [Persons -> SUBSET FormFields]
  /\ MaxClubs \in Nat /\ MaxEdits \in Nat

VARIABLES
  profile,   \* UserProfile
  edit,      \* PendingEditProfile: the row of a person, or None
  filing,    \* a request that has written the row and not yet completed it:
             \* its form and its copy of the row, or None
  deciding,  \* an administrator's approval that has read and not yet written
  picking,   \* a pick of clubs that has read and not yet written, or None
  request,   \* CoachClubRequest: status of coach, club and kind
  filed,     \* edits filed so far, for the bound
  confirmed, \* history: the last edit a person was told is filed, unless he
             \* has filed again since or it was dropped
  crossed,   \* history: persons who were filing during their last approval
  mixed      \* history: persons whose last pick met clubs it had not read

history == <<confirmed, crossed, mixed>>
vars == <<profile, edit, filing, deciding, picking, request, filed, history>>

TypeOK ==
  /\ profile \in [Persons -> Rows]
  /\ edit \in [Persons -> Rows \cup {None}]
  /\ filing \in [Persons -> Filings \cup {None}]
  /\ \A p \in Persons : filing[p] # None => filing[p].form \in Forms[p]
  /\ deciding \in [Admins -> Decisions \cup {None}]
  /\ picking \in [Persons -> Picks \cup {None}]
  /\ request \in [Persons \X Clubs \X Kinds ->
                    {"none", "pending", "accepted", "rejected"}]
  /\ filed \in [Persons -> 0..MaxEdits]
  /\ confirmed \in [Persons -> Rows \cup {None}]
  /\ crossed \subseteq Persons
  /\ mixed \subseteq Persons

Init ==
  /\ profile = First
  /\ edit = [p \in Persons |-> None]
  /\ filing = [p \in Persons |-> None]
  /\ deciding = [a \in Admins |-> None]
  /\ picking = [p \in Persons |-> None]
  /\ request = [r \in Persons \X Clubs \X Kinds |-> "none"]
  /\ filed = [p \in Persons |-> 0]
  /\ confirmed = [p \in Persons |-> None]
  /\ crossed = {} /\ mixed = {}

-----------------------------------------------------------------------------
(* Edits of a profile *)

\* The mutant of the next definition forgets the coaches who also referee.
RoleForOne(f) ==
  CASE f.isCoach -> "coach"
    [] f.isReferee /\ ~f.isCoach -> "referee"
    [] OTHER -> "player"

\* The role that the flags of the form stand for.
RoleFor(f) ==
  CASE f.isCoach /\ f.isReferee -> "both"
    [] f.isCoach /\ ~f.isReferee -> "coach"
    [] f.isReferee /\ ~f.isCoach -> "referee"
    [] OTHER -> "player"

\* A role that says what the flags say.
RoleAgrees(row) == row.role = RoleFor(row)

\* Sign-up derives the flags from the role.
ASSUME FirstAssumption == \A p \in Persons : RoleAgrees(First[p])

\* A field the form leaves out keeps its value; in a new row it has its
\* default.  The coach is cleared when the form names nobody.
Sent(value, old) == IF value # None THEN value ELSE old

\* What the serializer writes: role and clubs are not the final ones yet.
Written(p, f) ==
  LET old == IF edit[p] # None THEN edit[p]
             ELSE [role |-> "player", isCoach |-> FALSE, isReferee |-> FALSE,
                   coach |-> None, club |-> None, board |-> None, coaching |-> {}]
  IN  [old EXCEPT !.role = Sent(f.role, @), !.isCoach = Sent(f.isCoach, @),
                  !.isReferee = Sent(f.isReferee, @),
                  !.coach = IF f.coach = Nobody THEN None ELSE Sent(f.coach, @),
                  !.club = Sent(f.club, @), !.board = Sent(f.board, @)]

\* Approvals of p under way are no longer of the last edit; and if there is no
\* row, the new one has another key.
Disturb(p) ==
  [a \in Admins |->
     IF deciding[a] # None /\ deciding[a].person = p
       THEN [deciding[a] EXCEPT !.clean = FALSE, !.same = @ /\ edit[p] # None]
       ELSE deciding[a]]

\* Only a coach can be named as coach (limit_choices_to); a person who is one
\* can name himself.
FileEdit(p) ==
  \E f \in Forms[p] :
    /\ filing[p] = None
    /\ filed[p] < MaxEdits
    /\ filed' = [filed EXCEPT ![p] = @ + 1]
    /\ f.coach \in Persons => profile[f.coach].isCoach
    /\ edit' = [edit EXCEPT ![p] = Written(p, f)]
    /\ filing' = [filing EXCEPT ![p] = [form |-> f, row |-> Written(p, f)]]
    /\ deciding' = Disturb(p)
    /\ confirmed' = [confirmed EXCEPT ![p] = None]
    /\ UNCHANGED <<profile, picking, request, crossed, mixed>>

\* The row as the request completes it: k is the club, the role follows the
\* flags.
Completed(p, k) ==
  [filing[p].row EXCEPT !.coaching = filing[p].form.clubs, !.club = k,
                        !.role = RoleFor(filing[p].row)]

\* The request goes on with its own copy of the row, which is inserted again
\* if it was approved or dropped meanwhile.
FinishEdit(p) ==
  /\ filing[p] # None
  /\ LET f == filing[p].form
     IN  /\ f.coach # p
         /\ edit[p] # None \/ f.clubs = {}
         /\ \E k \in IF f.club = None /\ f.clubs # {} THEN f.clubs
                     ELSE {filing[p].row.club} :
              /\ edit' = [edit EXCEPT ![p] = Completed(p, k)]
              /\ confirmed' = [confirmed EXCEPT ![p] = Completed(p, k)]
  /\ filing' = [filing EXCEPT ![p] = None]
  /\ UNCHANGED <<profile, deciding, picking, request, filed, crossed, mixed>>

\* A person named as his own coach, or a row that was approved meanwhile, to
\* which no clubs can be attached: an error, and the row stays as written.
FinishEditFails(p) ==
  /\ filing[p] # None
  /\ \/ filing[p].form.coach = p
     \/ edit[p] = None /\ filing[p].form.clubs # {}
  /\ filing' = [filing EXCEPT ![p] = None]
  /\ UNCHANGED <<profile, edit, deciding, picking, request, filed, history>>

\* approve_edited_profile and the admin action approve: edit and profile are
\* read.
ReadEdit(a, p, path) ==
  /\ deciding[a] = None
  /\ edit[p] # None
  /\ deciding' = [deciding EXCEPT ![a] =
                    [person |-> p, path |-> path, row |-> edit[p],
                     was |-> [c \in {"coach", "club", "board"} |-> profile[p][c]],
                     same |-> TRUE, clean |-> filing[p] = None]]
  /\ UNCHANGED <<profile, edit, filing, picking, request, filed, history>>

\* The mutant of the next definition keeps what the profile has.
KeptOld(value, old) == IF old # None THEN old ELSE value

Kept(value, old) == IF value # None THEN value ELSE old

\* The row on record is the one that was read.
Found(d) == d.same /\ edit[d.person] # None

\* The clubs of the edit, which the staff view looks up when it writes.
ClubsNow(d) ==
  IF d.path = "action" THEN d.row.coaching
  ELSE IF Found(d) THEN edit[d.person].coaching ELSE {}

\* The staff view keeps board, coach, club and clubs that the edit left empty;
\* the admin action copies them as they are.
Result(d) ==
  IF d.path = "action" THEN d.row
  ELSE [d.row EXCEPT
          !.coach = Kept(@, d.was.coach), !.club = Kept(@, d.was.club),
          !.board = Kept(@, d.was.board),
          !.coaching = IF ClubsNow(d) # {} THEN ClubsNow(d)
                       ELSE profile[d.person].coaching]

\* The clubs are set, the profile is saved with all its columns, and the row
\* of the edit is deleted by its key, also if it was filed again since.
WriteEdit(a) ==
  LET d == deciding[a]
      p == d.person
  IN  /\ d # None
      /\ profile' = [profile EXCEPT ![p] = Result(d)]
      /\ edit' = IF Found(d) THEN [edit EXCEPT ![p] = None] ELSE edit
      /\ deciding' = [deciding EXCEPT ![a] = None]
      /\ crossed' = IF d.clean THEN crossed \ {p} ELSE crossed \cup {p}
      /\ mixed' = IF d.path = "action" \/ ClubsNow(d) # {} THEN mixed \ {p}
                  ELSE mixed
      /\ UNCHANGED <<filing, picking, request, filed, confirmed>>

\* An administrator refuses an edit by deleting it.
DropEdit(p) ==
  /\ edit[p] # None
  /\ edit' = [edit EXCEPT ![p] = None]
  /\ confirmed' = [confirmed EXCEPT ![p] = None]
  /\ UNCHANGED <<profile, filing, deciding, picking, request, filed, crossed, mixed>>

-----------------------------------------------------------------------------
(* Coaches and clubs *)

\* The mutant of the next definition counts one club too few.
UpdateCoachClubsOff(p) ==
  \E S \in SUBSET Clubs :
    /\ picking[p] = None
    /\ profile[p].isCoach
    /\ Cardinality(S) <= MaxClubs + 1
    /\ picking' = [picking EXCEPT ![p] = [new |-> S, old |-> profile[p].coaching]]
    /\ UNCHANGED <<profile, edit, filing, deciding, request, filed, history>>

\* The limit is checked, and set() reads the clubs there are.
UpdateCoachClubs(p) ==
  \E S \in SUBSET Clubs :
    /\ picking[p] = None
    /\ profile[p].isCoach
    /\ Cardinality(S) <= MaxClubs
    /\ picking' = [picking EXCEPT ![p] = [new |-> S, old |-> profile[p].coaching]]
    /\ UNCHANGED <<profile, edit, filing, deciding, request, filed, history>>

\* set() removes what it read and was not picked, and adds what was picked and
\* it did not read.
SetClubs(p) ==
  LET new == picking[p].new
      old == picking[p].old
  IN  /\ picking[p] # None
      /\ profile' = [profile EXCEPT ![p].coaching =
                       (@ \ (old \ new)) \cup (new \ old)]
      /\ picking' = [picking EXCEPT ![p] = None]
      /\ mixed' = IF profile[p].coaching = old THEN mixed \ {p} ELSE mixed \cup {p}
      /\ UNCHANGED <<edit, filing, deciding, request, filed, confirmed, crossed>>

\* The coaches of a club, also those who are no longer coaches.
Active(k) == {p \in Persons : k \in profile[p].coaching}

\* A request that was ever made is not made again, whatever its answer.
UpdateClubCoaches(k) ==
  \E S \in SUBSET Candidates :
    LET asked == {<<p, k, "add">> : p \in {q \in S \ Active(k) :
                     Cardinality(profile[q].coaching) < MaxClubs}}
                   \cup {<<p, k, "remove">> : p \in Active(k) \ S}
        new == {r \in asked : request[r] = "none"}
    IN  /\ new # {}
        /\ request' = [r \in DOMAIN request |->
                         IF r \in new THEN "pending" ELSE request[r]]
        /\ UNCHANGED <<profile, edit, filing, deciding, picking, filed, history>>

Respond(p, k, kind, accepted) ==
  /\ request[<<p, k, kind>>] = "pending"
  /\ request' = [request EXCEPT ![<<p, k, kind>>] =
                   IF accepted THEN "accepted" ELSE "rejected"]
  /\ profile' =
       [profile EXCEPT ![p].coaching =
          IF ~accepted THEN @ ELSE IF kind = "add" THEN @ \cup {k} ELSE @ \ {k}]
  /\ UNCHANGED <<edit, filing, deciding, picking, filed, history>>

-----------------------------------------------------------------------------
(* Pages and reports *)

\* What the reports take for a coach or a referee: ROLE_VALUES.
RolesOf(kind) ==
  IF kind = "player" THEN {"player"} ELSE {kind, "both"}

Players == {p \in Persons : profile[p].role \in RolesOf("player")}

\* What the reports find.
StudentsOf(c) == {p \in Persons : profile[p].coach = c}

CoachStudents(c) == StudentsOf(c) \cap Players

ClubsOfBoard(b) == {k \in Clubs : BoardOf[k] = b}

BoardStudents(b) == {p \in Players : profile[p].club \in ClubsOfBoard(b)}

\* The report of a board on its coaches, or on its referees.
BoardStaff(b, kind) ==
  {p \in Persons : profile[p].board = b /\ profile[p].role \in RolesOf(kind)}

RoleCount(kind) == Cardinality({p \in Persons : profile[p].role \in RolesOf(kind)})

PlayersCount(p) == Cardinality(StudentsOf(p))

\* What the panels of a coach, a club and a board show.
CoachPage(c) == IF profile[c].isCoach THEN StudentsOf(c) \ {c} ELSE {}

ClubCoaches(k) == {p \in Persons : k \in profile[p].coaching /\ profile[p].isCoach}

BoardPage(b) == {p \in Persons : profile[p].role = "player" /\ profile[p].board = b}

BoardCoaches(b) == {p \in Persons : profile[p].board = b /\ profile[p].isCoach}

BoardReferees(b) == {p \in Persons : profile[p].board = b /\ profile[p].isReferee}

\* The counters of the panels.
CoachDashboard(c) ==
  IF profile[c].isCoach
  THEN [students |-> Cardinality(StudentsOf(c)),
        clubs |-> Cardinality(profile[c].coaching)]
  ELSE [students |-> 0, clubs |-> 0]

BoardDashboard(b) ==
  [students |-> Cardinality(BoardPage(b)), coaches |-> Cardinality(BoardCoaches(b)),
   referees |-> Cardinality(BoardReferees(b)), clubs |-> Cardinality(ClubsOfBoard(b))]

\* The requests a coach is shown.
Inbox(p) ==
  {r \in Clubs \X Kinds :
     profile[p].isCoach /\ request[<<p, r[1], r[2]>>] = "pending"}

-----------------------------------------------------------------------------

Next ==
  \/ \E p \in Persons :
       \/ FileEdit(p)
       \/ FinishEdit(p)
       \/ FinishEditFails(p)
       \/ DropEdit(p)
       \/ UpdateCoachClubs(p)
       \/ SetClubs(p)
       \/ \E k \in Clubs, kind \in Kinds, accepted \in BOOLEAN :
            Respond(p, k, kind, accepted)
  \/ \E a \in Admins :
       \/ WriteEdit(a)
       \/ \E p \in Persons, path \in {"view", "action"} : ReadEdit(a, p, path)
  \/ \E k \in Asking : UpdateClubCoaches(k)

Spec == Init /\ [][Next]_vars

-----------------------------------------------------------------------------
(* Properties *)

\* The clubs of a person without those whose request he accepted.
Unasked(p) == {k \in profile[p].coaching : request[<<p, k, "add">>] # "accepted"}

\* Clubs that came from one act: what the profile started with, one edit, or
\* one pick within the limit.
OneAct(p, S) ==
  \/ S \subseteq First[p].coaching
  \/ \E f \in Forms[p] : S \subseteq f.clubs
  \/ Cardinality(S) <= MaxClubs

\* The clubs of a coach beyond the limit of UpdateCoachClubsAPIView are clubs
\* whose request he accepted, each at most once, or were all named in one
\* edit, which has no limit: no chain of picks, edits, requests and answers
\* piles up more, unless a pick met a change of the clubs it had not read.
ClubsFromOneAct == \A p \in Persons \ mixed : OneAct(p, Unasked(p))

\* A coach has at most the clubs the limit allows.  Does not hold: an edit has
\* no limit, and a request is answered without counting.
AtMostMaxClubs == \A p \in Persons : Cardinality(profile[p].coaching) <= MaxClubs

\* The profile has what the confirmed edit of p says.
Took(p) ==
  /\ \A c \in {"role", "isCoach", "isReferee"} : profile[p][c] = confirmed[p][c]
  /\ \A c \in {"coach", "club", "board"} :
       confirmed[p][c] # None => profile[p][c] = confirmed[p][c]

\* An edit that a person was told is filed waits for approval or is in his
\* profile, unless an administrator dropped it or he was filing it while an
\* approval was under way: two administrators who approve the same edit, on
\* whichever path and in whichever order, lose nothing of it.
NoEditLost ==
  \A p \in Persons \ crossed :
    confirmed[p] # None => edit[p] = confirmed[p] \/ Took(p)

\* The report of a board, which goes by the role, and the pages of the board,
\* which go by the flags, list and count the same coaches and referees, and a
\* coach of the report finds on his page the students the report gives him;
\* except for those who got themselves as coach by an edit that was refused,
\* and those who were filing while their edit was approved.
StaffListsAgree ==
  LET settled == {p \in Persons : profile[p].coach # p} \ crossed
  IN  /\ \A b \in Boards :
           /\ BoardStaff(b, "coach") \cap settled = BoardCoaches(b) \cap settled
           /\ BoardStaff(b, "referee") \cap settled = BoardReferees(b) \cap settled
           /\ settled = Persons =>
                /\ Cardinality(BoardStaff(b, "coach")) = BoardDashboard(b).coaches
                /\ Cardinality(BoardStaff(b, "referee")) = BoardDashboard(b).referees
      /\ settled = Persons =>
           RoleCount("coach") = Cardinality({p \in Persons : profile[p].isCoach})
      /\ \A c \in settled : profile[c].role \in RolesOf("coach") =>
           /\ CoachStudents(c) \subseteq CoachPage(c)
           /\ CoachDashboard(c).students = PlayersCount(c)

\* The report of a board and its page list the same students.  Does not hold:
\* one goes by the board of the club, the other by the board of the profile.
BoardStudentsAgree == \A b \in Boards : BoardStudents(b) = BoardPage(b)

\* Nobody is his own coach.  Does not hold: the edit is refused after the row
\* was written, and the row can be approved.
NobodyOwnCoach == \A p \in Persons : profile[p].coach # p

\* A coach sees every request that waits for him.  Does not hold: who has
\* stopped being a coach is asked to leave his clubs and is not shown it.
RequestsSeen ==
  \A p \in Persons, k \in Clubs, kind \in Kinds :
    request[<<p, k, kind>>] = "pending" => <<k, kind>> \in Inbox(p)

-----------------------------------------------------------------------------
(* The inductive invariants of the proofs in MembershipProofs *)

\* While a request is filing an edit, the row on record is the one it wrote or
\* is gone; what it wrote names the person's own coach if its form does.  A
\* row nobody is filing any more is complete, or was refused for naming its
\* own person as coach.
FilingInv ==
  \A p \in Persons :
    /\ filing[p] # None =>
         /\ filing[p].form.coach = p => filing[p].row.coach = p
         /\ edit[p] # None => edit[p] = filing[p].row
         /\ confirmed[p] = None
    /\ filing[p] = None /\ edit[p] # None /\ edit[p].coach # p => RoleAgrees(edit[p])
    /\ confirmed[p] # None /\ edit[p] # None => edit[p] = confirmed[p]

\* An approval that no filing disturbed holds the last edit, which is complete.
DecidingInv ==
  \A a \in Admins :
    LET d == deciding[a]
        p == d.person
    IN  d # None /\ d.clean =>
          /\ filing[p] = None
          /\ confirmed[p] # None => confirmed[p] = d.row
          /\ d.row.coach # p => RoleAgrees(d.row)

\* Who is not his own coach, and was not filing during his last approval, has
\* a role that agrees with his flags.
RolesInv ==
  \A p \in Persons :
    profile[p].coach # p /\ p \notin crossed => RoleAgrees(profile[p])

\* The clubs of edits under way, of approvals and of picks come from one act.
ClubsInv ==
  /\ \A p \in Persons :
       /\ edit[p] # None => OneAct(p, edit[p].coaching)
       /\ filing[p] # None => OneAct(p, filing[p].row.coaching)
       /\ picking[p] # None => OneAct(p, picking[p].new)
  /\ \A a \in Admins :
       deciding[a] # None => OneAct(deciding[a].person, deciding[a].row.coaching)

=============================================================================
