-------------------------- MODULE MembershipProofs --------------------------
(***************************************************************************)
(* Theorems about Membership, for any persons, clubs, boards, edit forms   *)
(* and any number of administrators at work at once.                       *)
(***************************************************************************)
EXTENDS Membership, FiniteSetTheorems, TLAPS

\* The role made of the flags is a role.
LEMMA RoleForType ==
  ASSUME NEW row
  PROVE  RoleFor(row) \in Roles
  BY DEF RoleFor, Roles

\* A row that the serializer writes is a row; it names its own person as coach
\* if the form does, and it has the clubs of the edit before.
LEMMA WrittenType ==
  ASSUME TypeOK, NEW p \in Persons, NEW f \in Forms[p]
  PROVE  /\ Written(p, f) \in Rows
         /\ f.coach = p => Written(p, f).coach = p
         /\ edit[p] # None => Written(p, f).coaching = edit[p].coaching
         /\ edit[p] = None => Written(p, f).coaching = {}
  <1> DEFINE old == IF edit[p] # None THEN edit[p]
                    ELSE [role |-> "player", isCoach |-> FALSE,
                          isReferee |-> FALSE, coach |-> None, club |-> None,
                          board |-> None, coaching |-> {}]
  <1>1. f \in FormFields
    BY MembershipAssumption
  <1>2. old \in Rows
    BY DEF TypeOK, Rows, Roles
  <1> HIDE DEF old
  <1> DEFINE coach == IF f.coach = Nobody THEN None ELSE Sent(f.coach, old.coach)
             new == [old EXCEPT !.role = Sent(f.role, @),
                                !.isCoach = Sent(f.isCoach, @),
                                !.isReferee = Sent(f.isReferee, @),
                                !.coach = coach,
                                !.club = Sent(f.club, @), !.board = Sent(f.board, @)]
  <1>3. /\ Sent(f.role, old.role) \in Roles
        /\ coach \in Persons \cup {None}
        /\ Sent(f.club, old.club) \in Clubs \cup {None}
        /\ Sent(f.board, old.board) \in Boards \cup {None}
        /\ f.coach = p => coach = p
    BY <1>1, <1>2, MembershipAssumption DEF Rows, FormFields, Sent
  <1>4. /\ Sent(f.isCoach, old.isCoach) \in BOOLEAN
        /\ Sent(f.isReferee, old.isReferee) \in BOOLEAN
    BY <1>1, <1>2, Zenon DEF Rows, FormFields, Sent
  <1> HIDE DEF coach
  <1>5. new \in Rows
    BY <1>2, <1>3, <1>4 DEF Rows
  <1>6. new.coach = coach /\ new.coaching = old.coaching
    BY <1>2 DEF Rows
  <1>7. Written(p, f) = new
    BY DEF Written, old, coach
  <1> QED
    BY <1>3, <1>5, <1>6, <1>7 DEF old

\* The row that a request completes: a row with the clubs of the form, whose
\* role agrees with its flags.
LEMMA CompletedType ==
  ASSUME TypeOK, NEW p \in Persons, filing[p] # None, NEW k \in Clubs \cup {None}
  PROVE  /\ Completed(p, k) \in Rows
         /\ RoleAgrees(Completed(p, k))
         /\ Completed(p, k).coaching = filing[p].form.clubs
  <1>1. filing[p].row \in Rows /\ filing[p].form \in FormFields
    BY DEF TypeOK, Filings
  <1> DEFINE row == filing[p].row
             new == Completed(p, k)
  <1>2. RoleFor(row) \in Roles
    BY RoleForType
  <1>3. /\ new \in Rows
        /\ new.role = RoleFor(row) /\ new.coaching = filing[p].form.clubs
        /\ new.isCoach = row.isCoach /\ new.isReferee = row.isReferee
    BY <1>1, <1>2 DEF Completed, Rows, FormFields
  <1>4. RoleFor(new) = RoleFor(row)
    BY <1>3 DEF RoleFor
  <1> QED
    BY <1>3, <1>4 DEF RoleAgrees

\* What an approval writes: the role and the flags of the edit, and the coach,
\* the club and the board of the edit unless it names none.
LEMMA ResultType ==
  ASSUME TypeOK, NEW d \in Decisions
  PROVE  /\ Result(d) \in Rows
         /\ Result(d).role = d.row.role
         /\ Result(d).isCoach = d.row.isCoach
         /\ Result(d).isReferee = d.row.isReferee
         /\ d.row.coach # None => Result(d).coach = d.row.coach
         /\ d.row.club # None => Result(d).club = d.row.club
         /\ d.row.board # None => Result(d).board = d.row.board
         /\ Result(d).coaching =
              IF d.path = "action" THEN d.row.coaching
              ELSE IF ClubsNow(d) # {} THEN ClubsNow(d)
              ELSE profile[d.person].coaching
  <1>1. d.row \in Rows /\ d.was \in Keepable /\ d.person \in Persons
    BY DEF Decisions
  <1>2. /\ profile[d.person].coaching \in SUBSET Clubs
        /\ ClubsNow(d) \in SUBSET Clubs
    BY <1>1 DEF TypeOK, Rows, ClubsNow, Found
  <1>3. CASE d.path = "action"
    BY <1>1, <1>3 DEF Result
  <1>4. CASE d.path # "action"
    <2> DEFINE clubs == IF ClubsNow(d) # {} THEN ClubsNow(d)
                        ELSE profile[d.person].coaching
               coach == Kept(d.row.coach, d.was.coach)
               club == Kept(d.row.club, d.was.club)
               board == Kept(d.row.board, d.was.board)
    <2>1. /\ coach \in Persons \cup {None} /\ club \in Clubs \cup {None}
          /\ board \in Boards \cup {None} /\ clubs \in SUBSET Clubs
          /\ d.row.coach # None => coach = d.row.coach
          /\ d.row.club # None => club = d.row.club
          /\ d.row.board # None => board = d.row.board
      BY <1>1, <1>2 DEF Kept, Keepable, Rows
    <2>2. Result(d) = [d.row EXCEPT !.coach = coach, !.club = club,
                                    !.board = board, !.coaching = clubs]
      BY <1>4 DEF Result
    <2> HIDE DEF clubs, coach, club, board
    <2>3. /\ Result(d) \in Rows
          /\ Result(d).role = d.row.role
          /\ Result(d).isCoach = d.row.isCoach /\ Result(d).isReferee = d.row.isReferee
          /\ Result(d).coach = coach /\ Result(d).club = club
          /\ Result(d).board = board /\ Result(d).coaching = clubs
      BY <1>1, <2>1, <2>2 DEF Rows
    <2> QED
      BY <1>4, <2>1, <2>3 DEF clubs
  <1> QED
    BY <1>3, <1>4

\* The inductive invariant behind the theorems that do not count clubs.
StateInv == TypeOK /\ FilingInv /\ DecidingInv /\ RolesInv /\ NoEditLost

\* The initial state satisfies it: nothing is filed, and sign-up made the
\* flags of a profile agree with its role.
LEMMA InitStateInv == Init => StateInv
  <1> SUFFICES ASSUME Init PROVE StateInv
    OBVIOUS
  <1>1. TypeOK
    BY MembershipAssumption DEF Init, TypeOK, Kinds
  <1>2. FilingInv /\ DecidingInv /\ NoEditLost
    BY DEF Init, FilingInv, DecidingInv, NoEditLost
  <1>3. RolesInv
    BY FirstAssumption DEF Init, RolesInv
  <1> QED
    BY <1>1, <1>2, <1>3 DEF StateInv

\* The serializer writes the row of an edit.
LEMMA FileEditInv ==
  ASSUME StateInv, NEW p \in Persons, FileEdit(p)
  PROVE  StateInv'
  <1> USE DEF StateInv
  <1> PICK f \in Forms[p] :
         /\ filing[p] = None
         /\ filed[p] < MaxEdits
         /\ filed' = [filed EXCEPT ![p] = @ + 1]
         /\ edit' = [edit EXCEPT ![p] = Written(p, f)]
         /\ filing' = [filing EXCEPT ![p] = [form |-> f, row |-> Written(p, f)]]
         /\ deciding' = Disturb(p)
         /\ confirmed' = [confirmed EXCEPT ![p] = None]
         /\ UNCHANGED <<profile, picking, request, crossed, mixed>>
    BY DEF FileEdit
  <1> DEFINE row == Written(p, f)
  <1>1. row \in Rows /\ (f.coach = p => row.coach = p)
    BY WrittenType
  <1> HIDE DEF row
  <1>2. /\ edit' = [edit EXCEPT ![p] = row]
        /\ filing' = [filing EXCEPT ![p] = [form |-> f, row |-> row]]
    BY DEF row
  <1>3. [form |-> f, row |-> row] \in Filings
    BY <1>1, MembershipAssumption DEF Filings
  <1>4. [form |-> f, row |-> row] # None
    BY <1>3, MembershipAssumption
  <1>5. /\ \A a \in Admins : Disturb(p)[a] \in Decisions \cup {None}
        /\ \A a \in Admins : Disturb(p)[a] # None /\ Disturb(p)[a].clean =>
             /\ deciding[a] # None /\ Disturb(p)[a] = deciding[a]
             /\ deciding[a].person # p
    <2> SUFFICES ASSUME NEW a \in Admins
                 PROVE  /\ Disturb(p)[a] \in Decisions \cup {None}
                        /\ Disturb(p)[a] # None /\ Disturb(p)[a].clean =>
                             /\ deciding[a] # None /\ Disturb(p)[a] = deciding[a]
                             /\ deciding[a].person # p
      OBVIOUS
    <2>1. CASE deciding[a] # None /\ deciding[a].person = p
      <3>1. Disturb(p)[a] = [deciding[a] EXCEPT !.clean = FALSE,
                                                      !.same = @ /\ edit[p] # None]
        BY <2>1 DEF Disturb
      <3>2. deciding[a] \in Decisions
        BY <2>1 DEF TypeOK
      <3>3. Disturb(p)[a] \in Decisions /\ Disturb(p)[a].clean = FALSE
        BY <3>1, <3>2 DEF Decisions
      <3> QED
        BY <3>3
    <2>2. CASE ~(deciding[a] # None /\ deciding[a].person = p)
      <3>1. Disturb(p)[a] = deciding[a]
        BY <2>2 DEF Disturb
      <3> QED
        BY <2>2, <3>1 DEF TypeOK
    <2> QED
      BY <2>1, <2>2
  <1>6. TypeOK'
    <2>1. deciding' \in [Admins -> Decisions \cup {None}]
      BY <1>5 DEF Disturb
    <2>2. filed' \in [Persons -> 0..MaxEdits]
      BY MembershipAssumption DEF TypeOK
    <2>3. /\ profile' \in [Persons -> Rows]
          /\ edit' \in [Persons -> Rows \cup {None}]
          /\ filing' \in [Persons -> Filings \cup {None}]
          /\ confirmed' \in [Persons -> Rows \cup {None}]
      BY <1>1, <1>2, <1>3 DEF TypeOK
    <2>4. \A q \in Persons : filing'[q] # None => filing'[q].form \in Forms[q]
      BY <1>2 DEF TypeOK
    <2> QED
      BY <2>1, <2>2, <2>3, <2>4 DEF TypeOK
  <1>7. FilingInv'
    BY <1>1, <1>2, <1>4 DEF FilingInv, TypeOK, RoleAgrees
  <1>8. DecidingInv'
    <2> SUFFICES ASSUME NEW a \in Admins, deciding'[a] # None, deciding'[a].clean
                 PROVE  /\ filing'[deciding'[a].person] = None
                        /\ confirmed'[deciding'[a].person] # None =>
                             confirmed'[deciding'[a].person] = deciding'[a].row
                        /\ deciding'[a].row.coach # deciding'[a].person =>
                             RoleAgrees(deciding'[a].row)
      BY DEF DecidingInv
    <2>1. deciding'[a] = deciding[a] /\ deciding[a].person # p /\ deciding[a] # None
      BY <1>5
    <2>2. deciding[a].person \in Persons
      BY <2>1 DEF TypeOK, Decisions
    <2> QED
      BY <1>2, <2>1, <2>2 DEF DecidingInv, TypeOK
  <1>9. RolesInv' /\ NoEditLost'
    BY <1>2 DEF RolesInv, RoleAgrees, NoEditLost, Took, TypeOK
  <1> QED
    BY <1>6, <1>7, <1>8, <1>9

\* What the rest of the request does to the edit.
LEMMA FinishEditRow ==
  ASSUME TypeOK, NEW p \in Persons, FinishEdit(p)
  PROVE  \E row \in Rows :
           /\ RoleAgrees(row)
           /\ row.coaching = filing[p].form.clubs
           /\ edit' = [edit EXCEPT ![p] = row]
           /\ confirmed' = [confirmed EXCEPT ![p] = row]
  <1> DEFINE f == filing[p].form
  <1>1. filing[p] # None /\ filing[p] \in Filings
    BY DEF FinishEdit, TypeOK
  <1>2. PICK k \in IF f.club = None /\ f.clubs # {} THEN f.clubs
                   ELSE {filing[p].row.club} :
          /\ edit' = [edit EXCEPT ![p] = Completed(p, k)]
          /\ confirmed' = [confirmed EXCEPT ![p] = Completed(p, k)]
    BY DEF FinishEdit
  <1>3. k \in Clubs \cup {None}
    BY <1>1, <1>2 DEF Filings, FormFields, Rows
  <1> QED
    BY <1>1, <1>2, <1>3, CompletedType

\* The rest of the request completes the row.
LEMMA FinishEditInv ==
  ASSUME StateInv, NEW p \in Persons, FinishEdit(p)
  PROVE  StateInv'
  <1> USE DEF StateInv
  <1> PICK row \in Rows : /\ RoleAgrees(row)
                          /\ edit' = [edit EXCEPT ![p] = row]
                          /\ confirmed' = [confirmed EXCEPT ![p] = row]
    BY FinishEditRow
  <1>1. /\ filing[p] # None
        /\ filing' = [filing EXCEPT ![p] = None]
        /\ UNCHANGED <<profile, deciding, picking, request, filed, crossed, mixed>>
    BY DEF FinishEdit
  <1>2. row # None
    BY MembershipAssumption
  <1>3. TypeOK'
    BY <1>1 DEF TypeOK
  <1>4. FilingInv'
    BY <1>1, <1>2 DEF FilingInv, TypeOK, RoleAgrees
  <1>5. DecidingInv'
    BY <1>1 DEF DecidingInv, TypeOK, Decisions, RoleAgrees
  <1>6. RolesInv' /\ NoEditLost'
    BY <1>1 DEF RolesInv, RoleAgrees, NoEditLost, Took, TypeOK
  <1> QED
    BY <1>3, <1>4, <1>5, <1>6

\* An edit that is refused half way leaves the row as it was written, and then
\* it names its own person as coach, or is gone.
LEMMA FinishEditFailsInv ==
  ASSUME StateInv, NEW p \in Persons, FinishEditFails(p)
  PROVE  StateInv'
  <1> USE DEF StateInv, FinishEditFails, history
  <1>1. TypeOK'
    BY DEF TypeOK
  <1>2. FilingInv'
    BY DEF FilingInv, TypeOK, RoleAgrees
  <1>3. DecidingInv'
    BY DEF DecidingInv, TypeOK, Decisions, RoleAgrees
  <1>4. RolesInv' /\ NoEditLost'
    BY DEF RolesInv, RoleAgrees, NoEditLost, Took
  <1> QED
    BY <1>1, <1>2, <1>3, <1>4

\* An administrator reads edit and profile.
LEMMA ReadEditInv ==
  ASSUME StateInv, NEW a \in Admins, NEW p \in Persons,
         NEW path \in {"view", "action"}, ReadEdit(a, p, path)
  PROVE  StateInv'
  <1> USE DEF StateInv
  <1> DEFINE d == [person |-> p, path |-> path, row |-> edit[p],
                   was |-> [c \in {"coach", "club", "board"} |-> profile[p][c]],
                   same |-> TRUE, clean |-> filing[p] = None]
  <1>1. /\ edit[p] # None
        /\ deciding' = [deciding EXCEPT ![a] = d]
        /\ UNCHANGED <<profile, edit, filing, picking, request, filed, history>>
    BY DEF ReadEdit
  <1>2. d \in Decisions
    <2>1. edit[p] \in Rows /\ profile[p] \in Rows
      BY <1>1 DEF TypeOK
    <2>2. d.was \in Keepable
      BY <2>1 DEF Rows, Keepable
    <2> QED
      BY <2>1, <2>2 DEF Decisions
  <1>3. d.person = p /\ d.row = edit[p] /\ (d.clean <=> filing[p] = None)
    OBVIOUS
  <1> HIDE DEF d
  <1>4. TypeOK'
    BY <1>1, <1>2 DEF TypeOK, history
  <1>5. FilingInv' /\ RolesInv' /\ NoEditLost'
    BY <1>1 DEF FilingInv, RolesInv, NoEditLost, Took, RoleAgrees, history
  <1>6. DecidingInv'
    BY <1>1, <1>3 DEF DecidingInv, FilingInv, TypeOK, RoleAgrees, history
  <1> QED
    BY <1>4, <1>5, <1>6

\* The profile is saved with what was read.  Only an approval that no filing
\* disturbed takes its person out of crossed, and it held the last edit.
LEMMA WriteEditInv ==
  ASSUME StateInv, NEW a \in Admins, WriteEdit(a)
  PROVE  StateInv'
  <1> USE DEF StateInv
  <1> PICK d : d = deciding[a]
    OBVIOUS
  <1> PICK p : p = d.person
    OBVIOUS
  <1> PICK row : row = Result(d)
    OBVIOUS
  <1>1. /\ d # None
        /\ profile' = [profile EXCEPT ![p] = row]
        /\ edit' \in {edit, [edit EXCEPT ![p] = None]}
        /\ deciding' = [deciding EXCEPT ![a] = None]
        /\ crossed' = IF d.clean THEN crossed \ {p} ELSE crossed \cup {p}
        /\ mixed' \in {mixed, mixed \ {p}}
        /\ UNCHANGED <<filing, picking, request, filed, confirmed>>
    BY DEF WriteEdit
  <1>2. d \in Decisions /\ p \in Persons /\ d.row \in Rows
    BY <1>1 DEF TypeOK, Decisions
  <1>3. /\ row \in Rows
        /\ row.role = d.row.role
        /\ row.isCoach = d.row.isCoach /\ row.isReferee = d.row.isReferee
        /\ d.row.coach # None => row.coach = d.row.coach
        /\ d.row.club # None => row.club = d.row.club
        /\ d.row.board # None => row.board = d.row.board
    BY <1>2, ResultType
  <1>4. TypeOK'
    BY <1>1, <1>2, <1>3 DEF TypeOK
  <1>5. FilingInv'
    BY <1>1, <1>2 DEF FilingInv, TypeOK, RoleAgrees
  <1>6. DecidingInv'
    BY <1>1 DEF DecidingInv, TypeOK, RoleAgrees
  <1>7. d.clean => (row.coach # p => RoleAgrees(row))
    <2> SUFFICES ASSUME d.clean, row.coach # p PROVE RoleAgrees(row)
      OBVIOUS
    <2>1. d.row.coach # p
      BY <1>2, <1>3, MembershipAssumption
    <2>2. RoleAgrees(d.row)
      BY <1>1, <2>1 DEF DecidingInv
    <2>3. RoleFor(row) = RoleFor(d.row)
      BY <1>3 DEF RoleFor
    <2> QED
      BY <1>3, <2>2, <2>3 DEF RoleAgrees
  <1>8. RolesInv'
    BY <1>1, <1>2, <1>7 DEF RolesInv, TypeOK
  <1>9. NoEditLost'
    <2> SUFFICES ASSUME NEW q \in Persons, q \notin crossed', confirmed'[q] # None
                 PROVE  edit'[q] = confirmed'[q] \/ Took(q)'
      BY DEF NoEditLost
    <2>1. CASE q # p
      <3>1. profile'[q] = profile[q] /\ edit'[q] = edit[q] /\ confirmed'[q] = confirmed[q]
        BY <1>1, <1>2, <2>1 DEF TypeOK
      <3>2. q \notin crossed
        BY <1>1, <2>1
      <3> QED
        BY <3>1, <3>2 DEF NoEditLost, Took
    <2>2. CASE q = p
      <3>1. d.clean
        BY <1>1, <2>2
      <3>2. confirmed'[q] = d.row /\ profile'[q] = row
        BY <1>1, <1>2, <2>2, <3>1 DEF DecidingInv, TypeOK
      <3> QED
        BY <1>3, <3>2 DEF Took
    <2> QED
      BY <2>1, <2>2
  <1> QED
    BY <1>4, <1>5, <1>6, <1>8, <1>9

\* Setting the clubs of a row leaves the rest of it.
LEMMA RowWithClubs ==
  ASSUME NEW row \in Rows, NEW S \in SUBSET Clubs
  PROVE  LET new == [row EXCEPT !.coaching = S]
         IN  /\ new \in Rows
             /\ new.role = row.role
             /\ new.isCoach = row.isCoach /\ new.isReferee = row.isReferee
             /\ new.coach = row.coach /\ new.club = row.club
             /\ new.board = row.board /\ new.coaching = S
  BY DEF Rows

\* A step that changes only clubs of coaches and what is remembered of them.
LEMMA ClubStep ==
  ASSUME StateInv, NEW p \in Persons, NEW S \in SUBSET Clubs,
         profile' = [profile EXCEPT ![p].coaching = S],
         picking' \in [Persons -> Picks \cup {None}],
         request' \in [Persons \X Clubs \X Kinds ->
                         {"none", "pending", "accepted", "rejected"}],
         mixed' \in SUBSET Persons,
         UNCHANGED <<edit, filing, deciding, filed, confirmed, crossed>>
  PROVE  StateInv'
  <1> USE DEF StateInv
  <1> DEFINE row == [profile[p] EXCEPT !.coaching = S]
  <1>1. /\ row \in Rows
        /\ row.role = profile[p].role
        /\ row.isCoach = profile[p].isCoach /\ row.isReferee = profile[p].isReferee
        /\ row.coach = profile[p].coach /\ row.club = profile[p].club
        /\ row.board = profile[p].board
    <2>1. profile[p] \in Rows
      BY DEF TypeOK
    <2> QED
      BY <2>1, RowWithClubs
  <1> HIDE DEF row
  <1>2. profile' = [profile EXCEPT ![p] = row]
    BY DEF row
  <1>3. TypeOK'
    BY <1>1, <1>2 DEF TypeOK
  <1>4. FilingInv' /\ DecidingInv'
    BY DEF FilingInv, DecidingInv, RoleAgrees
  <1>5. RoleFor(row) = RoleFor(profile[p])
    BY <1>1 DEF RoleFor
  <1>6. RolesInv'
    BY <1>1, <1>2, <1>5 DEF RolesInv, RoleAgrees, TypeOK
  <1>7. NoEditLost'
    BY <1>1, <1>2 DEF NoEditLost, Took, TypeOK
  <1> QED
    BY <1>3, <1>4, <1>6, <1>7

\* A deleted edit, the clubs a coach picks, and the requests of a club.
LEMMA OtherStateInv ==
  ASSUME StateInv, NEW p \in Persons,
         \/ DropEdit(p)
         \/ UpdateCoachClubs(p)
         \/ SetClubs(p)
         \/ \E k \in Asking : UpdateClubCoaches(k)
         \/ \E k \in Clubs, kind \in Kinds, accepted \in BOOLEAN :
              Respond(p, k, kind, accepted)
  PROVE  StateInv'
  <1> USE DEF StateInv
  <1>1. CASE DropEdit(p)
    <2> USE <1>1 DEF DropEdit
    <2>1. TypeOK'
      BY DEF TypeOK
    <2>2. FilingInv' /\ DecidingInv'
      BY DEF FilingInv, DecidingInv, TypeOK, RoleAgrees, Decisions
    <2>3. RolesInv' /\ NoEditLost'
      BY DEF RolesInv, NoEditLost, Took, TypeOK, RoleAgrees
    <2> QED
      BY <2>1, <2>2, <2>3
  <1>2. CASE UpdateCoachClubs(p)
    <2> PICK S \in SUBSET Clubs :
           /\ picking' = [picking EXCEPT ![p] = [new |-> S, old |-> profile[p].coaching]]
           /\ UNCHANGED <<profile, edit, filing, deciding, request, filed, history>>
      BY <1>2 DEF UpdateCoachClubs
    <2>1. [new |-> S, old |-> profile[p].coaching] \in Picks
      BY DEF TypeOK, Rows, Picks
    <2>2. TypeOK'
      BY <2>1 DEF TypeOK, history
    <2>3. FilingInv' /\ DecidingInv' /\ RolesInv' /\ NoEditLost'
      BY DEF FilingInv, DecidingInv, RolesInv, NoEditLost, Took, RoleAgrees, history
    <2> QED
      BY <2>2, <2>3
  <1>3. CASE SetClubs(p)
    <2> DEFINE S == (profile[p].coaching \ (picking[p].old \ picking[p].new))
                      \cup (picking[p].new \ picking[p].old)
    <2>1. picking[p] \in Picks
      BY <1>3 DEF SetClubs, TypeOK
    <2>2. S \in SUBSET Clubs
      BY <2>1 DEF TypeOK, Rows, Picks
    <2>3. profile' = [profile EXCEPT ![p].coaching = S]
      BY <1>3 DEF SetClubs
    <2>4. /\ picking' \in [Persons -> Picks \cup {None}]
          /\ mixed' \in SUBSET Persons
          /\ UNCHANGED <<edit, filing, deciding, request, filed, confirmed, crossed>>
      BY <1>3 DEF SetClubs, TypeOK
    <2>5. request' \in [Persons \X Clubs \X Kinds ->
                          {"none", "pending", "accepted", "rejected"}]
      BY <2>4 DEF TypeOK
    <2> HIDE DEF S
    <2> QED
      BY <2>2, <2>3, <2>4, <2>5, ClubStep
  <1>4. ASSUME NEW k \in Asking, UpdateClubCoaches(k) PROVE StateInv'
    <2>1. /\ request' \in [Persons \X Clubs \X Kinds ->
                             {"none", "pending", "accepted", "rejected"}]
          /\ UNCHANGED <<profile, edit, filing, deciding, picking, filed, history>>
      BY <1>4 DEF UpdateClubCoaches, TypeOK
    <2>2. TypeOK'
      BY <2>1 DEF TypeOK, history
    <2>3. FilingInv' /\ DecidingInv' /\ RolesInv' /\ NoEditLost'
      BY <2>1 DEF FilingInv, DecidingInv, RolesInv, NoEditLost, Took, RoleAgrees, history
    <2> QED
      BY <2>2, <2>3
  <1>5. ASSUME NEW k \in Clubs, NEW kind \in Kinds, NEW accepted \in BOOLEAN,
               Respond(p, k, kind, accepted)
        PROVE  StateInv'
    <2> DEFINE S == IF ~accepted THEN profile[p].coaching
                    ELSE IF kind = "add" THEN profile[p].coaching \cup {k}
                    ELSE profile[p].coaching \ {k}
    <2>1. S \in SUBSET Clubs
      BY DEF TypeOK, Rows
    <2>2. profile' = [profile EXCEPT ![p].coaching = S]
      BY <1>5 DEF Respond
    <2>3. /\ request' \in [Persons \X Clubs \X Kinds ->
                             {"none", "pending", "accepted", "rejected"}]
          /\ UNCHANGED <<edit, filing, deciding, picking, filed, confirmed, crossed, mixed>>
      BY <1>5 DEF Respond, TypeOK, history
    <2>4. picking' \in [Persons -> Picks \cup {None}] /\ mixed' \in SUBSET Persons
      BY <2>3 DEF TypeOK
    <2> HIDE DEF S
    <2> QED
      BY <2>1, <2>2, <2>3, <2>4, ClubStep
  <1> QED
    BY <1>1, <1>2, <1>3, <1>4, <1>5

\* Every step preserves the invariant.
LEMMA NextStateInv ==
  ASSUME StateInv, [Next]_vars
  PROVE  StateInv'
  <1>1. CASE UNCHANGED vars
    <2>1. UNCHANGED <<profile, edit, filing, deciding, picking, request, filed,
                      confirmed, crossed, mixed>>
      BY <1>1 DEF vars, history
    <2>2. TypeOK'
      BY <2>1 DEF StateInv, TypeOK
    <2>3. FilingInv' /\ DecidingInv' /\ RolesInv' /\ NoEditLost'
      BY <2>1 DEF StateInv, FilingInv, DecidingInv, RolesInv, NoEditLost, Took, RoleAgrees
    <2> QED
      BY <2>2, <2>3 DEF StateInv
  <1>2. ASSUME NEW p \in Persons, FileEdit(p) PROVE StateInv'
    BY <1>2, FileEditInv
  <1>3. ASSUME NEW p \in Persons, FinishEdit(p) PROVE StateInv'
    BY <1>3, FinishEditInv
  <1>4. ASSUME NEW p \in Persons, FinishEditFails(p) PROVE StateInv'
    BY <1>4, FinishEditFailsInv
  <1>5. ASSUME NEW a \in Admins, NEW p \in Persons, NEW path \in {"view", "action"},
               ReadEdit(a, p, path)
        PROVE  StateInv'
    BY <1>5, ReadEditInv
  <1>6. ASSUME NEW a \in Admins, WriteEdit(a) PROVE StateInv'
    BY <1>6, WriteEditInv
  <1>7. ASSUME NEW p \in Persons,
               \/ DropEdit(p)
               \/ UpdateCoachClubs(p)
               \/ SetClubs(p)
               \/ \E k \in Clubs, kind \in Kinds, accepted \in BOOLEAN :
                    Respond(p, k, kind, accepted)
        PROVE  StateInv'
    BY <1>7, OtherStateInv
  <1>8. ASSUME NEW k \in Asking, UpdateClubCoaches(k) PROVE StateInv'
    <2>1. PICK p \in Persons : TRUE
      BY <1>8, MembershipAssumption DEF UpdateClubCoaches, Active
    <2> QED
      BY <1>8, <2>1, OtherStateInv
  <1> QED
    BY <1>1, <1>2, <1>3, <1>4, <1>5, <1>6, <1>7, <1>8 DEF Next

\* The invariant holds throughout.
LEMMA StateInvariant == Spec => []StateInv
  <1>1. Init => StateInv
    BY InitStateInv
  <1>2. StateInv /\ [Next]_vars => StateInv'
    BY NextStateInv
  <1> QED
    BY <1>1, <1>2, PTL DEF Spec

\* Profiles, edits and approvals under way, picks and requests keep their types.
THEOREM TypeCorrect == Spec => []TypeOK
  <1>1. StateInv => TypeOK
    BY DEF StateInv
  <1> QED
    BY <1>1, StateInvariant, PTL

\* An edit that a person was told is filed waits or is in his profile, however
\* many administrators approve it at once and on whichever path, unless it was
\* dropped or an approval crossed the request that filed it
\* (approve_edited_profile, PendingEditsAdmin.approve).
THEOREM NoEditLostCorrect == Spec => []NoEditLost
  <1>1. StateInv => NoEditLost
    BY DEF StateInv
  <1> QED
    BY <1>1, StateInvariant, PTL

\* For a person whose role agrees with his flags, the role and the flags give
\* the same answer.
LEMMA RoleMeansFlags ==
  ASSUME TypeOK, NEW p \in Persons, RoleAgrees(profile[p])
  PROVE  /\ profile[p].role \in RolesOf("coach") <=> profile[p].isCoach
         /\ profile[p].role \in RolesOf("referee") <=> profile[p].isReferee
  <1>1. profile[p].isCoach \in BOOLEAN /\ profile[p].isReferee \in BOOLEAN
    BY DEF TypeOK, Rows
  <1>2. RolesOf("coach") = {"coach", "both"} /\ RolesOf("referee") = {"referee", "both"}
    BY DEF RolesOf
  <1>3. profile[p].role = RoleFor(profile[p])
    BY DEF RoleAgrees
  <1> QED
    BY <1>1, <1>2, <1>3 DEF RoleFor

\* Reports that go by the role and pages that go by the flags list and count
\* the same coaches and referees, and a coach of the reports finds his students
\* on his page, whoever edits and approves and however an approval falls into
\* the two steps of filing an edit, but for the two exceptions that
\* StaffListsAgree names.
THEOREM StaffListsCorrect == Spec => []StaffListsAgree
  <1>1. ASSUME StateInv PROVE StaffListsAgree
    <2> USE <1>1 DEF StateInv
    <2> DEFINE settled == {p \in Persons : profile[p].coach # p} \ crossed
    <2>1. ASSUME NEW p \in settled
          PROVE  /\ profile[p].role \in RolesOf("coach") <=> profile[p].isCoach
                 /\ profile[p].role \in RolesOf("referee") <=> profile[p].isReferee
      <3>1. RoleAgrees(profile[p])
        BY DEF RolesInv
      <3> QED
        BY <3>1, RoleMeansFlags
    <2>2. ASSUME NEW b \in Boards
          PROVE  /\ BoardStaff(b, "coach") \cap settled = BoardCoaches(b) \cap settled
                 /\ BoardStaff(b, "referee") \cap settled
                      = BoardReferees(b) \cap settled
      BY <2>1 DEF BoardStaff, BoardCoaches, BoardReferees
    <2>3. ASSUME NEW b \in Boards, settled = Persons
          PROVE  /\ Cardinality(BoardStaff(b, "coach")) = BoardDashboard(b).coaches
                 /\ Cardinality(BoardStaff(b, "referee")) = BoardDashboard(b).referees
      <3>1. /\ BoardStaff(b, "coach") = BoardCoaches(b)
            /\ BoardStaff(b, "referee") = BoardReferees(b)
        BY <2>1, <2>3 DEF BoardStaff, BoardCoaches, BoardReferees
      <3>2. /\ BoardDashboard(b).coaches = Cardinality(BoardCoaches(b))
            /\ BoardDashboard(b).referees = Cardinality(BoardReferees(b))
        BY DEF BoardDashboard
      <3> QED
        BY <3>1, <3>2
    <2>4. settled = Persons =>
            {p \in Persons : profile[p].role \in RolesOf("coach")}
              = {p \in Persons : profile[p].isCoach}
      BY <2>1
    <2>5. settled = Persons =>
            RoleCount("coach") = Cardinality({p \in Persons : profile[p].isCoach})
      BY <2>4 DEF RoleCount
    <2>6. ASSUME NEW c \in settled, profile[c].role \in RolesOf("coach")
          PROVE  /\ CoachStudents(c) \subseteq CoachPage(c)
                 /\ CoachDashboard(c).students = PlayersCount(c)
      <3>1. profile[c].isCoach
        BY <2>1, <2>6
      <3>2. c \notin StudentsOf(c)
        BY DEF StudentsOf
      <3>3. CoachPage(c) = StudentsOf(c) \ {c}
        BY <3>1 DEF CoachPage
      <3>4. CoachDashboard(c).students = Cardinality(StudentsOf(c))
        BY <3>1 DEF CoachDashboard
      <3> QED
        BY <3>2, <3>3, <3>4 DEF CoachStudents, PlayersCount
    <2> QED
      BY <2>2, <2>3, <2>5, <2>6 DEF StaffListsAgree
  <1> QED
    BY <1>1, StateInvariant, PTL

-----------------------------------------------------------------------------
(* Clubs *)

\* Fewer clubs of one act are clubs of one act.
LEMMA OneActFewer ==
  ASSUME NEW p \in Persons, NEW S \in SUBSET Clubs, NEW T \in SUBSET S, OneAct(p, S)
  PROVE  OneAct(p, T)
  <1>1. IsFiniteSet(S)
    BY FS_Subset, MembershipAssumption
  <1>2. /\ IsFiniteSet(T) /\ Cardinality(T) \in Nat /\ Cardinality(S) \in Nat
        /\ Cardinality(T) <= Cardinality(S)
    BY <1>1, FS_Subset, FS_CardinalityType
  <1> QED
    BY <1>2, MembershipAssumption DEF OneAct

\* No clubs come from any act, and those of one form or one pick from one.
LEMMA OneActSimple ==
  ASSUME NEW p \in Persons
  PROVE  /\ OneAct(p, {})
         /\ \A f \in Forms[p] : OneAct(p, f.clubs)
         /\ \A S \in SUBSET Clubs : Cardinality(S) <= MaxClubs => OneAct(p, S)
  BY DEF OneAct

\* A request that was accepted stays accepted.
LEMMA AcceptedStays ==
  ASSUME TypeOK, [Next]_vars, NEW p \in Persons, NEW k \in Clubs,
         request[<<p, k, "add">>] = "accepted"
  PROVE  request'[<<p, k, "add">>] = "accepted"
  <1>1. CASE request' = request
    BY <1>1
  <1>2. ASSUME NEW l \in Asking, UpdateClubCoaches(l)
        PROVE  request'[<<p, k, "add">>] = "accepted"
    BY <1>2 DEF UpdateClubCoaches, TypeOK, Kinds
  <1>3. ASSUME NEW q \in Persons, NEW l \in Clubs, NEW kind \in Kinds,
               NEW accepted \in BOOLEAN, Respond(q, l, kind, accepted)
        PROVE  request'[<<p, k, "add">>] = "accepted"
    BY <1>3 DEF Respond, TypeOK, Kinds
  <1> QED
    BY <1>1, <1>2, <1>3
    DEF Next, vars, FileEdit, FinishEdit, FinishEditFails, DropEdit, ReadEdit,
        WriteEdit, UpdateCoachClubs, SetClubs

\* What every step does to the clubs of a person who is not in mixed after it:
\* nobody adds clubs but by an answer, or they are all those of one act.
LEMMA ClubsAfter ==
  ASSUME TypeOK, ClubsInv, [Next]_vars, NEW p \in Persons, p \notin mixed'
  PROVE  \/ OneAct(p, profile'[p].coaching)
         \/ /\ p \notin mixed
            /\ \/ profile'[p].coaching \subseteq profile[p].coaching
               \/ \E k \in Clubs :
                    /\ profile'[p].coaching \subseteq profile[p].coaching \cup {k}
                    /\ request'[<<p, k, "add">>] = "accepted"
  <1> DEFINE Goal ==
        \/ OneAct(p, profile'[p].coaching)
        \/ /\ p \notin mixed
           /\ \/ profile'[p].coaching \subseteq profile[p].coaching
              \/ \E k \in Clubs :
                   /\ profile'[p].coaching \subseteq profile[p].coaching \cup {k}
                   /\ request'[<<p, k, "add">>] = "accepted"
  <1>1. ASSUME profile' = profile, mixed' = mixed PROVE Goal
    BY <1>1
  <1>2. ASSUME NEW a \in Admins, WriteEdit(a) PROVE Goal
    <2> PICK d : d = deciding[a]
      OBVIOUS
    <2>1. /\ d # None
          /\ profile' = [profile EXCEPT ![d.person] = Result(d)]
          /\ mixed' = IF d.path = "action" \/ ClubsNow(d) # {}
                        THEN mixed \ {d.person} ELSE mixed
      BY <1>2 DEF WriteEdit
    <2>2. d \in Decisions /\ d.person \in Persons
      BY <2>1 DEF TypeOK, Decisions
    <2>3. CASE d.person # p
      <3>1. profile'[p] = profile[p] /\ p \notin mixed
        BY <2>1, <2>2, <2>3 DEF TypeOK
      <3> QED
        BY <3>1
    <2>4. CASE d.person = p
      <3>1. profile'[p] = Result(d)
        BY <2>1, <2>4 DEF TypeOK
      <3>2. CASE d.path = "action"
        <4>1. profile'[p].coaching = d.row.coaching
          BY <2>2, <3>1, <3>2, ResultType
        <4>2. OneAct(p, d.row.coaching)
          BY <2>1, <2>4 DEF ClubsInv
        <4> QED
          BY <4>1, <4>2
      <3>3. CASE d.path # "action" /\ ClubsNow(d) # {}
        <4>1. profile'[p].coaching = ClubsNow(d)
          BY <2>2, <3>1, <3>3, ResultType
        <4>2. edit[p] # None /\ ClubsNow(d) = edit[p].coaching
          BY <2>4, <3>3 DEF ClubsNow, Found
        <4> QED
          BY <4>1, <4>2 DEF ClubsInv
      <3>4. CASE d.path # "action" /\ ClubsNow(d) = {}
        <4>1. profile'[p].coaching = profile[p].coaching
          BY <2>2, <2>4, <3>1, <3>4, ResultType
        <4> QED
          BY <2>1, <3>4, <4>1
      <3> QED
        BY <3>2, <3>3, <3>4
    <2> QED
      BY <2>3, <2>4
  <1>3. ASSUME NEW q \in Persons, SetClubs(q) PROVE Goal
    <2> PICK new, old : new = picking[q].new /\ old = picking[q].old
      OBVIOUS
    <2>1. /\ picking[q] # None
          /\ profile' = [profile EXCEPT ![q].coaching =
                           (@ \ (old \ new)) \cup (new \ old)]
          /\ mixed' = IF profile[q].coaching = old THEN mixed \ {q} ELSE mixed \cup {q}
      BY <1>3 DEF SetClubs
    <2>2. CASE q # p
      <3>1. profile'[p] = profile[p] /\ p \notin mixed
        BY <2>1, <2>2 DEF TypeOK
      <3> QED
        BY <3>1
    <2>3. CASE q = p
      <3>1. profile[p].coaching = old
        BY <2>1, <2>3
      <3>2. profile'[p].coaching =
              (profile[p].coaching \ (old \ new)) \cup (new \ old)
        BY <2>1, <2>3 DEF TypeOK, Rows
      <3>3. profile'[p].coaching = new
        BY <3>1, <3>2
      <3> QED
        BY <2>1, <2>3, <3>3 DEF ClubsInv
    <2> QED
      BY <2>2, <2>3
  <1>4. ASSUME NEW q \in Persons, NEW k \in Clubs, NEW kind \in Kinds,
               NEW accepted \in BOOLEAN, Respond(q, k, kind, accepted)
        PROVE  Goal
    <2>1. p \notin mixed
      BY <1>4 DEF Respond, history
    <2>2. CASE q # p
      <3>1. profile'[p] = profile[p]
        BY <1>4, <2>2 DEF Respond, TypeOK
      <3> QED
        BY <2>1, <3>1
    <2>3. CASE q = p
      <3>1. profile'[p].coaching =
              IF ~accepted THEN profile[p].coaching
              ELSE IF kind = "add" THEN profile[p].coaching \cup {k}
              ELSE profile[p].coaching \ {k}
        BY <1>4, <2>3 DEF Respond, TypeOK, Rows
      <3>2. accepted /\ kind = "add" => request'[<<p, k, "add">>] = "accepted"
        BY <1>4, <2>3 DEF Respond, TypeOK
      <3> QED
        BY <2>1, <3>1, <3>2
    <2> QED
      BY <2>2, <2>3
  <1> HIDE DEF Goal
  <1>5. ASSUME UNCHANGED vars PROVE Goal
    BY <1>1, <1>5 DEF vars, history
  <1>6. ASSUME NEW q \in Persons, \/ FileEdit(q) \/ FinishEdit(q) \/ FinishEditFails(q)
                                  \/ DropEdit(q) \/ UpdateCoachClubs(q)
        PROVE  Goal
    <2>1. profile' = profile /\ mixed' = mixed
      BY <1>6 DEF FileEdit, FinishEdit, FinishEditFails, DropEdit, UpdateCoachClubs,
                  history
    <2> QED
      BY <1>1, <2>1
  <1>7. ASSUME NEW a \in Admins, NEW q \in Persons, NEW path \in {"view", "action"},
               ReadEdit(a, q, path)
        PROVE  Goal
    BY <1>1, <1>7 DEF ReadEdit, history
  <1>8. ASSUME NEW k \in Asking, UpdateClubCoaches(k) PROVE Goal
    BY <1>1, <1>8 DEF UpdateClubCoaches, history
  <1>9. Goal
    BY <1>2, <1>3, <1>4, <1>5, <1>6, <1>7, <1>8 DEF Next
  <1> QED
    BY <1>9 DEF Goal

\* What edits, approvals and picks under way name comes from one act.
LEMMA ClubsInvStep ==
  ASSUME TypeOK, ClubsInv, [Next]_vars
  PROVE  ClubsInv'
  <1>1. CASE UNCHANGED <<edit, filing, deciding, picking>>
    BY <1>1 DEF ClubsInv
  <1>2. ASSUME NEW p \in Persons, FileEdit(p) PROVE ClubsInv'
    <2> PICK f \in Forms[p] :
           /\ edit' = [edit EXCEPT ![p] = Written(p, f)]
           /\ filing' = [filing EXCEPT ![p] = [form |-> f, row |-> Written(p, f)]]
           /\ deciding' = Disturb(p)
           /\ picking' = picking
      BY <1>2 DEF FileEdit
    <2>1. OneAct(p, Written(p, f).coaching)
      BY WrittenType, OneActSimple DEF ClubsInv
    <2>2. PICK row : row = Written(p, f)
      OBVIOUS
    <2>3. \A q \in Persons :
            /\ edit'[q] # None => OneAct(q, edit'[q].coaching)
            /\ filing'[q] # None => OneAct(q, filing'[q].row.coaching)
            /\ picking'[q] # None => OneAct(q, picking'[q].new)
      BY <2>1, <2>2 DEF ClubsInv, TypeOK
    <2>4. ASSUME NEW a \in Admins, deciding'[a] # None
          PROVE  OneAct(deciding'[a].person, deciding'[a].row.coaching)
      <3>1. deciding[a] # None /\ deciding[a] \in Decisions
        BY <2>4 DEF Disturb, TypeOK
      <3>2. /\ deciding'[a].person = deciding[a].person
            /\ deciding'[a].row = deciding[a].row
        BY <2>4, <3>1 DEF Disturb, Decisions
      <3> QED
        BY <3>1, <3>2 DEF ClubsInv
    <2> QED
      BY <2>3, <2>4 DEF ClubsInv
  <1>3. ASSUME NEW p \in Persons, FinishEdit(p) PROVE ClubsInv'
    <2> PICK row \in Rows : /\ row.coaching = filing[p].form.clubs
                            /\ edit' = [edit EXCEPT ![p] = row]
      BY <1>3, FinishEditRow
    <2>1. /\ filing[p] # None
          /\ filing' = [filing EXCEPT ![p] = None]
          /\ UNCHANGED <<deciding, picking>>
      BY <1>3 DEF FinishEdit
    <2>2. OneAct(p, row.coaching)
      BY <2>1, OneActSimple DEF TypeOK
    <2> QED
      BY <2>1, <2>2 DEF ClubsInv, TypeOK
  <1>4. ASSUME NEW p \in Persons, FinishEditFails(p) \/ DropEdit(p) \/ SetClubs(p)
        PROVE  ClubsInv'
    BY <1>4 DEF FinishEditFails, DropEdit, SetClubs, ClubsInv, TypeOK
  <1>5. ASSUME NEW p \in Persons, UpdateCoachClubs(p) PROVE ClubsInv'
    <2> PICK S \in SUBSET Clubs :
           /\ Cardinality(S) <= MaxClubs
           /\ picking' = [picking EXCEPT ![p] = [new |-> S, old |-> profile[p].coaching]]
           /\ UNCHANGED <<edit, filing, deciding>>
      BY <1>5 DEF UpdateCoachClubs
    <2>1. OneAct(p, S)
      BY OneActSimple
    <2> QED
      BY <2>1 DEF ClubsInv, TypeOK
  <1>6. ASSUME NEW a \in Admins, NEW p \in Persons, NEW path \in {"view", "action"},
               ReadEdit(a, p, path)
        PROVE  ClubsInv'
    <2> DEFINE d == [person |-> p, path |-> path, row |-> edit[p],
                     was |-> [c \in {"coach", "club", "board"} |-> profile[p][c]],
                     same |-> TRUE, clean |-> filing[p] = None]
    <2>1. /\ d.person = p /\ d.row = edit[p]
          /\ deciding' = [deciding EXCEPT ![a] = d]
      BY <1>6 DEF ReadEdit
    <2> HIDE DEF d
    <2>2. edit[p] # None /\ UNCHANGED <<edit, filing, picking>>
      BY <1>6 DEF ReadEdit
    <2> QED
      BY <2>1, <2>2 DEF ClubsInv, TypeOK
  <1>7. ASSUME NEW a \in Admins, WriteEdit(a) PROVE ClubsInv'
    <2>1. PICK p : edit' = edit \/ edit' = [edit EXCEPT ![p] = None]
      BY <1>7 DEF WriteEdit
    <2>2. deciding' = [deciding EXCEPT ![a] = None] /\ UNCHANGED <<filing, picking>>
      BY <1>7 DEF WriteEdit
    <2> QED
      BY <2>1, <2>2 DEF ClubsInv, TypeOK
  <1> QED
    BY <1>1, <1>2, <1>3, <1>4, <1>5, <1>6, <1>7
    DEF Next, vars, Respond, UpdateClubCoaches

\* The invariant of the clubs through a step.
LEMMA ClubsStep ==
  ASSUME TypeOK, TypeOK', ClubsInv, ClubsFromOneAct, [Next]_vars
  PROVE  ClubsFromOneAct'
  <1> SUFFICES ASSUME NEW p \in Persons, p \notin mixed'
               PROVE  OneAct(p, Unasked(p)')
    BY DEF ClubsFromOneAct, OneAct
  <1> DEFINE old == profile[p].coaching
             new == profile'[p].coaching
  <1>1. old \in SUBSET Clubs /\ new \in SUBSET Clubs
    BY DEF TypeOK, Rows
  <1>2. Unasked(p)' \in SUBSET new /\ Unasked(p) \in SUBSET old
    BY DEF Unasked
  <1>3. \A k \in Clubs : request[<<p, k, "add">>] = "accepted"
                           => request'[<<p, k, "add">>] = "accepted"
    BY AcceptedStays
  <1>4. CASE OneAct(p, new)
    BY <1>1, <1>2, <1>4, OneActFewer
  <1>5. CASE /\ p \notin mixed
             /\ \/ new \subseteq old
                \/ \E k \in Clubs : /\ new \subseteq old \cup {k}
                                    /\ request'[<<p, k, "add">>] = "accepted"
    <2>1. Unasked(p)' \in SUBSET Unasked(p)
      BY <1>1, <1>3, <1>5 DEF Unasked
    <2>2. OneAct(p, Unasked(p))
      BY <1>5 DEF ClubsFromOneAct
    <2>3. Unasked(p) \in SUBSET Clubs
      BY <1>1, <1>2
    <2> QED
      BY <2>1, <2>2, <2>3, OneActFewer
  <1> QED
    BY <1>4, <1>5, ClubsAfter

\* Clubs beyond the limit are clubs whose request the coach accepted, or were
\* named together in one edit: picks, edits, approvals, requests and answers,
\* in whatever order, pile up no others, unless a pick met a change of clubs it
\* had not read (UpdateCoachClubsAPIView, RespondToCoachRequestView).
THEOREM ClubsFromOneActCorrect == Spec => []ClubsFromOneAct
  <1> DEFINE Inv == ClubsInv /\ ClubsFromOneAct
  <1>1. Init => Inv
    <2> SUFFICES ASSUME Init PROVE Inv
      OBVIOUS
    <2>1. ClubsInv
      BY DEF Init, ClubsInv
    <2>2. \A p \in Persons : Unasked(p) \subseteq First[p].coaching
      BY DEF Init, Unasked
    <2> QED
      BY <2>1, <2>2 DEF ClubsFromOneAct, OneAct
  <1>2. TypeOK /\ TypeOK' /\ Inv /\ [Next]_vars => Inv'
    BY ClubsInvStep, ClubsStep
  <1> QED
    BY <1>1, <1>2, TypeCorrect, PTL DEF Spec

=============================================================================
