------------------------------- MODULE Signup -------------------------------
(***************************************************************************)
(* Applications for an account and their approval or refusal:              *)
(* registration of players, coaches and clubs in accounts/views.py, the    *)
(* uniqueness checks of accounts/serializers.py, and the approve and       *)
(* reject handlers of accounts/admin.py.                                   *)
(*                                                                         *)
(* A worker is a server thread serving one request at a time.  Outside     *)
(* transaction.atomic() every statement commits by itself (the settings    *)
(* have no ATOMIC_REQUESTS), so a handler is one step per statement on the *)
(* tables other handlers use; a transaction is one step.                   *)
(*                                                                         *)
(* Players, coaches and referees are one kind, "person": their tables and  *)
(* checks are the same.  federation_id is checked wherever license_number  *)
(* is and in the same way; "licence" stands for both.                      *)
(***************************************************************************)
EXTENDS Naturals, Sequences, FiniteSets

CONSTANTS
  Apps,      \* applications (rows of PendingUserProfile or PendingClub)
  Workers,   \* server threads
  Kinds,     \* subset of {"person", "club"}
  Phones,    \* phone of a person, founder_phone of a club
  Codes,     \* national_code of a person, founder_national_code of a club
  Names,     \* club name and city together
  Licences,
  None

\* What is filled in on an application; a person has no club name and no
\* licence.
Forms ==
  [kind: Kinds \cap {"person"}, phone: Phones, code: Codes, name: {None},
   licence: {None}]
    \cup [kind: Kinds \cap {"club"}, phone: Phones, code: Codes, name: Names,
           licence: Licences]

ASSUME SignupAssumption ==
  /\ Kinds \subseteq {"person", "club"}
  /\ None \notin Apps \cup Codes \cup Forms

VARIABLES
  data,       \* what was filled in on each application
  pending,    \* applications with a row in the pending table
  approved,   \* applications with a UserProfile or TkdClub row
  removed,    \* approved accounts deleted by an administrator
  password,   \* auth User per phone: None if there is none
  confirmed,  \* applicants told "registered, awaiting approval"
  told,       \* applicants whose credentials were sent by SMS
  refused,    \* applications an administrator saw refused
  reported,   \* applications an administrator saw approved
  req,        \* what each worker is doing
  met         \* history: {a, b} when a and b were in hand at one time, {a}
              \* when two workers had a in hand

tables == <<pending, approved, removed, password>>
replies == <<confirmed, told, refused, reported>>
vars == <<data, tables, replies, req, met>>

-----------------------------------------------------------------------------
(* Types *)

Points == {"idle", "check", "insert", "finish", "admit", "refuse"}

Requests == [at: Points, app: Apps \cup {None}, check: Nat]

Serving(point, a) == [at |-> point, app |-> a, check |-> 1]

Idle == Serving("idle", None)

TypeOK ==
  /\ data \in [Apps -> Forms \cup {None}]
  /\ pending \subseteq Apps
  /\ approved \subseteq Apps
  /\ removed \subseteq Apps
  /\ password \in [Phones -> Codes \cup {None}]
  /\ confirmed \subseteq Apps
  /\ told \subseteq Apps
  /\ refused \subseteq Apps
  /\ reported \subseteq Apps
  /\ req \in [Workers -> Requests]
  /\ met \subseteq SUBSET Apps

Init ==
  /\ data = [a \in Apps |-> None]
  /\ pending = {} /\ approved = {} /\ removed = {}
  /\ password = [p \in Phones |-> None]
  /\ confirmed = {} /\ told = {} /\ refused = {} /\ reported = {}
  /\ req = [w \in Workers |-> Idle]
  /\ met = {}

\* Worker w takes the applications of S in hand: they meet the ones the
\* other workers have in hand.
Meeting(w, S) ==
  {{a, req[v].app} : a \in S, v \in {u \in Workers \ {w} : req[u].at # "idle"}}

-----------------------------------------------------------------------------
(* The tables' constraints *)

Same(a, b, field) ==
  data[a].kind = data[b].kind /\ data[a][field] = data[b][field]

\* Unique columns of PendingUserProfile, unique (club_name, city) of
\* PendingClub.
PendingClash(a, b) ==
  IF data[a].kind = "person"
    THEN Same(a, b, "phone") \/ Same(a, b, "code")
    ELSE Same(a, b, "name")

\* The same of UserProfile and TkdClub, and their OneToOne user, which is
\* found by the phone.
AccountClash(a, b) == Same(a, b, "phone") \/ PendingClash(a, b)

\* The rows of S can be inserted in UserProfile and TkdClub one after the
\* other; a row that has its account already cannot.
Admissible(S) ==
  /\ S \cap approved = {}
  /\ \A a \in S, b \in approved \cup S : a # b => ~AccountClash(a, b)

-----------------------------------------------------------------------------
(* Registration: RegisterPlayerAPIView, RegisterCoachAPIView,              *)
(* RegisterPendingClubAPIView                                              *)

Check(table, field) == [table |-> table, field |-> field]

\* Mutant: a person's national code is looked up among the pending only.
ChecksPendingOnly(kind) ==
  IF kind = "person"
    THEN <<Check("pending", "code"), Check("pending", "phone")>>
    ELSE <<Check("approved", "licence"), Check("pending", "licence"),
           Check("approved", "name"), Check("pending", "name"),
           Check("approved", "licence"), Check("pending", "licence")>>

\* The lookups a form has to pass, in order: validate_national_code and
\* validate_phone for a person; for a club the guards of the view and then
\* PendingClubSerializer.validate.
Checks(kind) ==
  IF kind = "person"
    THEN <<Check("pending", "code"), Check("approved", "code"),
           Check("pending", "phone"), Check("approved", "phone")>>
    ELSE <<Check("approved", "licence"), Check("pending", "licence"),
           Check("approved", "name"), Check("pending", "name"),
           Check("approved", "licence"), Check("pending", "licence")>>

Rows(table) == IF table = "pending" THEN pending ELSE approved

\* A form arrives.
Register(w, a, form) ==
  /\ req[w] = Idle
  /\ data[a] = None
  /\ data' = [data EXCEPT ![a] = form]
  /\ req' = [req EXCEPT ![w] = Serving("check", a)]
  /\ met' = met \cup Meeting(w, {a})
  /\ UNCHANGED <<tables, replies>>

\* One exists() query of the list finds a row.
Hit(w) ==
  LET check == Checks(data[req[w].app].kind)[req[w].check]
  IN  \E b \in Rows(check.table) : Same(req[w].app, b, check.field)

LastCheck(w) == req[w].check = Len(Checks(data[req[w].app].kind))

\* A hit answers 400; the last check that passes leads to the INSERT.
RunCheck(w) ==
  /\ req[w].at = "check"
  /\ \/ Hit(w) /\ req' = [req EXCEPT ![w] = Idle]
     \/ /\ ~Hit(w) /\ ~LastCheck(w)
        /\ req' = [req EXCEPT ![w].check = req[w].check + 1]
     \/ /\ ~Hit(w) /\ LastCheck(w)
        /\ req' = [req EXCEPT ![w] = Serving("insert", req[w].app)]
  /\ UNCHANGED <<data, tables, replies, met>>

\* serializer.save(): the database refuses a duplicate (answer 500).
InsertPending(w) ==
  LET a == req[w].app IN
  /\ req[w].at = "insert"
  /\ IF \E b \in pending : PendingClash(a, b)
       THEN req' = [req EXCEPT ![w] = Idle] /\ UNCHANGED pending
       ELSE /\ req' = [req EXCEPT ![w] = Serving("finish", a)]
            /\ pending' = pending \cup {a}
  /\ UNCHANGED <<data, approved, removed, password, replies, met>>

\* Names of the board, clubs and coach are filled in, and instance.save():
\* an UPDATE, or an INSERT if the row has gone.  That INSERT fails (answer
\* 500) on a duplicate.
FinishPending(w) ==
  LET a == req[w].app IN
  /\ req[w].at = "finish"
  /\ IF \E b \in pending \ {a} : PendingClash(a, b)
       THEN UNCHANGED <<pending, confirmed>>
       ELSE /\ pending' = pending \cup {a}
            /\ confirmed' = confirmed \cup {a}
  /\ req' = [req EXCEPT ![w] = Idle]
  /\ UNCHANGED <<data, approved, removed, password, told, refused, reported,
                 met>>

\* Setting the clubs or the coach of a coach's form fails (a club or coach
\* deleted meanwhile): an error answer, but the row stays.
FinishFails(w) ==
  /\ req[w].at = "finish"
  /\ data[req[w].app].kind = "person"
  /\ req' = [req EXCEPT ![w] = Idle]
  /\ UNCHANGED <<data, tables, replies, met>>

-----------------------------------------------------------------------------
(* Approval in the admin: the approve actions of PendingCoachAdmin,        *)
(* PendingRefereeAdmin, PendingPlayerAdmin and PendingClubAdmin            *)

\* Mutant: the password is taken from the phone column.
UsersForPhone(batch) ==
  [p \in Phones |->
     IF password[p] # None \/ ~\E a \in batch : data[a].phone = p
       THEN password[p]
       ELSE p]

\* get_or_create_auth_user_by_phone: an existing password is kept.
UsersFor(batch) ==
  [p \in Phones |->
     IF password[p] # None \/ ~\E a \in batch : data[a].phone = p
       THEN password[p]
       ELSE (CHOOSE f \in {data[a] : a \in batch} : f.phone = p).code]

\* One transaction over the selected rows, which it locks: user, account,
\* SMS with the credentials, and the pending row deleted, for each.
AdminApprove(w, batch) ==
  /\ req[w] = Idle
  /\ batch # {} /\ batch \subseteq pending
  /\ Cardinality({data[a].kind : a \in batch}) = 1
  /\ Admissible(batch)
  /\ password' = UsersFor(batch)
  /\ approved' = approved \cup batch
  /\ pending' = pending \ batch
  /\ told' = told \cup batch
  /\ reported' = reported \cup batch
  /\ met' = met \cup Meeting(w, batch)
  /\ UNCHANGED <<data, removed, confirmed, refused, req>>

\* Mutant: the rows that clash are dropped from the pending table.
AdminApproveFailsDropping(w, batch, done) ==
  /\ req[w] = Idle
  /\ batch \subseteq pending /\ done \subseteq batch
  /\ Cardinality({data[a].kind : a \in batch}) = 1
  /\ Admissible(done)
  /\ \E a \in batch \ done : ~Admissible(done \cup {a})
  /\ told' = told \cup done
  /\ pending' = pending \ batch
  /\ UNCHANGED <<data, approved, removed, password, confirmed, refused,
                 reported, req, met>>

\* Mutant: the person batch reports the rows done before the clash.
AdminApproveFailsReporting(w, batch, done) ==
  /\ req[w] = Idle
  /\ batch \subseteq pending /\ done \subseteq batch
  /\ Cardinality({data[a].kind : a \in batch}) = 1
  /\ Admissible(done)
  /\ \E a \in batch \ done : ~Admissible(done \cup {a})
  /\ told' = told \cup done
  /\ reported' = reported \cup done
  /\ UNCHANGED <<data, tables, confirmed, refused, req, met>>

\* The same when a row clashes: done are the rows handled before it.  The
\* database error marks the transaction, so all of it is rolled back, but
\* the SMS are out.  For persons the error ends the handler; for clubs it is
\* caught and the rows done before are reported as approved.
AdminApproveFails(w, batch, done) ==
  /\ req[w] = Idle
  /\ batch \subseteq pending /\ done \subseteq batch
  /\ Cardinality({data[a].kind : a \in batch}) = 1
  /\ Admissible(done)
  /\ \E a \in batch \ done : ~Admissible(done \cup {a})
  /\ told' = told \cup done
  /\ reported' = reported \cup {a \in done : data[a].kind = "club"}
  /\ UNCHANGED <<data, tables, confirmed, refused, req, met>>

-----------------------------------------------------------------------------
(* Approval in the staff views: approve_pending_user, approve_pending_club *)

\* The pending row is read, without a lock, and one duplicate check is made.
StaffRead(w, a) ==
  /\ req[w] = Idle
  /\ a \in pending
  /\ \A b \in approved :
       ~Same(a, b, IF data[a].kind = "person" THEN "code" ELSE "name")
  /\ req' = [req EXCEPT ![w] = Serving("admit", a)]
  /\ met' = met \cup Meeting(w, {a})
  /\ UNCHANGED <<data, tables, replies>>

\* The transaction that makes user and account from what was read and
\* deletes the pending row, if it is still there.  A person's password is
\* reset even if the user exists; a club's is not.  No SMS is sent.
StaffAdmit(w) ==
  LET a == req[w].app IN
  /\ req[w].at = "admit"
  /\ IF Admissible({a})
       THEN /\ password' = IF data[a].kind = "person"
                             THEN [password EXCEPT ![data[a].phone] = data[a].code]
                             ELSE UsersFor({a})
            /\ approved' = approved \cup {a}
            /\ pending' = pending \ {a}
            /\ reported' = reported \cup {a}
       ELSE UNCHANGED <<password, approved, pending, reported>>
  /\ req' = [req EXCEPT ![w] = Idle]
  /\ UNCHANGED <<data, removed, confirmed, told, refused, met>>

-----------------------------------------------------------------------------
(* Refusal: PendingRejectWithSmsMixin; deletion: SafeDeleteAdminMixin      *)

\* The row is read and the refusal is sent by SMS, which may take seconds.
RefuseRead(w, a) ==
  /\ req[w] = Idle
  /\ a \in pending
  /\ req' = [req EXCEPT ![w] = Serving("refuse", a)]
  /\ met' = met \cup Meeting(w, {a})
  /\ UNCHANGED <<data, tables, replies>>

\* Mutant: the row is not deleted.
RefuseKeeps(w) ==
  LET a == req[w].app IN
  /\ req[w].at = "refuse"
  /\ refused' = refused \cup {a}
  /\ req' = [req EXCEPT ![w] = Idle]
  /\ UNCHANGED <<data, tables, confirmed, told, reported, met>>

\* obj.delete(), and "refused" is reported; a row that has gone is no error.
Refuse(w) ==
  LET a == req[w].app IN
  /\ req[w].at = "refuse"
  /\ pending' = pending \ {a}
  /\ refused' = refused \cup {a}
  /\ req' = [req EXCEPT ![w] = Idle]
  /\ UNCHANGED <<data, approved, removed, password, confirmed, told, reported,
                 met>>

\* An account is deleted; its auth User stays.
DeleteAccount(w, a) ==
  /\ req[w] = Idle
  /\ a \in approved
  /\ approved' = approved \ {a}
  /\ removed' = removed \cup {a}
  /\ UNCHANGED <<data, pending, password, replies, req, met>>

-----------------------------------------------------------------------------
Next ==
  \E w \in Workers :
    \/ \E a \in Apps, form \in Forms : Register(w, a, form)
    \/ RunCheck(w)
    \/ InsertPending(w)
    \/ FinishPending(w)
    \/ FinishFails(w)
    \/ \E batch \in SUBSET Apps : AdminApprove(w, batch)
    \/ \E batch \in SUBSET Apps, done \in SUBSET Apps :
         AdminApproveFails(w, batch, done)
    \/ \E a \in Apps : StaffRead(w, a)
    \/ StaffAdmit(w)
    \/ \E a \in Apps : RefuseRead(w, a)
    \/ Refuse(w)
    \/ \E a \in Apps : DeleteAccount(w, a)

Spec == Init /\ [][Next]_vars

-----------------------------------------------------------------------------
(* Properties *)

\* The columns the checks are there to keep unique.
Keys(kind) == IF kind = "person" THEN {"phone", "code"} ELSE {"name", "licence"}

\* Two applications that are pending or approved share a phone, a national
\* code, a club's name and city, or a licence only if they were once in hand
\* at the same time: the lookups of the serializers, which are separate
\* queries on tables without a constraint across them, let nothing through
\* that a request did not overtake.  (Two clubs may still get one licence:
\* both forms pass the lookups before either is filed, and approval does not
\* look again.)
SharedKeysMet ==
  \A a, b \in pending \cup approved :
    a # b /\ (\E k \in Keys(data[a].kind) : Same(a, b, k)) => {a, b} \in met

\* Whoever was told "registered, awaiting approval" is still pending, or was
\* approved or refused: no batch that fails, and no request that overtakes
\* another, drops an application.
NothingLost == confirmed \subseteq pending \cup approved \cup removed \cup refused

\* An application that an administrator saw refused gets an account, or is
\* back in the queue, only if two requests had it in hand at one time: an
\* approval that read the row before the refusal deleted it, a refusal that
\* read it before the approval, or a registration that writes it back.
RefusalOvertaken ==
  \A a \in refused \cap (pending \cup approved \cup removed) : {a} \in met

\* A person an administrator saw approved has an account (until it is
\* deleted), whatever else fails in the batch.  Not so for clubs, whose
\* handler catches the error that rolls the whole batch back.
ReportTrue ==
  \A a \in reported : data[a].kind = "person" => a \in approved \cup removed

\* The credentials sent by SMS open the account.  Does not hold: an existing
\* auth User of the phone keeps its password.
CredentialsWork ==
  \A a \in told \cap approved : password[data[a].phone] = data[a].code

=============================================================================
