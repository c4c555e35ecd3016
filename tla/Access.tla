------------------------------- MODULE Access -------------------------------
(***************************************************************************)
(* Codes sent by SMS, at sign-up and for forgotten passwords, and logging  *)
(* in (accounts/views.py, accounts/utils/sms_utils.py).                    *)
(*                                                                         *)
(* A request for a code looks at the table and draws the code in one step  *)
(* and writes it in another, so two of them can pass the rate limit; the   *)
(* message may be lost.  A request that checks a code deletes what has     *)
(* expired, looks the code up, and deletes what it found, in three steps.  *)
(* Accounts do not change here except for their passwords.                 *)
(***************************************************************************)
EXTENDS Naturals

CONSTANTS
  Phones,
  Codes,
  Workers,   \* processes that serve the requests
  Users,     \* auth users
  Accounts,  \* bound: the accounts a user may have
  Waiting,   \* phones of sign-ups that wait for approval, per kind
  Minutes,   \* minutes a code lives: 3 in the code
  MaxTypos,  \* bound: wrong codes and wrong pages
  None

Kinds == {"person", "club"}
Digits == {"latin", "persian"}

ASSUME AccessAssumption ==
  /\ None \notin Phones /\ None \notin Codes /\ None \notin Users /\ None \notin Workers
  /\ Accounts \subseteq
       [username : Phones \cup {"other"}, phone : Phones \cup {None},
        role : {"player", "coach", "referee", "both", None},
        club : Phones \cup {None}, board : BOOLEAN, digits : Digits]
  /\ \A a \in Accounts : a.phone # None <=> a.role # None
  /\ Waiting \in [Kinds -> SUBSET Phones]
  /\ Minutes \in Nat /\ MaxTypos \in Nat

VARIABLES
  table,     \* the rows of SMSVerification; the age of a row in minutes
             \* stands for created_at, and by is the worker that wrote it
  job,       \* what a worker is doing, or None
  inbox,     \* the last code a phone received and its owner did not use
  typos,     \* wrong entries so far
  done,      \* phones whose owner got what he asked the code for
  account,   \* of a user: username, phone and role of his profile, phone of
             \* his club, whether he runs a board, and the digits his
             \* national code is written with
  password,  \* of each user: what it is made of and in which digits
  answer     \* the last answer of a reset: user, password and role

vars == <<table, job, inbox, typos, done, account, password, answer>>

Init ==
  /\ table = {}
  /\ job = [w \in Workers |-> None]
  /\ inbox = [ph \in Phones |-> None]
  /\ typos = 0
  /\ done = {}
  /\ account \in [Users -> Accounts]
  /\ password = [u \in Users |-> <<"own", "latin">>]
  /\ answer = None

Roles == {"player", "coach", "referee", "both", "club", "heyat"}

Passwords == {"own", "profile", "club", "temp"} \X Digits

Rows == [phone : Phones, code : Codes, age : 0..Minutes + 1, by : Workers]

\* A worker is to write a code ("send"), or to look one up that was entered on
\* a page ("look"); it then found nothing ("wrong"), or found the row that the
\* worker in by wrote, in time ("found") or not ("late").
Jobs == [at : {"send", "look", "wrong", "found", "late"}, page : {"signup", "reset"},
         phone : Phones, code : Codes, by : Workers \cup {None}]

TypeOK ==
  /\ table \subseteq Rows
  /\ job \in [Workers -> Jobs \cup {None}]
  /\ inbox \in [Phones -> Codes \cup {None}]
  /\ typos \in 0..MaxTypos
  /\ done \subseteq Phones
  /\ account \in [Users -> Accounts]
  /\ password \in [Users -> Passwords]
  /\ answer \in [user : Users, password : Passwords, role : Roles] \cup {None}

-----------------------------------------------------------------------------
(* Who is known *)

\* The mutant of the next definition looks at the usernames only.
UserOfName(ph) ==
  LET found == {u \in Users : account[u].username = ph}
  IN  IF found = {} THEN None ELSE CHOOSE u \in found : TRUE

\* The user behind a phone: by username, else by profile, else by club.
UserOf(ph) ==
  LET by(Test(_)) == {u \in Users : Test(u)}
      name == by(LAMBDA u : account[u].username = ph)
      person == by(LAMBDA u : account[u].phone = ph)
      club == by(LAMBDA u : account[u].club = ph)
      found == IF name # {} THEN name ELSE IF person # {} THEN person ELSE club
  IN  IF found = {} THEN None ELSE CHOOSE u \in found : TRUE

\* A sign-up is refused a code when its phone is in use for the same kind.
Taken(ph, kind) ==
  \/ ph \in Waiting[kind]
  \/ \E u \in Users :
       IF kind = "person" THEN account[u].phone = ph ELSE account[u].club = ph

-----------------------------------------------------------------------------
(* Sending codes *)

At(w, point) == job[w] # None /\ job[w].at = point

Job(point, page, ph, c) ==
  [at |-> point, page |-> page, phone |-> ph, code |-> c, by |-> None]

\* cleanup_expired_sms, with which every request begins.
Clean(rows) == {row \in rows : ~(row.age > Minutes)}

\* The mutant of the next definition lets the limit end a minute early.
LimitedBefore(ph) ==
  \E row \in Clean(table) : row.phone = ph /\ row.age < Minutes

\* The rate limit: a phone with a code of the last three minutes gets no other.
Limited(ph) ==
  \E row \in Clean(table) : row.phone = ph /\ row.age <= Minutes

\* A code that no row of the last three minutes has.  (Twenty draws that all
\* hit such codes while others are free are ignored; the code then takes any.)
Drawable ==
  LET recent == {row.code : row \in {r \in Clean(table) : r.age <= Minutes}}
  IN  IF Codes \subseteq recent THEN Codes ELSE Codes \ recent

\* The common part of the two views that send codes.
Draw(w, page, ph) ==
  /\ job[w] = None
  /\ ~Limited(ph)
  /\ \E c \in Drawable : job' = [job EXCEPT ![w] = Job("send", page, ph, c)]
  /\ table' = Clean(table)
  /\ UNCHANGED <<inbox, typos, done, account, password, answer>>

\* A request that is refused, whatever for, has cleaned up.
Refused ==
  /\ table' = Clean(table)
  /\ UNCHANGED <<job, inbox, typos, done, account, password, answer>>

SendCode(w, ph) ==
  /\ \E kind \in Kinds : ~Taken(ph, kind)
  /\ Draw(w, "signup", ph)

ForgotPasswordSendCode(w, ph) ==
  /\ UserOf(ph) # None
  /\ Draw(w, "reset", ph)

\* The row is written whether the message arrives or not.  It is another row
\* than one of this phone that the worker wrote before and that a check still
\* has in hand, if there is one.
Write(w, arrives) ==
  LET ph == job[w].phone
      c == job[w].code
      Another(v) == job[v] # None /\ job[v].by = w /\ job[v].phone = ph
  IN
  /\ At(w, "send")
  /\ table' = table \cup {[phone |-> ph, code |-> c, age |-> 0, by |-> w]}
  /\ inbox' = IF arrives THEN [inbox EXCEPT ![ph] = c] ELSE inbox
  /\ job' = [v \in Workers |-> IF v = w THEN None
                               ELSE IF Another(v) THEN [job[v] EXCEPT !.by = None]
                               ELSE job[v]]
  /\ UNCHANGED <<typos, done, account, password, answer>>

\* A minute passes.  How old a row is does not matter once it has expired.
Tick ==
  /\ \E row \in table : row.age <= Minutes
  /\ table' = {[row EXCEPT !.age = IF @ <= Minutes THEN @ + 1 ELSE @] : row \in table}
  /\ UNCHANGED <<job, inbox, typos, done, account, password, answer>>

-----------------------------------------------------------------------------
(* Checking codes *)

\* What the owner enters: the code he received, on the page he asked for it,
\* or something wrong.  A phone that is taken cannot sign up, and one that
\* nobody has cannot be reset.
Enter(w, page, ph, c) ==
  /\ job[w] = None
  /\ \/ /\ c = inbox[ph]
        /\ IF page = "reset" THEN UserOf(ph) # None
           ELSE \E kind \in Kinds : ~Taken(ph, kind)
        /\ UNCHANGED typos
     \/ typos < MaxTypos /\ typos' = typos + 1
  /\ table' = Clean(table)
  /\ job' = [job EXCEPT ![w] = Job("look", page, ph, c)]
  /\ UNCHANGED <<inbox, done, account, password, answer>>

VerifyCode(w, ph, c) == Enter(w, "signup", ph, c)

ForgotPasswordVerify(w, ph, c) == Enter(w, "reset", ph, c)

\* The rows get() is about.
Matching(ph, c) == {row \in table : row.phone = ph /\ row.code = c}

\* The check's own comparison.
Expired(row) == row.age > Minutes

\* A code that is there twice is an error, which ends the request.
Lookup(w) ==
  LET ph == job[w].phone
      c == job[w].code
  IN
  /\ At(w, "look")
  /\ \/ /\ Matching(ph, c) = {}
        /\ job' = [job EXCEPT ![w].at = "wrong"]
     \/ \E row \in table :
          /\ Matching(ph, c) = {row}
          /\ job' = [job EXCEPT ![w].at = IF Expired(row) THEN "late" ELSE "found",
                                ![w].by = row.by]
     \/ /\ \E row, other \in Matching(ph, c) : row # other
        /\ job' = [job EXCEPT ![w] = None]
  /\ UNCHANGED <<table, inbox, typos, done, account, password, answer>>

\* The end of a check: the owner no longer tries a code that was answered.
Answered(w) ==
  /\ job' = [job EXCEPT ![w] = None]
  /\ inbox' = [inbox EXCEPT ![job[w].phone] = IF @ = job[w].code THEN None ELSE @]

\* The row in hand, if nobody deleted it in the meantime.
InHand(w) ==
  {row \in table : /\ row.phone = job[w].phone /\ row.code = job[w].code
                   /\ row.by = job[w].by}

\* A wrong code deletes all codes of the phone.
RejectWrong(w) ==
  /\ At(w, "wrong")
  /\ table' = {row \in table : row.phone # job[w].phone}
  /\ Answered(w)
  /\ UNCHANGED <<typos, done, account, password, answer>>

RejectLate(w) ==
  /\ At(w, "late")
  /\ table' = table \ InHand(w)
  /\ Answered(w)
  /\ UNCHANGED <<typos, done, account, password, answer>>

\* The check of a sign-up asks nothing about the phone.
AcceptSignup(w) ==
  /\ At(w, "found") /\ job[w].page = "signup"
  /\ table' = table \ InHand(w)
  /\ Answered(w)
  /\ done' = done \cup {ph \in {job[w].phone} : \E kind \in Kinds : ~Taken(ph, kind)}
  /\ UNCHANGED <<typos, account, password, answer>>

-----------------------------------------------------------------------------
(* Forgotten passwords and logging in *)

\* _normalize_digits
Normalized(pw) == <<pw[1], "latin">>

\* The mutant of the next definition sets the national code as it is written.
NewPasswordRaw(u) ==
  IF account[u].phone # None THEN <<"profile", account[u].digits>>
  ELSE IF account[u].club # None THEN <<"club", account[u].digits>>
  ELSE <<"temp", "latin">>

\* The national code of the profile, else of the founder, else a fixed word.
NewPassword(u) ==
  IF account[u].phone # None THEN Normalized(<<"profile", account[u].digits>>)
  ELSE IF account[u].club # None THEN Normalized(<<"club", account[u].digits>>)
  ELSE <<"temp", "latin">>

DetectRole(u) ==
  IF account[u].role # None THEN account[u].role
  ELSE IF account[u].club # None THEN "club"
  ELSE IF account[u].board THEN "heyat" ELSE "player"

\* A code that was sent for a sign-up is good here too; if nobody has the
\* phone it is used up for nothing.
AcceptReset(w) ==
  LET u == UserOf(job[w].phone) IN
  /\ At(w, "found") /\ job[w].page = "reset"
  /\ table' = table \ InHand(w)
  /\ Answered(w)
  /\ IF u = None
     THEN UNCHANGED <<done, password, answer>>
     ELSE /\ password' = [password EXCEPT ![u] = NewPassword(u)]
          /\ answer' = [user |-> u, password |-> NewPassword(u), role |-> DetectRole(u)]
          /\ done' = done \cup {job[w].phone}
  /\ UNCHANGED <<typos, account>>

\* The roles of a user at login, and the group of forms they are for.
RolesOf(u) ==
  LET own == (CASE account[u].role = "both" -> {"coach", "referee", "both"}
                [] account[u].role = None -> {}
                [] OTHER -> {account[u].role})
               \cup (IF account[u].club # None THEN {"club"} ELSE {})
               \cup (IF account[u].board THEN {"heyat"} ELSE {})
  IN  IF own = {} THEN {"player"} ELSE own

Group(role) ==
  CASE role = "player" -> {"player"}
    [] role \in {"coach", "referee", "both"} -> {"coach", "referee", "both"}
    [] role = "club" -> {"club"}
    [] OTHER -> {"heyat", "board"}

\* Logging in on the form of a role, with a password as it is typed.
Login(u, pw, role) ==
  password[u] = Normalized(pw) /\ RolesOf(u) \cap Group(role) # {}

\* The form of the boards compares the password as it is.
BoardLogin(u, pw) == password[u] = pw /\ account[u].board

-----------------------------------------------------------------------------

\* The steps that carry a request on to its end.
Serve(w) ==
  \/ \E arrives \in BOOLEAN : Write(w, arrives)
  \/ Lookup(w) \/ RejectWrong(w) \/ RejectLate(w)
  \/ AcceptSignup(w) \/ AcceptReset(w)

Next ==
  \/ Tick \/ Refused
  \/ \E w \in Workers :
       \/ Serve(w)
       \/ \E ph \in Phones :
            \/ SendCode(w, ph) \/ ForgotPasswordSendCode(w, ph)
            \/ \E c \in Codes : VerifyCode(w, ph, c) \/ ForgotPasswordVerify(w, ph, c)

\* Who has not got through asks again and enters what he received; time goes
\* on; of the messages sent again and again one arrives whose code no other
\* request drew; and a code that is entered again and again is some time
\* looked up while it is on record.
Asks(ph) ==
  /\ ph \notin done
  /\ \E w \in Workers :
       IF UserOf(ph) = None THEN SendCode(w, ph) ELSE ForgotPasswordSendCode(w, ph)

Arrives(ph) ==
  \E w \in Workers :
    /\ At(w, "send") /\ job[w].phone = ph
    /\ \A v \in Workers \ {w} : ~(At(v, "send") /\ job[v].code = job[w].code)
    /\ \A row \in Matching(ph, job[w].code) : Expired(row)
    /\ Write(w, TRUE)

Page(ph) == IF UserOf(ph) = None THEN "signup" ELSE "reset"

Enters(ph) ==
  /\ inbox[ph] # None
  /\ \E row \in table : {r \in Matching(ph, inbox[ph]) : ~Expired(r)} = {row}
  /\ \E w \in Workers : Enter(w, Page(ph), ph, inbox[ph])

Finds(ph) ==
  \E w \in Workers :
    /\ At(w, "look") /\ job[w].phone = ph /\ job[w].page = Page(ph)
    /\ \E row \in table : Matching(ph, job[w].code) = {row} /\ ~Expired(row)
    /\ Lookup(w)

Fairness ==
  /\ WF_vars(Tick)
  /\ \A w \in Workers : WF_vars(Serve(w))
  /\ \A ph \in Phones :
       /\ SF_vars(Asks(ph))
       /\ SF_vars(Arrives(ph))
       /\ SF_vars(Enters(ph))
       /\ SF_vars(Finds(ph))

Spec == Init /\ [][Next]_vars /\ Fairness

-----------------------------------------------------------------------------
(* Properties *)

\* A phone has two codes on record that a check accepts only if the requests
\* for them overlapped: no worker leaves two.  Rate limit, clean-up and check
\* compute the three minutes each for itself, and checks that delete codes,
\* for good or by mistake, come in between (SendCodeAPIView,
\* ForgotPasswordSendCodeAPIView).
TwoCodesOverlap ==
  \A row, other \in table :
    /\ row.phone = other.phone /\ row.by = other.by
    /\ ~Expired(row) /\ ~Expired(other)
    => row = other

\* A phone has one code that a check accepts.  Does not hold with two workers.
OneCode ==
  \A row, other \in table :
    row.phone = other.phone /\ ~Expired(row) /\ ~Expired(other) => row = other

\* The user name, password and role that a reset answers are good for logging
\* in, on the form of that role, whatever else the user is and however his
\* national code is written; on the form of the boards too.
ResetLogsIn ==
  [][answer' # answer =>
       /\ Login(answer.user, answer.password, answer.role)'
       /\ (answer.role = "heyat" => BoardLogin(answer.user, answer.password))']_vars

\* Everyone who keeps asking gets through, although messages are lost, codes
\* expire, requests overlap and some entries are wrong.
EveryoneGetsThrough == \A ph \in Phones : <>(ph \in done)

-----------------------------------------------------------------------------
(* The inductive invariant of AccessProofs *)

\* A worker has written at most one of the rows of a phone, and none while it
\* is about to write one.
WriterInv ==
  /\ \A row, other \in table : row.phone = other.phone /\ row.by = other.by => row = other
  /\ \A row \in table : At(row.by, "send") => job[row.by].phone # row.phone

=============================================================================
