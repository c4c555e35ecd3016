---------------------------- MODULE AccessProofs ----------------------------
(***************************************************************************)
(* Codes and resets proved for every set of phones, codes, users, accounts *)
(* and workers: types, that only overlapping requests leave a phone with   *)
(* two codes, and that a reset password logs in.                           *)
(***************************************************************************)
EXTENDS Access, TLAPS

-----------------------------------------------------------------------------
(* Types *)

\* The user found for a phone is a user.
LEMMA UserOfType ==
  ASSUME NEW ph
  PROVE  UserOf(ph) \in Users \cup {None}
  BY DEF UserOf

\* What a reset sets and answers.
LEMMA ResetType ==
  ASSUME TypeOK, NEW u \in Users
  PROVE  NewPassword(u) \in Passwords /\ DetectRole(u) \in Roles
  <1>1. account[u] \in [username : Phones \cup {"other"}, phone : Phones \cup {None},
                        role : {"player", "coach", "referee", "both", None},
                        club : Phones \cup {None}, board : BOOLEAN, digits : Digits]
    BY AccessAssumption DEF TypeOK
  <1>2. DetectRole(u) \in Roles
    BY <1>1 DEF DetectRole, Roles
  <1>3. NewPassword(u) \in Passwords
    BY DEF NewPassword, Passwords, Normalized, Digits
  <1> QED
    BY <1>2, <1>3

\* What a worker does has the type of a job.
LEMMA JobType ==
  ASSUME TypeOK, NEW w \in Workers, job[w] # None
  PROVE  job[w] \in Jobs
  BY DEF TypeOK

\* The end of a check.
LEMMA AnsweredType ==
  ASSUME TypeOK, NEW w \in Workers, job[w] # None, Answered(w)
  PROVE  /\ job' \in [Workers -> Jobs \cup {None}]
         /\ inbox' \in [Phones -> Codes \cup {None}]
         /\ \A v \in Workers : job'[v] = None \/ job'[v] = job[v]
  <1>1. job[w].phone \in Phones
    BY JobType DEF Jobs
  <1> QED
    BY <1>1 DEF Answered, TypeOK

\* Writing a code.
LEMMA WriteTable ==
  ASSUME TypeOK, WriterInv, NEW w \in Workers, NEW arrives \in BOOLEAN, Write(w, arrives)
  PROVE  TypeOK' /\ WriterInv'
  <1> USE AccessAssumption
  <1> DEFINE ph == job[w].phone
             c == job[w].code
             new == [phone |-> ph, code |-> c, age |-> 0, by |-> w]
  <1>1. job[w] \in Jobs /\ job[w].at = "send"
    BY JobType DEF Write, At
  <1>2. ph \in Phones /\ c \in Codes
    BY <1>1 DEF Jobs
  <1>3. table' = table \cup {new}
    BY DEF Write
  <1>4. \A v \in Workers : \/ job'[v] = job[v] /\ v # w
                           \/ job'[v] = None
                           \/ v # w /\ job[v] # None /\ job'[v] = [job[v] EXCEPT !.by = None]
    BY DEF Write
  <1>5. DOMAIN job' = Workers /\ job' = [v \in Workers |-> job'[v]] /\ job'[w] = None
    BY DEF Write
  <1>6. \A v \in Workers : job'[v] # None =>
          /\ v # w /\ job[v] # None /\ job'[v] \in Jobs
          /\ job'[v].at = job[v].at /\ job'[v].phone = job[v].phone
    <2>1. ASSUME NEW q \in Jobs
          PROVE  LET r == [q EXCEPT !.by = None]
                 IN  r \in Jobs /\ r.at = q.at /\ r.phone = q.phone
      BY <2>1 DEF Jobs
    <2>2. \A v \in Workers : job[v] # None => job[v] \in Jobs
      BY DEF TypeOK
    <2> SUFFICES ASSUME NEW v \in Workers, job'[v] # None
                 PROVE  /\ v # w /\ job[v] # None /\ job'[v] \in Jobs
                        /\ job'[v].at = job[v].at /\ job'[v].phone = job[v].phone
      OBVIOUS
    <2>3. CASE job'[v] = job[v]
      BY <1>5, <2>2, <2>3
    <2>4. CASE v # w /\ job[v] # None /\ job'[v] = [job[v] EXCEPT !.by = None]
      BY <2>1, <2>2, <2>4
    <2> QED
      BY <1>4, <2>3, <2>4
  <1>7. new \in Rows /\ new.phone = ph /\ new.by = w
    BY <1>2 DEF Rows
  <1>8. inbox' \in [Phones -> Codes \cup {None}]
    BY <1>2 DEF Write, TypeOK
  <1>9. TypeOK'
    <2>1. job' \in [Workers -> Jobs \cup {None}]
      BY <1>5, <1>6
    <2>2. table' \subseteq Rows
      BY <1>3, <1>7 DEF TypeOK
    <2> QED
      BY <1>8, <2>1, <2>2 DEF Write, TypeOK
  <1>10. \A row \in table : ~(row.phone = ph /\ row.by = w)
    BY <1>1 DEF WriterInv, Write
  <1> HIDE DEF new
  <1>11. \A row, other \in table' :
           row.phone = other.phone /\ row.by = other.by => row = other
    BY <1>3, <1>7, <1>10 DEF WriterInv
  <1>12. \A row \in table' : At(row.by, "send")' => job'[row.by].phone # row.phone
    <2>1. \A row \in table : row.by \in Workers
      BY DEF TypeOK, Rows
    <2> QED
      BY <1>3, <1>5, <1>6, <1>7, <2>1 DEF WriterInv, At
  <1> QED
    BY <1>9, <1>11, <1>12 DEF WriterInv

\* One step keeps the types, and that a worker leaves a phone one row.
LEMMA TableStep ==
  ASSUME TypeOK, WriterInv, [Next]_vars
  PROVE  TypeOK' /\ WriterInv'
  <1> USE AccessAssumption
  <1>s. ASSUME table' \subseteq table,
               \A v \in Workers : \/ job'[v] = None \/ job'[v] = job[v]
                                  \/ job'[v].at # "send"
        PROVE  table' \subseteq Rows /\ WriterInv'
    <2>1. \A row \in table : row.by \in Workers
      BY DEF TypeOK, Rows
    <2> QED
      BY <1>s, <2>1 DEF TypeOK, WriterInv, At
  <1>1. CASE Tick
    <2> DEFINE Older(row) == [row EXCEPT !.age = IF @ <= Minutes THEN @ + 1 ELSE @]
    <2>1. table' = {Older(row) : row \in table} /\ job' = job
      BY <1>1 DEF Tick
    <2>2. \A row \in table :
            /\ Older(row) \in Rows /\ Older(row).phone = row.phone
            /\ Older(row).by = row.by
      BY DEF TypeOK, Rows
    <2> HIDE DEF Older
    <2>3. \A row, other \in table' :
            row.phone = other.phone /\ row.by = other.by => row = other
      BY <2>1, <2>2 DEF WriterInv
    <2>4. \A row \in table' : At(row.by, "send")' => job'[row.by].phone # row.phone
      BY <2>1, <2>2 DEF WriterInv, At
    <2> QED
      BY <1>1, <2>1, <2>2, <2>3, <2>4 DEF Tick, TypeOK, WriterInv
  <1>2. CASE Refused
    <2>1. table' \subseteq table /\ job' = job
      BY <1>2 DEF Refused, Clean
    <2> QED
      BY <1>2, <1>s, <2>1 DEF Refused, TypeOK
  <1>3. ASSUME NEW w \in Workers, NEW ph \in Phones, NEW page \in {"signup", "reset"},
               Draw(w, page, ph)
        PROVE  TypeOK' /\ WriterInv'
    <2>1. PICK c \in Codes : job' = [job EXCEPT ![w] = Job("send", page, ph, c)]
      BY <1>3 DEF Draw, Drawable
    <2>2. Job("send", page, ph, c) \in Jobs /\ Job("send", page, ph, c).phone = ph
      BY DEF Job, Jobs
    <2>3. table' = Clean(table) /\ UNCHANGED <<inbox, typos, done, account, password, answer>>
      BY <1>3 DEF Draw
    <2>4. \A row \in table' : row \in table /\ row.phone # ph
      BY <1>3, <2>3 DEF Draw, Limited, Clean, TypeOK, Rows
    <2>5. \A v \in Workers : v # w => job'[v] = job[v]
      BY <2>1 DEF TypeOK
    <2>6. job'[w].phone = ph
      BY <2>1, <2>2 DEF TypeOK
    <2>7. \A row \in table' : At(row.by, "send")' => job'[row.by].phone # row.phone
      BY <2>4, <2>5, <2>6 DEF WriterInv, At, TypeOK, Rows
    <2>8. TypeOK'
      BY <2>1, <2>2, <2>3, <2>4 DEF TypeOK
    <2> QED
      BY <2>4, <2>7, <2>8 DEF WriterInv
  <1>4. ASSUME NEW w \in Workers, NEW page \in {"signup", "reset"}, NEW ph \in Phones,
               NEW c \in Codes, Enter(w, page, ph, c)
        PROVE  TypeOK' /\ WriterInv'
    <2>1. /\ table' \subseteq table /\ job' = [job EXCEPT ![w] = Job("look", page, ph, c)]
          /\ UNCHANGED <<inbox, done, account, password, answer>>
          /\ typos' \in 0..MaxTypos
      BY <1>4 DEF Enter, Clean, TypeOK
    <2>2. Job("look", page, ph, c) \in Jobs /\ Job("look", page, ph, c).at # "send"
      BY DEF Job, Jobs
    <2>3. \A v \in Workers : job'[v] = job[v] \/ job'[v].at # "send"
      BY <2>1, <2>2 DEF TypeOK
    <2>4. table' \subseteq Rows /\ WriterInv'
      BY <1>s, <2>1, <2>3
    <2> QED
      BY <2>1, <2>2, <2>4 DEF TypeOK
  <1>5. ASSUME NEW w \in Workers, Lookup(w) PROVE TypeOK' /\ WriterInv'
    <2>1. job[w] \in Jobs
      BY <1>5, JobType DEF Lookup, At
    <2>2. PICK r \in Jobs \cup {None} :
            job' = [job EXCEPT ![w] = r] /\ (r = None \/ r.at # "send")
      <3>1. CASE job' = [job EXCEPT ![w].at = "wrong"]
        <4> DEFINE r == [job[w] EXCEPT !.at = "wrong"]
        <4>1. r \in Jobs /\ r.at # "send" /\ job' = [job EXCEPT ![w] = r]
          BY <2>1, <3>1 DEF Jobs, TypeOK
        <4> QED
          BY <4>1
      <3>2. ASSUME NEW row \in table, NEW point \in {"late", "found"},
                   job' = [job EXCEPT ![w].at = point, ![w].by = row.by]
            PROVE  \E r \in Jobs \cup {None} :
                     job' = [job EXCEPT ![w] = r] /\ (r = None \/ r.at # "send")
        <4> DEFINE r == [job[w] EXCEPT !.at = point, !.by = row.by]
        <4>1. row.by \in Workers
          BY DEF TypeOK, Rows
        <4>2. r \in Jobs /\ r.at # "send" /\ job' = [job EXCEPT ![w] = r]
          BY <2>1, <3>2, <4>1 DEF Jobs, TypeOK
        <4> QED
          BY <4>2
      <3>3. CASE job' = [job EXCEPT ![w] = None]
        BY <3>3
      <3> QED
        BY <1>5, <3>1, <3>2, <3>3 DEF Lookup
    <2>3. \A v \in Workers : job'[v] = None \/ job'[v] = job[v] \/ job'[v].at # "send"
      BY <2>2 DEF TypeOK
    <2>4. table' = table
      BY <1>5 DEF Lookup
    <2>5. WriterInv'
      BY <1>s, <2>3, <2>4
    <2> QED
      BY <1>5, <2>2, <2>5 DEF Lookup, TypeOK
  <1>6. ASSUME NEW w \in Workers,
               RejectWrong(w) \/ RejectLate(w) \/ AcceptSignup(w) \/ AcceptReset(w)
        PROVE  TypeOK' /\ WriterInv'
    <2>1. job[w] \in Jobs /\ job[w] # None /\ Answered(w) /\ table' \subseteq table
      BY <1>6, JobType DEF RejectWrong, RejectLate, AcceptSignup, AcceptReset, At
    <2>2. /\ job' \in [Workers -> Jobs \cup {None}]
          /\ inbox' \in [Phones -> Codes \cup {None}]
          /\ \A v \in Workers : job'[v] = None \/ job'[v] = job[v]
      BY <2>1, AnsweredType
    <2>3. table' \subseteq Rows /\ WriterInv'
      BY <1>s, <2>1, <2>2
    <2>4. done' \subseteq Phones
      BY <1>6, <2>1 DEF RejectWrong, RejectLate, AcceptSignup, AcceptReset, TypeOK, Jobs
    <2>5. /\ password' \in [Users -> Passwords]
          /\ answer' \in [user : Users, password : Passwords, role : Roles] \cup {None}
      <3>1. CASE UNCHANGED <<password, answer>>
        BY <3>1 DEF TypeOK
      <3>2. CASE AcceptReset(w)
        BY <3>2, UserOfType, ResetType DEF AcceptReset, TypeOK
      <3> QED
        BY <1>6, <3>1, <3>2 DEF RejectWrong, RejectLate, AcceptSignup
    <2>6. typos' = typos /\ account' = account
      BY <1>6 DEF RejectWrong, RejectLate, AcceptSignup, AcceptReset
    <2> QED
      BY <2>2, <2>3, <2>4, <2>5, <2>6 DEF TypeOK
  <1>7. CASE UNCHANGED vars
    BY <1>7, <1>s DEF vars, TypeOK
  <1>8. ASSUME NEW w \in Workers, Serve(w) PROVE TypeOK' /\ WriterInv'
    BY <1>5, <1>6, <1>8, WriteTable DEF Serve
  <1> QED
    BY <1>1, <1>2, <1>3, <1>4, <1>7, <1>8
       DEF Next, SendCode, ForgotPasswordSendCode, VerifyCode, ForgotPasswordVerify

LEMMA Invariance == Spec => [](TypeOK /\ WriterInv)
  <1>1. Init => TypeOK /\ WriterInv
    BY AccessAssumption DEF Init, TypeOK, WriterInv, Passwords, Digits
  <1> QED
    BY <1>1, TableStep, PTL DEF Spec

\* The table of codes, the jobs, passwords and answers keep their types
\* (SMSVerification, User).
THEOREM TypeCorrect == Spec => []TypeOK
  BY Invariance, PTL

\* However many workers send and check codes, a phone has two codes that a
\* check accepts only if the requests for them overlapped (SendCodeAPIView,
\* ForgotPasswordSendCodeAPIView).
THEOREM TwoCodesOverlapCorrect == Spec => []TwoCodesOverlap
  <1>1. WriterInv => TwoCodesOverlap
    BY DEF WriterInv, TwoCodesOverlap
  <1> QED
    BY <1>1, Invariance, PTL

-----------------------------------------------------------------------------
(* Logging in after a reset *)

\* The answer of a reset is good for logging in.
LEMMA ResetWorks ==
  ASSUME TypeOK, NEW u \in Users,
         password' = [password EXCEPT ![u] = NewPassword(u)],
         answer' = [user |-> u, password |-> NewPassword(u), role |-> DetectRole(u)],
         account' = account
  PROVE  /\ Login(answer.user, answer.password, answer.role)'
         /\ (answer.role = "heyat" => BoardLogin(answer.user, answer.password))'
  <1>1. /\ answer'.user = u /\ answer'.password = NewPassword(u)
        /\ answer'.role = DetectRole(u) /\ password'[u] = NewPassword(u)
    BY DEF TypeOK
  <1>2. Normalized(NewPassword(u)) = NewPassword(u)
    BY DEF Normalized, NewPassword
  <1>3. account[u] \in [username : Phones \cup {"other"}, phone : Phones \cup {None},
                        role : {"player", "coach", "referee", "both", None},
                        club : Phones \cup {None}, board : BOOLEAN, digits : Digits]
    BY AccessAssumption DEF TypeOK
  <1>4. RolesOf(u) \cap Group(DetectRole(u)) # {}
    <2> DEFINE a == account[u]
    <2>1. /\ a.role \in {"player", "coach", "referee", "both", None}
          /\ a.board \in BOOLEAN
      BY <1>3
    <2> HIDE DEF a
    <2>2. CASE a.role # None
      BY <2>1, <2>2 DEF RolesOf, Group, DetectRole, a
    <2>3. CASE a.role = None /\ a.club # None
      BY <2>3 DEF RolesOf, Group, DetectRole, a
    <2>4. CASE a.role = None /\ a.club = None /\ a.board
      BY <2>4 DEF RolesOf, Group, DetectRole, a
    <2>5. CASE a.role = None /\ a.club = None /\ ~a.board
      BY <2>5 DEF RolesOf, Group, DetectRole, a
    <2> QED
      BY <2>2, <2>3, <2>4, <2>5
  <1>5. RolesOf(u)' = RolesOf(u)
    BY DEF RolesOf
  <1>6. Login(answer.user, answer.password, answer.role)'
    BY <1>1, <1>2, <1>4, <1>5 DEF Login, RolesOf, Normalized, Group
  <1>7. DetectRole(u) = "heyat" => account[u].board
    BY <1>3 DEF DetectRole
  <1> QED
    BY <1>1, <1>6, <1>7 DEF BoardLogin

\* The user, password and role that a reset answers log in, on the form of
\* that role and for a board also on the form of the boards, whatever else
\* the user is and in whatever digits his national code was written.
THEOREM ResetLogsInCorrect == Spec => ResetLogsIn
  <1> DEFINE A == answer' # answer =>
       /\ Login(answer.user, answer.password, answer.role)'
       /\ (answer.role = "heyat" => BoardLogin(answer.user, answer.password))'
  <1>1. TypeOK /\ [Next]_vars => [A]_vars
    <2> SUFFICES ASSUME TypeOK, Next, answer' # answer PROVE A
      BY DEF vars
    <2>1. PICK w \in Workers : AcceptReset(w)
      BY DEF Next, Serve, Tick, Refused, SendCode, ForgotPasswordSendCode, Draw, Write,
             VerifyCode, ForgotPasswordVerify, Enter, Lookup, RejectWrong, RejectLate,
             AcceptSignup
    <2> DEFINE u == UserOf(job[w].phone)
    <2>2. /\ u # None /\ password' = [password EXCEPT ![u] = NewPassword(u)]
          /\ answer' = [user |-> u, password |-> NewPassword(u), role |-> DetectRole(u)]
          /\ account' = account
      BY <2>1 DEF AcceptReset
    <2>3. u \in Users
      BY <2>2, UserOfType
    <2> HIDE DEF u
    <2> QED
      BY <2>2, <2>3, ResetWorks
  <1> QED
    BY <1>1, TypeCorrect, PTL DEF Spec, ResetLogsIn

=============================================================================
