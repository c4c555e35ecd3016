---------------------------- MODULE SignupProofs ----------------------------
(* What Signup guarantees for every set of applications and values. *)
EXTENDS Signup, TLAPS

\* Every row, and every request that is not idle, belongs to an application
\* that was filled in.
Filed ==
  /\ \A a \in pending \cup approved \cup removed \cup refused \cup reported :
       data[a] \in Forms
  /\ \A w \in Workers : req[w].at # "idle" =>
       req[w].app \in Apps /\ data[req[w].app] \in Forms

IInv == TypeOK /\ Filed

-----------------------------------------------------------------------------
\* UsersFor gives every phone a code or None.
LEMMA UsersForType ==
  ASSUME TypeOK, NEW batch \in SUBSET Apps, \A a \in batch : data[a] \in Forms
  PROVE  UsersFor(batch) \in [Phones -> Codes \cup {None}]
<1> SUFFICES ASSUME NEW p \in Phones,
                    password[p] = None, \E a \in batch : data[a].phone = p
             PROVE  (CHOOSE f \in {data[a] : a \in batch} : f.phone = p).code
                      \in Codes
  BY DEF UsersFor, TypeOK
<1>1. \E f \in {data[a] : a \in batch} : f.phone = p
  OBVIOUS
<1>2. (CHOOSE f \in {data[a] : a \in batch} : f.phone = p)
         \in {data[a] : a \in batch}
  BY <1>1
<1>3. \A f \in {data[a] : a \in batch} : f.code \in Codes
  BY DEF Forms
<1> QED
  BY <1>2, <1>3

\* The initial state satisfies the type invariant and Filed.
LEMMA InitIInv == Init => IInv
<1> SUFFICES ASSUME Init PROVE IInv
  OBVIOUS
<1> USE DEF Init
<1>1. TypeOK
  BY DEF TypeOK, Idle, Serving, Requests, Points
<1>2. Filed
  BY DEF Filed, Idle, Serving
<1> QED
  BY <1>1, <1>2 DEF IInv

\* What a request meets are sets of applications.
LEMMA MeetingType ==
  ASSUME IInv, NEW w \in Workers, NEW S \in SUBSET Apps
  PROVE  Meeting(w, S) \subseteq SUBSET Apps
<1> SUFFICES ASSUME NEW a \in S, NEW v \in Workers, req[v].at # "idle"
             PROVE  {a, req[v].app} \subseteq Apps
  BY DEF Meeting
<1> QED
  BY DEF IInv, Filed

\* Idle and the other requests are requests.
LEMMA ServingType ==
  /\ Idle \in Requests
  /\ \A point \in Points, a \in Apps : Serving(point, a) \in Requests
BY DEF Idle, Serving, Requests, Points

\* Every step keeps the type invariant and Filed.
LEMMA NextIInv == IInv /\ [Next]_vars => IInv'
<1> SUFFICES ASSUME IInv, [Next]_vars PROVE IInv'
  OBVIOUS
<1> USE SignupAssumption DEF IInv
<1>1. ASSUME NEW w \in Workers, NEW a \in Apps, NEW form \in Forms,
             Register(w, a, form)
      PROVE  IInv'
  <2>1. TypeOK'
    BY <1>1, ServingType, MeetingType DEF Register, TypeOK, tables, replies, Points
  <2>2. Filed'
    BY <1>1 DEF Register, TypeOK, Filed, tables, replies, Serving, Idle, Requests
  <2> QED
    BY <2>1, <2>2
<1>2. ASSUME NEW w \in Workers, RunCheck(w)
      PROVE  IInv'
  <2>1. req[w] \in Requests /\ req[w].app \in Apps /\ data[req[w].app] \in Forms
    BY <1>2 DEF RunCheck, Filed, TypeOK
  <2>2. TypeOK'
    BY <1>2, <2>1, ServingType DEF RunCheck, TypeOK, tables, replies, Points, Requests
  <2>3. Filed'
    BY <1>2, <2>1 DEF RunCheck, TypeOK, Filed, tables, replies, Idle, Serving,
                      Requests
  <2> QED
    BY <2>2, <2>3
<1>3. ASSUME NEW w \in Workers, InsertPending(w) \/ FinishPending(w)
      PROVE  IInv'
  <2>1. req[w].app \in Apps /\ data[req[w].app] \in Forms
    BY <1>3 DEF InsertPending, FinishPending, Filed
  <2>2. TypeOK'
    BY <1>3, <2>1, ServingType
       DEF InsertPending, FinishPending, TypeOK, replies, Points
  <2>3. Filed'
    BY <1>3, <2>1 DEF InsertPending, FinishPending, TypeOK, Filed, Idle,
                      Serving, Requests, replies
  <2> QED
    BY <2>2, <2>3
<1>4. ASSUME NEW w \in Workers, FinishFails(w)
      PROVE  IInv'
  BY <1>4, ServingType DEF FinishFails, TypeOK, Filed, tables, replies, Idle,
     Serving
<1>5. ASSUME NEW w \in Workers, NEW batch \in SUBSET Apps, AdminApprove(w, batch)
      PROVE  IInv'
  <2>1. UsersFor(batch) \in [Phones -> Codes \cup {None}]
    BY <1>5, UsersForType DEF AdminApprove, Filed
  <2>2. TypeOK'
    BY <1>5, <2>1, MeetingType DEF AdminApprove, TypeOK
  <2>3. Filed'
    BY <1>5 DEF AdminApprove, TypeOK, Filed
  <2> QED
    BY <2>2, <2>3
<1>6. ASSUME NEW w \in Workers, NEW batch \in SUBSET Apps, NEW done \in SUBSET Apps,
             AdminApproveFails(w, batch, done)
      PROVE  IInv'
  BY <1>6 DEF AdminApproveFails, TypeOK, Filed, tables
<1>7. ASSUME NEW w \in Workers, NEW a \in Apps,
             StaffRead(w, a) \/ RefuseRead(w, a)
      PROVE  IInv'
  <2>1. data[a] \in Forms
    BY <1>7 DEF StaffRead, RefuseRead, Filed
  <2>2. TypeOK'
    BY <1>7, ServingType, MeetingType DEF StaffRead, RefuseRead, TypeOK, tables, replies, Points
  <2>3. Filed'
    BY <1>7, <2>1 DEF StaffRead, RefuseRead, TypeOK, Filed, tables, replies,
                      Serving, Requests
  <2> QED
    BY <2>2, <2>3
<1>8. ASSUME NEW w \in Workers, StaffAdmit(w)
      PROVE  IInv'
  <2> DEFINE a == req[w].app
  <2>1. a \in Apps /\ data[a] \in Forms
    BY <1>8 DEF StaffAdmit, Filed
  <2>2. UsersFor({a}) \in [Phones -> Codes \cup {None}]
    BY <2>1, UsersForType
  <2>3. password' \in [Phones -> Codes \cup {None}]
    BY <1>8, <2>1, <2>2 DEF StaffAdmit, TypeOK, Forms
  <2>4. TypeOK'
    BY <1>8, <2>1, <2>3, ServingType DEF StaffAdmit, TypeOK
  <2>5. Filed'
    BY <1>8, <2>1 DEF StaffAdmit, TypeOK, Filed, Idle, Serving
  <2> QED
    BY <2>4, <2>5
<1>9. ASSUME NEW w \in Workers, Refuse(w)
      PROVE  IInv'
  BY <1>9, ServingType DEF Refuse, TypeOK, Filed, Idle, Serving
<1>10. ASSUME NEW w \in Workers, NEW a \in Apps, DeleteAccount(w, a)
       PROVE  IInv'
  BY <1>10 DEF DeleteAccount, TypeOK, Filed, replies
<1>11. CASE UNCHANGED vars
  BY <1>11 DEF TypeOK, Filed, vars, tables, replies
<1> QED
  BY <1>1, <1>2, <1>3, <1>4, <1>5, <1>6, <1>7, <1>8, <1>9, <1>10, <1>11
     DEF Next

\* The type invariant, with Filed: what is in the tables was filled in.
THEOREM Invariance == Spec => []IInv
BY InitIInv, NextIInv, PTL DEF Spec

\* Every variable keeps its type in every behaviour.
THEOREM TypeCorrect == Spec => []TypeOK
<1>1. IInv => TypeOK
  BY DEF IInv
<1> QED
  BY <1>1, Invariance, PTL

-----------------------------------------------------------------------------
(* No application is lost *)

\* Whoever was told "registered, awaiting approval" stays pending until the
\* application is approved or refused, whatever runs at the same time.
THEOREM NoApplicationLost == Spec => []NothingLost
<1>1. Init => NothingLost
  BY DEF Init, NothingLost
<1>2. NothingLost /\ [Next]_vars => NothingLost'
  <2> SUFFICES ASSUME NothingLost, [Next]_vars PROVE NothingLost'
    OBVIOUS
  <2> USE DEF NothingLost
  <2>1. ASSUME NEW w \in Workers, NEW a \in Apps, NEW form \in Forms,
               Register(w, a, form)
        PROVE  NothingLost'
    BY <2>1 DEF Register, tables, replies
  <2>2. ASSUME NEW w \in Workers,
               RunCheck(w) \/ InsertPending(w) \/ FinishPending(w)
                 \/ FinishFails(w) \/ StaffAdmit(w) \/ Refuse(w)
        PROVE  NothingLost'
    BY <2>2 DEF RunCheck, InsertPending, FinishPending, FinishFails,
                StaffAdmit, Refuse, tables, replies
  <2>3. ASSUME NEW w \in Workers, NEW batch \in SUBSET Apps,
               AdminApprove(w, batch)
        PROVE  NothingLost'
    BY <2>3 DEF AdminApprove
  <2>4. ASSUME NEW w \in Workers, NEW batch \in SUBSET Apps,
               NEW done \in SUBSET Apps, AdminApproveFails(w, batch, done)
        PROVE  NothingLost'
    BY <2>4 DEF AdminApproveFails, tables
  <2>5. ASSUME NEW w \in Workers, NEW a \in Apps,
               StaffRead(w, a) \/ RefuseRead(w, a) \/ DeleteAccount(w, a)
        PROVE  NothingLost'
    BY <2>5 DEF StaffRead, RefuseRead, DeleteAccount, tables, replies
  <2>6. CASE UNCHANGED vars
    BY <2>6 DEF vars, tables, replies
  <2> QED
    BY <2>1, <2>2, <2>3, <2>4, <2>5, <2>6 DEF Next
<1> QED
  BY <1>1, <1>2, PTL DEF Spec

-----------------------------------------------------------------------------
(* What becomes of a refused application *)

\* No row and no reply belongs to application a.
Fresh(a) == a \notin pending \cup approved \cup removed \cup refused

\* Applications in hand at one time have met.
MeetInv ==
  \A v, w \in Workers :
    v # w /\ req[v].at # "idle" /\ req[w].at # "idle" =>
      {req[v].app, req[w].app} \in met

\* Up to its INSERT a registration has its application for itself.
FilingInv ==
  \A w \in Workers : req[w].at \in {"check", "insert"} =>
    /\ Fresh(req[w].app)
    /\ \A v \in Workers \ {w} : req[v].at # "idle" => req[v].app # req[w].app

\* A row somebody works on is there, unless somebody else had it in hand; a
\* row that is pending has no account and was not refused, likewise.
RowInv ==
  /\ \A w \in Workers : req[w].at \in {"finish", "admit", "refuse"} =>
       req[w].app \in pending \/ {req[w].app} \in met
  /\ \A a \in pending \cap (approved \cup removed) : {a} \in met
  /\ RefusalOvertaken

OvertakenInv == MeetInv /\ FilingInv /\ RowInv

\* Taking applications in hand keeps MeetInv.
LEMMA StartMeets ==
  ASSUME IInv, MeetInv, NEW w \in Workers, NEW a \in Apps,
         NEW point \in Points, req' = [req EXCEPT ![w] = Serving(point, a)],
         met' = met \cup Meeting(w, {a})
  PROVE  MeetInv'
<1> SUFFICES ASSUME NEW u \in Workers, NEW v \in Workers, u # v,
                    req'[u].at # "idle", req'[v].at # "idle"
             PROVE  {req'[u].app, req'[v].app} \in met'
  BY DEF MeetInv
<1>1. \A x \in Workers \ {w} : req'[x] = req[x]
  BY DEF IInv, TypeOK
<1>2. req'[w].app = a
  BY DEF IInv, TypeOK, Serving
<1>3. CASE u # w /\ v # w
  BY <1>1, <1>3 DEF MeetInv
<1>4. CASE u = w
  BY <1>1, <1>2, <1>4 DEF Meeting
<1>5. CASE v = w
  <2>1. {a, req[u].app} \in met'
    BY <1>1, <1>5 DEF Meeting
  <2> QED
    BY <1>1, <1>2, <1>5, <2>1
<1> QED
  BY <1>3, <1>4, <1>5

\* Going on with an application, or ending, keeps MeetInv.
LEMMA GoingOnMeets ==
  ASSUME IInv, MeetInv, NEW w \in Workers, req[w].at # "idle",
         req' \in [Workers -> Requests],
         \A v \in Workers \ {w} : req'[v] = req[v],
         req'[w].at = "idle" \/ req'[w].app = req[w].app,
         met \subseteq met'
  PROVE  MeetInv'
BY DEF MeetInv

\* Every step keeps OvertakenInv.
LEMMA NextOvertakenInv == IInv /\ OvertakenInv /\ [Next]_vars => OvertakenInv'
<1> SUFFICES ASSUME IInv, OvertakenInv, [Next]_vars PROVE OvertakenInv'
  OBVIOUS
<1> USE SignupAssumption
<1>0. IInv' /\ req \in [Workers -> Requests] /\ req' \in [Workers -> Requests]
  BY NextIInv DEF IInv, TypeOK
<1>a. MeetInv /\ FilingInv /\ RowInv
  BY DEF OvertakenInv
<1>1. ASSUME NEW w \in Workers, NEW a \in Apps, NEW form \in Forms,
             Register(w, a, form)
      PROVE  OvertakenInv'
  <2>1. /\ Fresh(a)
        /\ \A v \in Workers : req[v].at # "idle" => req[v].app # a
    BY <1>1 DEF Register, Fresh, IInv, Filed, TypeOK
  <2>2. MeetInv'
    BY <1>1, <1>a, StartMeets DEF Register, Points
  <2>3. /\ req'[w].app = a /\ req'[w].at = "check"
        /\ \A v \in Workers \ {w} : req'[v] = req[v]
        /\ UNCHANGED <<pending, approved, removed, refused>>
        /\ met \subseteq met'
    BY <1>0, <1>1 DEF Register, Serving, tables, replies
  <2>4. FilingInv'
    BY <1>a, <2>1, <2>3 DEF FilingInv, Fresh
  <2>5. RowInv'
    BY <1>a, <2>3 DEF RowInv, RefusalOvertaken
  <2> QED
    BY <2>2, <2>4, <2>5 DEF OvertakenInv
<1>2. ASSUME NEW w \in Workers, RunCheck(w)
      PROVE  OvertakenInv'
  <2>1. /\ req[w].at = "check"
        /\ req'[w].at \in {"idle", "check", "insert"}
        /\ req'[w].at = "idle" \/ req'[w].app = req[w].app
        /\ \A v \in Workers \ {w} : req'[v] = req[v]
        /\ UNCHANGED <<pending, approved, removed, refused, met>>
    BY <1>0, <1>2 DEF RunCheck, Idle, Serving, Requests, tables, replies
  <2>2. MeetInv'
    BY <1>0, <1>a, <2>1, GoingOnMeets
  <2>3. FilingInv'
    BY <1>a, <2>1 DEF FilingInv, Fresh
  <2>4. RowInv'
    BY <1>a, <2>1 DEF RowInv, RefusalOvertaken
  <2> QED
    BY <2>2, <2>3, <2>4 DEF OvertakenInv
<1>3. ASSUME NEW w \in Workers, InsertPending(w)
      PROVE  OvertakenInv'
  <2>1. /\ req[w].at = "insert"
        /\ req'[w].at = "idle" \/ req'[w].app = req[w].app
        /\ req'[w].at \in {"idle", "finish"}
        /\ req'[w].at # "idle" => req[w].app \in pending'
        /\ \A v \in Workers \ {w} : req'[v] = req[v]
        /\ pending \subseteq pending' /\ pending' \subseteq pending \cup {req[w].app}
        /\ UNCHANGED <<approved, removed, refused, met>>
    BY <1>0, <1>3 DEF InsertPending, Idle, Serving, replies
  <2>2. MeetInv'
    BY <1>0, <1>a, <2>1, GoingOnMeets
  <2>3. FilingInv'
    BY <1>a, <2>1 DEF FilingInv, Fresh
  <2>4. RowInv'
    BY <1>a, <2>1 DEF FilingInv, Fresh, RowInv, RefusalOvertaken
  <2> QED
    BY <2>2, <2>3, <2>4 DEF OvertakenInv
<1>4. ASSUME NEW w \in Workers, FinishPending(w) \/ FinishFails(w)
      PROVE  OvertakenInv'
  <2>1. /\ req[w].at = "finish" /\ req'[w].at = "idle"
        /\ \A v \in Workers \ {w} : req'[v] = req[v]
        /\ pending \subseteq pending' /\ pending' \subseteq pending \cup {req[w].app}
        /\ UNCHANGED <<approved, removed, refused, met>>
    BY <1>0, <1>4 DEF FinishPending, FinishFails, Idle, Serving, tables, replies
  <2>2. MeetInv'
    BY <1>0, <1>a, <2>1, GoingOnMeets
  <2>3. FilingInv'
    BY <1>a, <2>1 DEF FilingInv, Fresh
  <2>4. RowInv'
    BY <1>a, <2>1 DEF RowInv, RefusalOvertaken
  <2> QED
    BY <2>2, <2>3, <2>4 DEF OvertakenInv
<1>5. ASSUME NEW w \in Workers, NEW batch \in SUBSET Apps, AdminApprove(w, batch)
      PROVE  OvertakenInv'
  <2>1. /\ batch \subseteq pending
        /\ pending' = pending \ batch /\ approved' = approved \cup batch
        /\ met' = met \cup Meeting(w, batch)
        /\ UNCHANGED <<removed, refused, req>>
        /\ req[w].at = "idle"
    BY <1>5 DEF AdminApprove, Idle, Serving
  <2>2. MeetInv'
    BY <1>a, <2>1 DEF MeetInv
  <2>3. FilingInv'
    BY <1>a, <2>1 DEF FilingInv, Fresh
  <2>4. ASSUME NEW v \in Workers, req[v].at # "idle", req[v].app \in batch
        PROVE  {req[v].app} \in met'
    <3>1. {req[v].app, req[v].app} \in Meeting(w, batch)
      BY <2>1, <2>4 DEF Meeting
    <3> QED
      BY <2>1, <3>1
  <2>5. RowInv'
    BY <1>a, <2>1, <2>4 DEF RowInv, RefusalOvertaken
  <2> QED
    BY <2>2, <2>3, <2>5 DEF OvertakenInv
<1>6. ASSUME NEW w \in Workers, NEW batch \in SUBSET Apps, NEW done \in SUBSET Apps,
             AdminApproveFails(w, batch, done)
      PROVE  OvertakenInv'
  <2>1. UNCHANGED <<pending, approved, removed, refused, req, met>>
    BY <1>6 DEF AdminApproveFails, tables
  <2> QED
    BY <1>a, <2>1 DEF OvertakenInv, MeetInv, FilingInv, Fresh, RowInv,
                      RefusalOvertaken
<1>7. ASSUME NEW w \in Workers, NEW a \in Apps,
             StaffRead(w, a) \/ RefuseRead(w, a)
      PROVE  OvertakenInv'
  <2>1. /\ a \in pending
        /\ req'[w].app = a /\ req'[w].at \in {"admit", "refuse"}
        /\ \A v \in Workers \ {w} : req'[v] = req[v]
        /\ UNCHANGED <<pending, approved, removed, refused>>
        /\ met \subseteq met'
    BY <1>0, <1>7 DEF StaffRead, RefuseRead, Serving, tables, replies
  <2>2. MeetInv'
    BY <1>7, <1>a, StartMeets DEF StaffRead, RefuseRead, Points
  <2>3. FilingInv'
    BY <1>a, <2>1 DEF FilingInv, Fresh
  <2>4. RowInv'
    BY <1>a, <2>1 DEF RowInv, RefusalOvertaken
  <2> QED
    BY <2>2, <2>3, <2>4 DEF OvertakenInv
<1>8. ASSUME NEW w \in Workers, StaffAdmit(w) \/ Refuse(w)
      PROVE  OvertakenInv'
  <2> DEFINE a == req[w].app
  <2>1. /\ req[w].at \in {"admit", "refuse"} /\ req'[w].at = "idle"
        /\ \A v \in Workers \ {w} : req'[v] = req[v]
        /\ pending' \subseteq pending /\ pending \subseteq pending' \cup {a}
        /\ approved \subseteq approved' /\ approved' \subseteq approved \cup {a}
        /\ refused \subseteq refused' /\ refused' \subseteq refused \cup {a}
        /\ a \notin pending' \/ UNCHANGED <<pending, approved, refused>>
        /\ approved' = approved \/ refused' = refused
        /\ UNCHANGED <<removed, met>>
    BY <1>0, <1>8 DEF StaffAdmit, Refuse, Idle, Serving
  <2>2. MeetInv'
    BY <1>0, <1>a, <2>1, GoingOnMeets
  <2>3. FilingInv'
    BY <1>a, <2>1 DEF FilingInv, Fresh
  <2>4. a \in pending \/ {a} \in met
    BY <1>a, <2>1 DEF RowInv
  <2>5. \A v \in Workers \ {w} : req[v].at # "idle" /\ req[v].app = a => {a} \in met
    <3>1. {a, a} = {a}
      OBVIOUS
    <3> QED
      BY <1>a, <2>1, <3>1 DEF MeetInv
  <2>6. RowInv'
    BY <1>a, <2>1, <2>4, <2>5 DEF RowInv, RefusalOvertaken
  <2> QED
    BY <2>2, <2>3, <2>6 DEF OvertakenInv
<1>9. ASSUME NEW w \in Workers, NEW a \in Apps, DeleteAccount(w, a)
      PROVE  OvertakenInv'
  <2>1. /\ (approved \cup removed)' = approved \cup removed
        /\ UNCHANGED <<pending, refused, req, met>>
    BY <1>9 DEF DeleteAccount, replies
  <2> QED
    BY <1>a, <2>1 DEF OvertakenInv, MeetInv, FilingInv, Fresh, RowInv,
                      RefusalOvertaken
<1>10. CASE UNCHANGED vars
  <2>1. UNCHANGED <<pending, approved, removed, refused, req, met>>
    BY <1>10 DEF vars, tables, replies
  <2> QED
    BY <1>a, <2>1 DEF OvertakenInv, MeetInv, FilingInv, Fresh, RowInv,
                      RefusalOvertaken
<1> QED
  BY <1>1, <1>2, <1>3, <1>4, <1>5, <1>6, <1>7, <1>8, <1>9, <1>10 DEF Next

\* OvertakenInv holds of every behaviour.
LEMMA OvertakenInvariance == Spec => [](IInv /\ OvertakenInv)
<1>1. Init => IInv /\ OvertakenInv
  <2>1. Init => OvertakenInv
    BY DEF Init, OvertakenInv, MeetInv, FilingInv, RowInv, RefusalOvertaken,
           Idle, Serving
  <2> QED
    BY <2>1, InitIInv
<1>2. (IInv /\ OvertakenInv) /\ [Next]_vars => (IInv /\ OvertakenInv)'
  BY NextIInv, NextOvertakenInv
<1> QED
  BY <1>1, <1>2, PTL DEF Spec

\* With any number of workers, a refused application is in the queue again or
\* has an account only if two requests had it in hand at one time.
THEOREM RefusalOvertakenCorrect == Spec => []RefusalOvertaken
<1>1. OvertakenInv => RefusalOvertaken
  BY DEF OvertakenInv, RowInv
<1> QED
  BY <1>1, OvertakenInvariance, PTL

-----------------------------------------------------------------------------
(* What the lookups are worth when requests overlap *)

Shares(a, b) == \E k \in Keys(data[a].kind) : Same(a, b, k)

\* What the first n lookups of application a would find now are applications
\* it has met.
PassedUnlessMet(a, n) ==
  \A j \in 1..n :
    LET check == Checks(data[a].kind)[j]
    IN  \A b \in Rows(check.table) : Same(a, b, check.field) => {a, b} \in met

\* Every row that has a key of application a is one it has met.
FreeUnlessMet(a) ==
  \A b \in (pending \cup approved) \ {a} : Shares(a, b) => {a, b} \in met

\* What the request of worker w knows.
Knows(w) ==
  /\ req[w].at = "check" =>
       /\ req[w].check \in 1..Len(Checks(data[req[w].app].kind))
       /\ PassedUnlessMet(req[w].app, req[w].check - 1)
  /\ req[w].at \in {"insert", "finish", "admit"} => FreeUnlessMet(req[w].app)

SharedInv == SharedKeysMet /\ \A w \in Workers : Knows(w)

\* All lookups passed: every key that is taken is taken by one it has met.
LEMMA PassedAll ==
  ASSUME NEW a \in Apps, data[a] \in Forms, a \notin pending \cup approved,
         PassedUnlessMet(a, Len(Checks(data[a].kind)))
  PROVE  FreeUnlessMet(a)
<1> USE SignupAssumption DEF PassedUnlessMet, Checks, Check, Rows, FreeUnlessMet,
                             Shares, Keys
<1>1. CASE data[a].kind = "person"
  BY <1>1
<1>2. CASE data[a].kind = "club"
  BY <1>2
<1> QED
  BY <1>1, <1>2 DEF Forms

\* A request still knows what it knew, if the rows that others add are of
\* applications it has met.
LEMMA KeepsKnowing ==
  ASSUME NEW v, Knows(v), req'[v] = req[v], met \subseteq met',
         data'[req[v].app] = data[req[v].app],
         \A b \in pending \cup approved : data'[b] = data[b],
         \A b \in pending' \ pending : {req[v].app, b} \in met',
         \A b \in approved' \ approved : {req[v].app, b} \in met'
  PROVE  Knows(v)'
<1> DEFINE a == req[v].app
<1>1. ASSUME NEW n, PassedUnlessMet(a, n)
      PROVE  \A j \in 1..n : LET check == Checks(data[a].kind)[j]
               IN \A b \in Rows(check.table)' :
                    Same(a, b, check.field)' => {a, b} \in met'
  <2> SUFFICES ASSUME NEW j \in 1..n, NEW b \in Rows(Checks(data[a].kind)[j].table)',
                      Same(a, b, Checks(data[a].kind)[j].field)'
               PROVE  {a, b} \in met'
    OBVIOUS
  <2> DEFINE check == Checks(data[a].kind)[j]
  <2>1. CASE b \in Rows(check.table)
    <3>1. b \in pending \cup approved
      BY <2>1 DEF Rows
    <3>2. Same(a, b, check.field)
      BY <3>1 DEF Same
    <3> QED
      BY <1>1, <2>1, <3>2 DEF PassedUnlessMet
  <2>2. CASE b \notin Rows(check.table)
    BY <2>2 DEF Rows
  <2> QED
    BY <2>1, <2>2
<1>2. ASSUME NEW n, PassedUnlessMet(a, n) PROVE PassedUnlessMet(a, n)'
  BY <1>1, <1>2 DEF PassedUnlessMet, Same
<1>3. ASSUME FreeUnlessMet(a) PROVE FreeUnlessMet(a)'
  BY <1>3 DEF FreeUnlessMet, Shares, Same
<1> QED
  BY <1>2, <1>3 DEF Knows

\* SharedKeysMet is kept when the rows that are added have met the ones they
\* share a key with.
LEMMA KeepsShared ==
  ASSUME SharedKeysMet, met \subseteq met', NEW new,
         \A b \in pending \cup approved : data'[b] = data[b],
         (pending \cup approved)' \subseteq pending \cup approved \cup {new},
         data'[new] = data[new],
         FreeUnlessMet(new) \/ (pending \cup approved)' \subseteq pending \cup approved
  PROVE  SharedKeysMet'
<1> SUFFICES ASSUME NEW a \in (pending \cup approved)', NEW b \in (pending \cup approved)',
                    a # b, NEW k \in Keys(data'[a].kind), Same(a, b, k)'
             PROVE  {a, b} \in met'
  BY DEF SharedKeysMet
<1>1. data'[a] = data[a] /\ data'[b] = data[b]
  OBVIOUS
<1>2. Same(a, b, k) /\ Same(b, a, k) /\ k \in Keys(data[b].kind)
  BY <1>1 DEF Same
<1>3. CASE a \in pending \cup approved /\ b \in pending \cup approved
  BY <1>1, <1>2, <1>3 DEF SharedKeysMet
<1>4. CASE a = new /\ FreeUnlessMet(new) /\ b \in pending \cup approved
  BY <1>1, <1>2, <1>4 DEF FreeUnlessMet, Shares
<1>5. CASE b = new /\ FreeUnlessMet(new) /\ a \in pending \cup approved
  <2>1. {b, a} \in met
    BY <1>2, <1>5 DEF FreeUnlessMet, Shares
  <2> QED
    BY <2>1
<1> QED
  BY <1>3, <1>4, <1>5

\* Every step keeps SharedInv.
LEMMA NextSharedInv ==
  IInv /\ OvertakenInv /\ SharedInv /\ [Next]_vars => SharedInv'
<1> SUFFICES ASSUME IInv, OvertakenInv, SharedInv, [Next]_vars PROVE SharedInv'
  OBVIOUS
<1> USE SignupAssumption
<1>0. req \in [Workers -> Requests] /\ req' \in [Workers -> Requests]
  BY NextIInv DEF IInv, TypeOK
<1>a. /\ MeetInv /\ FilingInv /\ SharedKeysMet
      /\ \A v \in Workers : Knows(v)
      /\ \A v \in Workers : req[v].at # "idle" =>
           req[v].app \in Apps /\ data[req[v].app] \in Forms
  BY DEF OvertakenInv, SharedInv, IInv, Filed
\* Whoever is idle knows nothing.
<1>b. \A v \in Workers : req'[v].at = "idle" => Knows(v)'
  BY DEF Knows
<1>1. ASSUME NEW w \in Workers, NEW a \in Apps, NEW form \in Forms,
             Register(w, a, form)
      PROVE  SharedInv'
  <2>1. /\ data[a] = None /\ a \notin pending \cup approved
        /\ \A x \in Apps \ {a} : data'[x] = data[x]
        /\ UNCHANGED <<pending, approved>>
        /\ met \subseteq met'
        /\ req'[w] = Serving("check", a)
        /\ \A v \in Workers \ {w} : req'[v] = req[v]
    BY <1>0, <1>1 DEF Register, IInv, Filed, TypeOK, tables
  <2>2. \A b \in pending \cup approved : b \in Apps /\ data'[b] = data[b]
    BY <2>1 DEF IInv, TypeOK
  <2>3. SharedKeysMet'
    BY ONLY <1>a, <2>1, <2>2 DEF SharedKeysMet, Same
  <2>4. ASSUME NEW v \in Workers \ {w} PROVE Knows(v)'
    <3>1. CASE req[v].at = "idle"
      BY <1>b, <2>1, <3>1
    <3>2. CASE req[v].at # "idle"
      <4>1. req[v].app \in Apps /\ req[v].app # a
        BY <1>a, <2>1, <3>2
      <4> QED
        BY <1>a, <2>1, <2>2, <4>1, KeepsKnowing
    <3> QED
      BY <3>1, <3>2
  <2>5. Knows(w)'
    <3>1. /\ req'[w].at = "check" /\ req'[w].check = 1 /\ req'[w].app = a
          /\ req'[w].check - 1 = 0
      BY <2>1 DEF Serving
    <3>2. 1 \in 1..Len(Checks(data'[a].kind))
      BY DEF Checks
    <3> QED
      BY <3>1, <3>2 DEF Knows, PassedUnlessMet
  <2> QED
    BY <2>3, <2>4, <2>5 DEF SharedInv
<1>2. ASSUME NEW w \in Workers, RunCheck(w)
      PROVE  SharedInv'
  <2>0. PICK a : a = req[w].app
    OBVIOUS
  <2>1. /\ req[w].at = "check"
        /\ req[w].check \in 1..Len(Checks(data[a].kind))
        /\ PassedUnlessMet(a, req[w].check - 1)
        /\ a \in Apps /\ data[a] \in Forms /\ a \notin pending \cup approved
    BY <2>0, <1>a, <1>2 DEF RunCheck, Knows, FilingInv, Fresh
  <2>2. /\ data' = data /\ pending' = pending /\ approved' = approved
        /\ met' = met
        /\ \A v \in Workers \ {w} : req'[v] = req[v]
    BY <2>0, <1>0, <1>2 DEF RunCheck, tables
  <2>3. ~Hit(w) => PassedUnlessMet(a, req[w].check)
    <3>1. req[w].check \in Nat
      BY <2>0, <1>0 DEF Requests
    <3>2. \A j \in 1..req[w].check : j \in 1..(req[w].check - 1) \/ j = req[w].check
      BY ONLY <3>1
    <3> QED
      BY ONLY <2>0, <2>1, <3>2 DEF Hit, PassedUnlessMet
  <2>4. SharedKeysMet'
    BY ONLY <1>a, <2>2 DEF SharedKeysMet, Same
  <2>5. \A v \in Workers \ {w} : Knows(v)'
    BY <2>0, <1>a, <2>2, KeepsKnowing
  <2>7. Knows(w)'
    <3>1. CASE Hit(w)
      BY <2>0, <3>1, <1>b, <1>2, <1>0 DEF RunCheck, Idle, Serving
    <3>2. CASE ~Hit(w) /\ ~LastCheck(w)
      <4>1. /\ req'[w].at = "check" /\ req'[w].app = a
            /\ req'[w].check = req[w].check + 1
        BY <2>0, <3>2, <1>2, <1>0 DEF RunCheck, Requests
      <4>2. Len(Checks(data[a].kind)) \in Nat
        BY DEF Checks
      <4>3. req[w].check + 1 \in 1..Len(Checks(data[a].kind))
        BY <2>0, <2>1, <3>2, <4>2 DEF LastCheck
      <4>4. req'[w].check - 1 = req[w].check
        BY <2>0, <4>1, <1>0 DEF Requests
      <4>5. PassedUnlessMet(req[w].app, req[w].check - 1)'
        <5>1. PICK n : n = req[w].check
          OBVIOUS
        <5>2. PassedUnlessMet(a, n)
          BY <2>0, <2>3, <3>2, <5>1
        <5>3. PassedUnlessMet(a, n)'
          BY ONLY <2>2, <5>2 DEF PassedUnlessMet, Rows, Same
        <5> QED
          BY <2>0, <4>1, <4>4, <5>1, <5>3
      <4> QED
        BY <2>0, <2>2, <4>1, <4>3, <4>4, <4>5 DEF Knows
    <3>3. CASE ~Hit(w) /\ LastCheck(w)
      <4>1. req'[w].at = "insert" /\ req'[w].app = a
        BY <2>0, <3>3, <1>2, <1>0 DEF RunCheck, Serving
      <4>2. FreeUnlessMet(a)
        BY <2>0, <2>1, <2>3, <3>3, PassedAll DEF LastCheck
      <4>3. \A b \in (pending \cup approved) \ {a} : Shares(a, b)' => {a, b} \in met'
        BY <2>0, <2>2, <4>2 DEF FreeUnlessMet, Shares, Same
      <4> QED
        BY ONLY <2>2, <4>1, <4>3 DEF Knows, FreeUnlessMet, Shares, Same
    <3> QED
      BY <2>0, <3>1, <3>2, <3>3
  <2> QED
    BY <2>0, <2>4, <2>5, <2>7 DEF SharedInv
\* A worker goes on with, or ends, an application it may write.
<1>c. ASSUME NEW w \in Workers, req[w].at # "idle",
             \A v \in Workers \ {w} : req'[v] = req[v],
             data' = data, met' = met,
             pending' \subseteq pending \cup {req[w].app},
             approved' \subseteq approved \cup {req[w].app},
             \/ FreeUnlessMet(req[w].app)
             \/ (pending \cup approved)' \subseteq pending \cup approved,
             Knows(w)'
      PROVE  SharedInv'
  <2>1. SharedKeysMet'
    BY <1>a, <1>c, KeepsShared
  <2>2. ASSUME NEW v \in Workers \ {w} PROVE Knows(v)'
    <3>1. CASE req[v].at = "idle"
      BY <1>b, <1>c, <3>1
    <3>2. CASE req[v].at # "idle"
      <4>1. {req[v].app, req[w].app} \in met
        BY <1>a, <1>c, <3>2 DEF MeetInv
      <4> QED
        BY <1>a, <1>c, <4>1, KeepsKnowing
    <3> QED
      BY <3>1, <3>2
  <2> QED
    BY <1>c, <2>1, <2>2 DEF SharedInv
<1>3. ASSUME NEW w \in Workers, InsertPending(w)
      PROVE  SharedInv'
  <2>0. PICK a : a = req[w].app
    OBVIOUS
  <2>1. /\ req[w].at = "insert" /\ FreeUnlessMet(a)
        /\ data' = data /\ met' = met /\ approved' = approved
        /\ pending' \subseteq pending \cup {a}
        /\ \A v \in Workers \ {w} : req'[v] = req[v]
        /\ req'[w].at \in {"idle", "finish"}
        /\ req'[w].at = "idle" \/ req'[w].app = a
    BY <2>0, <1>0, <1>a, <1>3 DEF InsertPending, Knows, Idle, Serving
  <2>2. \A b \in (pending \cup approved)' \ {a} : Shares(a, b)' => {a, b} \in met'
    BY <2>0, <2>1 DEF FreeUnlessMet, Shares, Same
  <2>3. CASE req'[w].at = "idle"
    BY <1>b, <1>c, <2>0, <2>1, <2>3
  <2>4. CASE req'[w].at = "finish"
    <3>1. FreeUnlessMet(req[w].app)'
      <4>1. (req[w].app)' = a
        BY <2>1, <2>4
      <4> QED
        BY <2>2, <4>1 DEF FreeUnlessMet, Shares, Same
    <3>2. Knows(w)'
      BY <2>4, <3>1 DEF Knows
    <3> QED
      BY <1>c, <2>0, <2>1, <3>2
  <2> QED
    BY <2>1, <2>3, <2>4
<1>4. ASSUME NEW w \in Workers,
             FinishPending(w) \/ FinishFails(w) \/ StaffAdmit(w) \/ Refuse(w)
      PROVE  SharedInv'
  <2>1. /\ req[w].at # "idle" /\ req'[w].at = "idle"
        /\ data' = data /\ met' = met
        /\ \A v \in Workers \ {w} : req'[v] = req[v]
        /\ pending' \subseteq pending \cup {req[w].app}
        /\ approved' \subseteq approved \cup {req[w].app}
    BY <1>0, <1>4 DEF FinishPending, FinishFails, StaffAdmit, Refuse, Idle,
                      Serving, tables
  <2>2. \/ FreeUnlessMet(req[w].app)
        \/ (pending \cup approved)' \subseteq pending \cup approved
    BY <1>a, <1>4 DEF FinishPending, FinishFails, StaffAdmit, Refuse, Knows, tables
  <2> QED
    BY <1>b, <1>c, <2>1, <2>2
<1>5. ASSUME NEW w \in Workers, NEW batch \in SUBSET Apps, AdminApprove(w, batch)
      PROVE  SharedInv'
  <2>1. /\ (pending \cup approved)' = pending \cup approved
        /\ pending' \subseteq pending /\ approved' = approved \cup batch
        /\ met' = met \cup Meeting(w, batch)
        /\ data' = data /\ req' = req /\ req[w].at = "idle"
    BY <1>5 DEF AdminApprove, Idle, Serving
  <2>2. SharedKeysMet'
    BY <1>a, <2>1 DEF SharedKeysMet, Same
  <2>3. ASSUME NEW v \in Workers PROVE Knows(v)'
    <3>1. CASE req[v].at = "idle"
      BY <1>b, <2>1, <3>1
    <3>2. CASE req[v].at # "idle"
      <4>1. ASSUME NEW b \in batch PROVE {req[v].app, b} \in met'
        <5>1. {b, req[v].app} \in Meeting(w, batch)
          BY <2>1, <3>2 DEF Meeting
        <5>2. {b, req[v].app} = {req[v].app, b}
          OBVIOUS
        <5> QED
          BY <2>1, <5>1, <5>2
      <4> QED
        BY <1>a, <2>1, <4>1, KeepsKnowing
    <3> QED
      BY <3>1, <3>2
  <2> QED
    BY <2>2, <2>3 DEF SharedInv
<1>6. ASSUME NEW w \in Workers, NEW a \in Apps,
             StaffRead(w, a) \/ RefuseRead(w, a)
      PROVE  SharedInv'
  <2>1. /\ a \in pending
        /\ data' = data /\ pending' = pending /\ approved' = approved
        /\ met \subseteq met'
        /\ \A v \in Workers \ {w} : req'[v] = req[v]
        /\ req'[w].app = a /\ req'[w].at \in {"admit", "refuse"}
    BY <1>0, <1>6 DEF StaffRead, RefuseRead, Serving, tables
  <2>2. SharedKeysMet'
    BY <1>a, <2>1 DEF SharedKeysMet, Same
  <2>3. \A v \in Workers \ {w} : Knows(v)'
    BY <1>a, <2>1, KeepsKnowing
  <2>4. \A b \in (pending \cup approved)' \ {a} : Shares(a, b)' => {a, b} \in met'
    BY <2>1, <2>2 DEF SharedKeysMet, Shares
  <2>5. Knows(w)'
    BY <2>1, <2>4 DEF Knows, FreeUnlessMet, Shares, Same
  <2> QED
    BY <2>2, <2>3, <2>5 DEF SharedInv
<1>7. ASSUME data' = data, req' = req, met' = met, pending' \subseteq pending,
             approved' \subseteq approved
      PROVE  SharedInv'
  <2>1. SharedKeysMet'
    BY <1>a, <1>7 DEF SharedKeysMet, Same
  <2>2. \A v \in Workers : Knows(v)'
    BY <1>a, <1>7, KeepsKnowing
  <2> QED
    BY <2>1, <2>2 DEF SharedInv
<1>8. ASSUME NEW w \in Workers, NEW a \in Apps, DeleteAccount(w, a)
      PROVE  SharedInv'
  BY <1>7, <1>8 DEF DeleteAccount
<1>9. ASSUME NEW w \in Workers, NEW batch \in SUBSET Apps, NEW done \in SUBSET Apps,
             AdminApproveFails(w, batch, done)
      PROVE  SharedInv'
  BY <1>7, <1>9 DEF AdminApproveFails, tables
<1>10. CASE UNCHANGED vars
  BY <1>7, <1>10 DEF vars, tables
<1> QED
  BY <1>1, <1>2, <1>3, <1>4, <1>5, <1>6, <1>8, <1>9, <1>10 DEF Next

\* With any number of workers, two rows share a key that the serializers look
\* up only if their applications were in hand at the same time: no lookup
\* misses a row for any other reason.
THEOREM SharedKeysMetCorrect == Spec => []SharedKeysMet
<1>1. Init => IInv /\ OvertakenInv /\ SharedInv
  <2>1. Init => OvertakenInv
    BY DEF Init, OvertakenInv, MeetInv, FilingInv, RowInv, RefusalOvertaken,
           Idle, Serving
  <2>2. Init => SharedInv
    BY DEF Init, SharedInv, SharedKeysMet, Knows, Idle, Serving
  <2> QED
    BY <2>1, <2>2, InitIInv
<1>2. (IInv /\ OvertakenInv /\ SharedInv) /\ [Next]_vars
        => (IInv /\ OvertakenInv /\ SharedInv)'
  BY NextIInv, NextOvertakenInv, NextSharedInv
<1>3. SharedInv => SharedKeysMet
  BY DEF SharedInv
<1> QED
  BY <1>1, <1>2, <1>3, PTL DEF Spec

-----------------------------------------------------------------------------
(* Reports on persons *)

\* No transaction over persons reports an approval it rolls back: a person
\* reported approved has an account, or had one until an administrator
\* deleted it.
THEOREM PersonReportsTrue == Spec => []ReportTrue
<1>1. Init => IInv /\ ReportTrue
  BY InitIInv DEF Init, ReportTrue
<1>2. (IInv /\ ReportTrue) /\ [Next]_vars => (IInv /\ ReportTrue)'
  <2> SUFFICES ASSUME IInv, ReportTrue, [Next]_vars PROVE ReportTrue'
    BY NextIInv
  <2> USE DEF ReportTrue
  <2>1. ASSUME NEW w \in Workers, NEW a \in Apps, NEW form \in Forms,
               Register(w, a, form)
        PROVE  ReportTrue'
    <3>1. a \notin reported
      BY <2>1, SignupAssumption DEF Register, IInv, Filed
    <3> QED
      BY <2>1, <3>1 DEF Register, IInv, TypeOK, tables, replies
  <2>2. ASSUME NEW w \in Workers,
               RunCheck(w) \/ InsertPending(w) \/ FinishPending(w)
                 \/ FinishFails(w) \/ StaffAdmit(w) \/ Refuse(w)
        PROVE  ReportTrue'
    BY <2>2 DEF RunCheck, InsertPending, FinishPending, FinishFails,
                StaffAdmit, Refuse, tables, replies
  <2>3. ASSUME NEW w \in Workers, NEW batch \in SUBSET Apps,
               AdminApprove(w, batch)
        PROVE  ReportTrue'
    BY <2>3 DEF AdminApprove
  <2>4. ASSUME NEW w \in Workers, NEW batch \in SUBSET Apps,
               NEW done \in SUBSET Apps, AdminApproveFails(w, batch, done)
        PROVE  ReportTrue'
    BY <2>4 DEF AdminApproveFails, tables
  <2>5. ASSUME NEW w \in Workers, NEW a \in Apps,
               StaffRead(w, a) \/ RefuseRead(w, a) \/ DeleteAccount(w, a)
        PROVE  ReportTrue'
    BY <2>5 DEF StaffRead, RefuseRead, DeleteAccount, tables, replies
  <2>6. CASE UNCHANGED vars
    BY <2>6 DEF vars, tables, replies
  <2> QED
    BY <2>1, <2>2, <2>3, <2>4, <2>5, <2>6 DEF Next
<1> QED
  BY <1>1, <1>2, PTL DEF Spec

=============================================================================
