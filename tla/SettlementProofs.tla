-------------------------- MODULE SettlementProofs --------------------------
(***************************************************************************)
(* More invariants of Payments, on top of IInv: what the bank's pages lead *)
(* back to, how the discount counter follows the payments, when an intent  *)
(* is settled, and what a paid one can lose its status to.                 *)
(***************************************************************************)
EXTENDS PaymentsProofs, FiniteSetTheorems

-----------------------------------------------------------------------------
(* What a step may change *)

\* Creating an intent.
Creates(i) ==
  /\ status[i] = "absent"
  /\ \E code \in BOOLEAN : coded' = [coded EXCEPT ![i] = code]
  /\ status' = [status EXCEPT ![i] = "initiated"]
  /\ UNCHANGED <<token, refId, settled, codeVars, opened, req>>

\* Writing "failed".
Fails(w) == StartInitFails(w) \/ ResultFail(w) \/ CallbackFail(w)

\* A request is taken up, goes on, or ends, the bank or a group changes: no
\* intent and no counter does.
Quiet == UNCHANGED <<status, coded, token, refId, settled, codeVars, opened>>

\* What becomes of a request in such a step.
Moves(w) ==
  LET r == req'[w]
      Read == r.seen = settled[r.intent]
      Kept == r.intent = req[w].intent /\ r.seen = req[w].seen IN
  \/ r = req[w]
  \/ r.at = "idle"
  \/ r.at \in {"dispatch", "fail", "settle"} /\ status[r.intent] # "paid" /\ Read
  \/ r.at = "redirect" /\ At(w, "dispatch") /\ Kept
  \/ r.at = "finalize" /\ (Read \/ (Kept /\ ~At(w, "idle")))
  \/ /\ r.at \in InTransaction /\ r.used = usedCount
     /\ ~At(w, "idle") /\ Kept
     /\ ~Locked(r.intent) /\ status[r.intent] # "paid"
     /\ \A v \in Workers : v # w => req'[v] = req[v]
  \/ r.at \in {"callbackPaid", "callbackFail"} /\ Read

LEMMA TakeLockMoves ==
  ASSUME IInv, NEW w \in Workers, NEW v \in Workers,
         StartFree(w) \/ ResultSettle(w) \/ CallbackPaid(w)
  PROVE  Quiet /\ Moves(v)
  <1>1. Quiet
    BY DEF Quiet, StartFree, ResultSettle, CallbackPaid, MarkPaidBegin, intentVars,
           bankVars
  <1>2. req \in [Workers -> Requests]
    BY DEF IInv, TypeOK
  <1>3. PICK txn \in InTransaction, next \in {"idle", "finalize"} :
          /\ MarkPaidBegin(w, txn, next) /\ ~At(w, "idle") /\ ~At(w, "finalize")
    BY DEF StartFree, ResultSettle, CallbackPaid, At, InTransaction
  <1>4. CASE v # w
    <2>1. req'[v] = req[v]
      BY <1>2, <1>3, <1>4 DEF MarkPaidBegin
    <2> QED
      BY <1>1, <2>1 DEF Moves
  <1>5. CASE v = w
    <2>1. CASE status[req[w].intent] = "paid"
      <3>1. /\ req'[w].at = next
            /\ next = "finalize" => /\ req'[w].intent = req[w].intent
                                    /\ req'[w].seen = req[w].seen
        BY <1>2, <1>3, <2>1 DEF MarkPaidBegin, NoRequest, Request, Requests
      <3> QED
        BY <1>1, <1>3, <1>5, <3>1 DEF Moves
    <2>2. CASE status[req[w].intent] # "paid"
      <3>1. /\ req'[w].at = txn /\ req'[w].used = usedCount
            /\ req'[w].intent = req[w].intent /\ req'[w].seen = req[w].seen
            /\ ~Locked(req[w].intent)
            /\ \A u \in Workers : u # w => req'[u] = req[u]
        BY <1>2, <1>3, <2>2 DEF MarkPaidBegin, Requests
      <3> QED
        BY <1>1, <1>3, <1>5, <2>2, <3>1 DEF Moves
    <2> QED
      BY <2>1, <2>2
  <1> QED
    BY <1>4, <1>5

\* A request of worker w is replaced by r.
LEMMA ReplaceMoves ==
  ASSUME IInv, NEW w \in Workers, NEW v \in Workers, NEW r,
         req' = [req EXCEPT ![w] = r],
         \/ r.at = "idle"
         \/ /\ r.at \in {"dispatch", "fail", "settle"} /\ status[r.intent] # "paid"
            /\ r.seen = settled[r.intent]
         \/ /\ r.at = "redirect" /\ At(w, "dispatch")
            /\ r.intent = req[w].intent /\ r.seen = req[w].seen
         \/ r.at = "finalize" /\ r.seen = settled[r.intent]
         \/ r.at \in {"callbackPaid", "callbackFail"} /\ r.seen = settled[r.intent]
  PROVE  Moves(v)
  <1>1. req \in [Workers -> Requests]
    BY DEF IInv, TypeOK
  <1>2. req'[v] = IF v = w THEN r ELSE req[v]
    BY <1>1
  <1> QED
    BY <1>2 DEF Moves

\* The end of a request.
LEMMA DoneMoves ==
  ASSUME IInv, NEW w \in Workers, NEW v \in Workers, Done(w)
  PROVE  Moves(v)
  <1>1. NoRequest.at = "idle"
    BY DEF NoRequest, Request
  <1> QED
    BY <1>1, ReplaceMoves DEF Done

LEMMA RequestMoves ==
  ASSUME IInv, NEW w \in Workers, NEW v \in Workers,
         \/ \E i \in Intents, gw \in Gateways : StartBegin(w, i, gw)
         \/ \E b \in Banks : ResultRequest(w, b) \/ CallbackRequest(w, b)
         \/ \E b \in Banks : StartReady(w, b)
  PROVE  Quiet /\ Moves(v)
  <1>1. Quiet
    BY DEF Quiet, StartBegin, ResultRequest, CallbackRequest, StartReady, intentVars,
           bankVars
  <1>2. ASSUME NEW i \in Intents, NEW gw \in Gateways, StartBegin(w, i, gw)
        PROVE  Moves(v)
    <2> DEFINE r == Request("dispatch", i, None, gw, settled[i])
    <2>1. /\ r.at = "dispatch" /\ r.intent = i /\ r.seen = settled[i]
          /\ status[i] # "paid"
          /\ req' = [req EXCEPT ![w] = r]
      BY <1>2 DEF StartBegin, Request
    <2> HIDE DEF r
    <2> QED
      BY <2>1, ReplaceMoves
  <1>3. ASSUME NEW b \in Banks, ResultRequest(w, b) PROVE Moves(v)
    <2>1. PICK i \in Intents :
            req' = [req EXCEPT ![w] =
                 Request(IF ~isSuccess[b] THEN "fail"
                         ELSE IF status[i] = "paid" THEN "finalize" ELSE "settle",
                         i, b, "sadad", settled[i])]
            /\ (isSuccess[b] \/ status[i] # "paid")
      BY <1>3 DEF ResultRequest
    <2> DEFINE r == Request(IF ~isSuccess[b] THEN "fail"
                            ELSE IF status[i] = "paid" THEN "finalize" ELSE "settle",
                            i, b, "sadad", settled[i])
    <2>2. /\ r.intent = i /\ r.seen = settled[i]
          /\ \/ r.at = "fail" /\ status[i] # "paid"
             \/ r.at = "settle" /\ status[i] # "paid"
             \/ r.at = "finalize"
      BY <2>1 DEF Request
    <2>3. req' = [req EXCEPT ![w] = r]
      BY <2>1
    <2> HIDE DEF r
    <2> QED
      BY <2>2, <2>3, ReplaceMoves
  <1>4. ASSUME NEW b \in Banks, CallbackRequest(w, b) PROVE Moves(v)
    <2>1. PICK i \in Intents :
            req' = [req EXCEPT ![w] =
                 Request(IF isSuccess[b] THEN "callbackPaid" ELSE "callbackFail",
                         i, b, "sadad", settled[i])]
      BY <1>4 DEF CallbackRequest
    <2> DEFINE r == Request(IF isSuccess[b] THEN "callbackPaid" ELSE "callbackFail",
                            i, b, "sadad", settled[i])
    <2>2. r.at \in {"callbackPaid", "callbackFail"} /\ r.seen = settled[r.intent]
      BY DEF Request
    <2>3. req' = [req EXCEPT ![w] = r]
      BY <2>1
    <2> HIDE DEF r
    <2> QED
      BY <2>2, <2>3, ReplaceMoves
  <1>5. ASSUME NEW b \in Banks, StartReady(w, b) PROVE Moves(v)
    <2> DEFINE r == [req[w] EXCEPT !.at = "redirect", !.bank = b]
    <2>1. req \in [Workers -> Requests]
      BY DEF IInv, TypeOK
    <2>2. req' = [req EXCEPT ![w] = r] /\ At(w, "dispatch")
      BY <1>5, <2>1 DEF StartReady, AtBank
    <2>3. r.at = "redirect" /\ r.intent = req[w].intent /\ r.seen = req[w].seen
      BY <2>1 DEF Requests
    <2> HIDE DEF r
    <2> QED
      BY <2>2, <2>3, ReplaceMoves
  <1> QED
    BY <1>1, <1>2, <1>3, <1>4, <1>5

\* Every step is of one of five kinds.
LEMMA StepKinds ==
  ASSUME IInv, [Next]_vars
  PROVE  \/ Quiet /\ \A v \in Workers : Moves(v)
         \/ \E i \in Intents : Creates(i)
         \/ \E w \in Workers : StartRedirect(w) \/ Fails(w)
         \/ \E w \in Workers : ResultCommit(w) \/ MarkCommit(w)
  <1> DEFINE Goal == \/ Quiet /\ \A v \in Workers : Moves(v)
                     \/ \E i \in Intents : Creates(i)
                     \/ \E w \in Workers : StartRedirect(w) \/ Fails(w)
                     \/ \E w \in Workers : ResultCommit(w) \/ MarkCommit(w)
  <1>1. ASSUME NEW i \in Intents, NEW base \in Bases, NEW code \in BOOLEAN,
               \/ \E g \in Intents \cup {None} : CreateIntent(i, base, code, g)
               \/ CoachRegister(i, base, code)
        PROVE  Goal
    <2>1. Creates(i)
      BY <1>1 DEF Creates, CreateIntent, CoachRegister, NewIntent, Unused, bankVars
    <2> QED
      BY <2>1
  <1>2. ASSUME Quiet, UNCHANGED req PROVE Goal
    <2>1. \A v \in Workers : Moves(v)
      BY <1>2 DEF Moves
    <2> QED
      BY <1>2, <2>1
  <1>3. ASSUME NEW w \in Workers,
               StartRefused(w) \/ ResultFinalize(w) \/ ResultFinalizeFails(w) \/ Crash(w)
        PROVE  Goal
    <2>1. Quiet /\ Done(w)
      BY <1>3 DEF Quiet, StartRefused, ResultFinalize, ResultFinalizeFails, Crash,
                  intentVars, bankVars
    <2> QED
      BY <2>1, DoneMoves
  <1>4. ASSUME NEW w \in Workers, Serve(w) PROVE Goal
    <2>1. CASE StartFree(w) \/ ResultSettle(w) \/ CallbackPaid(w)
      BY <2>1, TakeLockMoves DEF Quiet
    <2>2. CASE \E b \in Banks : StartReady(w, b)
      BY <2>2, RequestMoves DEF Quiet
    <2> QED
      BY <1>3, <1>4, <2>1, <2>2 DEF Serve, Fails
  <1>5. ASSUME NEW w \in Workers,
               \/ \E i \in Intents, gw \in Gateways : StartBegin(w, i, gw)
               \/ \E b \in Banks : ResultRequest(w, b) \/ CallbackRequest(w, b)
        PROVE  Goal
    BY <1>5, RequestMoves DEF Quiet
  <1>6. ASSUME \/ \E i \in Intents, base \in Bases, code \in BOOLEAN :
                    CoachRegisterFree(i, base, code)
               \/ \E b \in Banks : CallbackVerify(b)
               \/ \E b \in Banks, outcome \in {"charged", "declined"} :
                    PayerActs(b, outcome)
               \/ \E b, c \in Banks : GoToBank(b, c)
               \/ \E i \in Intents : BankReturn(i)
               \/ UNCHANGED vars
        PROVE  Quiet /\ UNCHANGED req
    BY <1>6 DEF Quiet, CoachRegisterFree, CallbackVerify, PayerActs, GoToBank, BankReturn,
                vars, intentVars, codeVars, bankVars
  <1> HIDE DEF Goal
  <1>7. Goal
    BY <1>1, <1>2, <1>3, <1>4, <1>5, <1>6 DEF Next
  <1> QED
    BY <1>7 DEF Goal

-----------------------------------------------------------------------------
(* The first and the last page lead back *)

LEMMA AttemptStep ==
  ASSUME IInv, AttemptInv, [Next]_vars PROVE AttemptInv'
  <1>1. ASSUME UNCHANGED <<token, refId, settled, opened>> PROVE AttemptInv'
    BY <1>1 DEF AttemptInv
  <1>2. ASSUME NEW w \in Workers, StartRedirect(w) PROVE AttemptInv'
    <2> DEFINE i == req[w].intent
               b == req[w].bank
    <2>1. i \in Intents /\ b \in Banks
      BY <1>2 DEF StartRedirect, IInv, RequestInv, At
    <2>2. /\ token' = [token EXCEPT ![i] = b]
          /\ refId' = [refId EXCEPT ![i] = IF @ = None THEN b ELSE @]
          /\ opened' = [opened EXCEPT ![i] = Append(@, b)]
          /\ settled' = settled
      BY <1>2 DEF StartRedirect
    <2>3. /\ token \in [Intents -> Banks \cup {None}]
          /\ refId \in [Intents -> Banks \cup {None, Receipt}]
          /\ opened \in [Intents -> Seq(Banks)]
      BY DEF IInv, TypeOK
    <2> HIDE DEF i, b
    <2> SUFFICES ASSUME NEW j \in Intents, settled[j] = 0
                 PROVE  IF opened'[j] = <<>>
                          THEN token'[j] = None /\ refId'[j] = None
                          ELSE /\ refId'[j] = Head(opened'[j])
                               /\ token'[j] = opened'[j][Len(opened'[j])]
      BY <2>2 DEF AttemptInv
    <2>4. CASE j # i
      <3>1. token'[j] = token[j] /\ refId'[j] = refId[j] /\ opened'[j] = opened[j]
        BY <2>2, <2>3, <2>4
      <3> QED
        BY <3>1 DEF AttemptInv
    <2>5. CASE j = i
      <3> DEFINE s == opened[i]
      <3>1. s \in Seq(Banks) /\ opened'[j] = Append(s, b) /\ token'[j] = b
            /\ refId'[j] = IF refId[i] = None THEN b ELSE refId[i]
        BY <2>1, <2>2, <2>3, <2>5
      <3>2. /\ s = <<>> => refId[i] = None
            /\ s # <<>> => refId[i] = Head(s)
        BY <2>5 DEF AttemptInv
      <3> HIDE DEF s
      <3>3. /\ Append(s, b) # <<>>
            /\ Append(s, b)[Len(Append(s, b))] = b
            /\ s = <<>> => Head(Append(s, b)) = b
            /\ s # <<>> => Head(Append(s, b)) = Head(s) /\ Head(s) \in Banks
        BY <2>1, <3>1
      <3> QED
        BY <3>1, <3>2, <3>3, PaymentsAssumption
    <2> QED
      BY <2>4, <2>5
  <1>3. ASSUME NEW w \in Workers, ResultCommit(w) \/ MarkCommit(w) PROVE AttemptInv'
    <2> DEFINE i == req[w].intent
    <2>1. i \in Intents
      BY <1>3 DEF ResultCommit, MarkCommit, IInv, RequestInv, At
    <2>2. MarkPaidCommit(w)
      BY <1>3 DEF ResultCommit, MarkCommit
    <2>3. /\ refId' = [refId EXCEPT ![i] =
                         IF req[w].bank = None /\ @ # None THEN @ ELSE Receipt]
          /\ settled' = [settled EXCEPT ![i] = @ + 1]
          /\ token' = token /\ opened' = opened
      BY <2>2 DEF MarkPaidCommit, bankVars
    <2>4. settled \in [Intents -> Nat] /\ DOMAIN refId = Intents
      BY DEF IInv, TypeOK
    <2> HIDE DEF i
    <2>5. \A j \in Intents : settled'[j] = 0 =>
            settled[j] = 0 /\ refId'[j] = refId[j]
      BY <2>1, <2>3, <2>4
    <2> QED
      BY <2>3, <2>5 DEF AttemptInv
  <1>4. CASE Quiet
    BY <1>1, <1>4 DEF Quiet
  <1>5. CASE \E i \in Intents : Creates(i)
    BY <1>1, <1>5 DEF Creates
  <1>6. CASE \E w \in Workers : Fails(w)
    BY <1>1, <1>6 DEF Fails, StartInitFails, ResultFail, CallbackFail, bankVars
  <1> QED
    BY <1>2, <1>3, <1>4, <1>5, <1>6, StepKinds

LEMMA AttemptInvariance == Spec => [](IInv /\ AttemptInv)
  <1>1. Init => AttemptInv
    BY DEF Init, AttemptInv
  <1> QED
    BY <1>1, AttemptStep, InitIInv, NextIInv, PTL DEF Spec

\* Of an intent that is not settled, the first and the last page of the bank
\* lead back to it (StartPaymentView, payment_result_redirect).
THEOREM FirstAndLastResolveCorrect == Spec => []FirstAndLastResolve
  <1>1. ASSUME IInv, AttemptInv PROVE FirstAndLastResolve
    <2> SUFFICES ASSUME NEW i \in Intents, settled[i] = 0, opened[i] # <<>>
                 PROVE  /\ Resolves(Head(opened[i]), i)
                        /\ Resolves(opened[i][Len(opened[i])], i)
      BY DEF FirstAndLastResolve
    <2>1. refId[i] = Head(opened[i]) /\ token[i] = opened[i][Len(opened[i])]
      BY <1>1 DEF AttemptInv
    <2>2. refId[i] \in Banks
      <3>1. opened[i] \in Seq(Banks)
        BY <1>1 DEF IInv, TypeOK
      <3> QED
        BY <2>1, <3>1
    <2>3. owner[refId[i]] = i
      BY <1>1, <2>2 DEF IInv, LinkInv
    <2>4. \A j \in Intents : token[j] = refId[i] => j = i
      BY <1>1, <2>2, <2>3, PaymentsAssumption DEF IInv, LinkInv
    <2> QED
      BY <2>1, <2>4 DEF Resolves
  <1> QED
    BY <1>1, AttemptInvariance, PTL

-----------------------------------------------------------------------------
(* The counter of the code *)

LEMMA SettlementsFinite ==
  ASSUME IInv
  PROVE  IsFiniteSet(CodedSettlements) /\ Cardinality(CodedSettlements) \in Nat
  <1> DEFINE C == {j \in Intents : coded[j]}
             P(i) == {i} \X (1..settled[i])
             Parts == {P(i) : i \in C}
  <1>1. IsFiniteSet(C)
    BY PaymentsAssumption, FS_Subset
  <1>2. ASSUME NEW i \in C PROVE IsFiniteSet(P(i))
    <2>1. settled[i] \in Nat
      BY DEF IInv, TypeOK
    <2>2. IsFiniteSet(1..settled[i]) /\ IsFiniteSet({i})
      <3>1. \A n \in Nat : IsFiniteSet(1..n)
        BY FS_Interval
      <3> QED
        BY <2>1, <3>1, FS_Singleton
    <2> QED
      BY <2>2, FS_Product
  <1>3. IsFiniteSet(Parts)
    <2> DEFINE f == [i \in C |-> P(i)]
    <2>1. f \in Surjection(C, Parts)
      BY DEF Surjection
    <2> QED
      BY <1>1, <2>1, FS_Surjection
  <1>4. \A S \in Parts : IsFiniteSet(S)
    BY <1>2
  <1>5. IsFiniteSet(UNION Parts)
    BY <1>3, <1>4, FS_UNION
  <1> QED
    BY <1>5, FS_CardinalityType DEF CodedSettlements

LEMMA SettlementsSame ==
  ASSUME \A i \in Intents : \/ coded'[i] = coded[i] /\ settled'[i] = settled[i]
                            \/ settled[i] = 0 /\ settled'[i] = 0
                            \/ ~coded[i] /\ ~coded'[i]
  PROVE  CodedSettlements' = CodedSettlements
  <1>1. \A x : x \in CodedSettlements <=>
          \E i \in Intents : coded[i] /\ x \in {i} \X (1..settled[i])
    BY DEF CodedSettlements
  <1>2. \A x : x \in CodedSettlements' <=>
          \E i \in Intents : coded'[i] /\ x \in {i} \X (1..settled'[i])
    BY DEF CodedSettlements
  <1>3. \A i \in Intents :
          (coded[i] /\ 1..settled[i] # {}) \/ (coded'[i] /\ 1..settled'[i] # {}) =>
            coded'[i] = coded[i] /\ settled'[i] = settled[i]
    OBVIOUS
  <1> QED
    BY <1>1, <1>2, <1>3

\* A payment adds itself, if it was made with the code.
LEMMA SettlementAdded ==
  ASSUME IInv, NEW i \in Intents, settled' = [settled EXCEPT ![i] = @ + 1],
         coded' = coded
  PROVE  Cardinality(CodedSettlements') =
           Cardinality(CodedSettlements) + (IF coded[i] THEN 1 ELSE 0)
  <1>1. settled \in [Intents -> Nat] /\ IsFiniteSet(CodedSettlements)
        /\ Cardinality(CodedSettlements) \in Nat
    BY SettlementsFinite DEF IInv, TypeOK
  <1>2. \A j \in Intents : settled'[j] = IF j = i THEN settled[i] + 1 ELSE settled[j]
    BY <1>1
  <1>3. CASE ~coded[i]
    <2>1. CodedSettlements' = CodedSettlements
      BY <1>2, <1>3, SettlementsSame
    <2> QED
      BY <1>1, <1>3, <2>1
  <1>4. CASE coded[i]
    <2> DEFINE x == <<i, settled[i] + 1>>
    <2>1. \A y : y \in CodedSettlements <=>
            \E j \in Intents : coded[j] /\ y \in {j} \X (1..settled[j])
      BY DEF CodedSettlements
    <2>2. \A y : y \in CodedSettlements' <=>
            \E j \in Intents : coded[j] /\ y \in {j} \X (1..settled'[j])
      BY DEF CodedSettlements
    <2>3. {i} \X (1..settled'[i]) = ({i} \X (1..settled[i])) \cup {x}
      <3>1. 1..settled'[i] = (1..settled[i]) \cup {settled[i] + 1}
        BY <1>1, <1>2
      <3> QED
        BY <3>1
    <2>4. CodedSettlements' = CodedSettlements \cup {x}
      <3>1. \A j \in Intents : j # i => settled'[j] = settled[j]
        BY <1>2
      <3> HIDE DEF x
      <3>2. \A y : y \in CodedSettlements' <=> y \in CodedSettlements \/ y = x
        BY <1>4, <2>1, <2>2, <2>3, <3>1
      <3> QED
        BY <3>2
    <2>5. x \notin CodedSettlements
      <3> SUFFICES ASSUME NEW j \in Intents, x \in {j} \X (1..settled[j]) PROVE FALSE
        BY <2>1
      <3>1. j = i /\ settled[i] + 1 \in 1..settled[j]
        OBVIOUS
      <3> QED
        BY <1>1, <3>1
    <2> HIDE DEF x
    <2>6. Cardinality(CodedSettlements') = Cardinality(CodedSettlements) + 1
      BY <1>1, <2>4, <2>5, FS_AddElement
    <2> QED
      BY <1>4, <2>6
  <1> QED
    BY <1>3, <1>4

\* A request that ends, or one that commits and goes on, holds no lock.
LEMMA Unlocks ==
  ASSUME IInv, NEW w \in Workers, NEW v \in Workers,
         Done(w) \/ (Goto(w, "finalize") /\ ~At(w, "idle")),
         req'[v].at \in InTransaction
  PROVE  v # w /\ req'[v] = req[v]
  <1>1. req \in [Workers -> Requests]
    BY DEF IInv, TypeOK
  <1>2. req'[w].at \in {"idle", "finalize"}
    BY <1>1 DEF Done, Goto, NoRequest, Request, Requests
  <1>3. v # w
    BY <1>2 DEF InTransaction
  <1> QED
    BY <1>1, <1>3 DEF Done, Goto

LEMMA CountStep ==
  ASSUME IInv, CountInv, [Next]_vars PROVE CountInv'
  <1> DEFINE n == Cardinality(CodedSettlements)
  <1>1. /\ n \in Nat /\ usedCount \in Nat /\ usedCount <= n
        /\ \A v \in Workers : req[v].at \in InTransaction => req[v].used <= n
        /\ settled \in [Intents -> Nat] /\ coded \in [Intents -> BOOLEAN]
        /\ \A v \in Workers : req[v].used \in Nat
    BY SettlementsFinite DEF CountInv, NeverOvercounts, IInv, TypeOK, Requests
  <1>2. CASE Quiet /\ \A v \in Workers : Moves(v)
    <2>1. CodedSettlements' = CodedSettlements /\ usedCount' = usedCount
      BY <1>2, SettlementsSame DEF Quiet, codeVars
    <2>2. ASSUME NEW v \in Workers, req'[v].at \in InTransaction
          PROVE  req'[v].used <= n
      <3>1. req'[v] = req[v] \/ req'[v].used = usedCount
        BY <1>2, <2>2 DEF Moves, InTransaction
      <3> QED
        BY <1>1, <2>2, <3>1
    <2> QED
      BY <1>1, <2>1, <2>2 DEF CountInv, NeverOvercounts
  <1>3. CASE \E i \in Intents : Creates(i)
    <2>1. PICK i \in Intents : Creates(i)
      BY <1>3
    <2>2. settled[i] = 0
      BY <1>1, <2>1 DEF Creates, IInv, SettledInv
    <2>3. /\ settled' = settled /\ usedCount' = usedCount /\ req' = req
          /\ \A j \in Intents : j # i => coded'[j] = coded[j]
      BY <1>1, <2>1 DEF Creates, codeVars
    <2>4. CodedSettlements' = CodedSettlements
      BY <2>2, <2>3, SettlementsSame
    <2> QED
      BY <1>1, <2>3, <2>4 DEF CountInv, NeverOvercounts
  <1>4. CASE \E w \in Workers : StartRedirect(w) \/ Fails(w)
    <2>1. PICK w \in Workers : StartRedirect(w) \/ Fails(w)
      BY <1>4
    <2>2. UNCHANGED <<coded, settled, usedCount>> /\ Done(w)
      BY <2>1 DEF StartRedirect, Fails, StartInitFails, ResultFail, CallbackFail,
                  codeVars
    <2>3. CodedSettlements' = CodedSettlements
      BY <2>2, SettlementsSame
    <2>4. \A v \in Workers : req'[v].at \in InTransaction => req'[v] = req[v]
      BY <2>2, Unlocks
    <2> QED
      BY <1>1, <2>2, <2>3, <2>4 DEF CountInv, NeverOvercounts
  <1>5. CASE \E w \in Workers : ResultCommit(w) \/ MarkCommit(w)
    <2>1. PICK w \in Workers : ResultCommit(w) \/ MarkCommit(w)
      BY <1>5
    <2> DEFINE i == req[w].intent
    <2>2. /\ MarkPaidCommit(w) /\ req[w].at \in InTransaction
          /\ Done(w) \/ (Goto(w, "finalize") /\ ~At(w, "idle"))
      BY <2>1 DEF ResultCommit, MarkCommit, At, InTransaction
    <2>3. i \in Intents
      BY <2>2 DEF InTransaction, IInv, RequestInv, At
    <2>4. /\ settled' = [settled EXCEPT ![i] = @ + 1] /\ coded' = coded
          /\ CountUse(i, req[w].used)
      BY <2>2 DEF MarkPaidCommit
    <2>5. Cardinality(CodedSettlements') = n + (IF coded[i] THEN 1 ELSE 0)
      BY <2>3, <2>4, SettlementAdded
    <2>6. /\ coded[i] => usedCount' = req[w].used + 1
          /\ ~coded[i] => usedCount' = usedCount
      BY <2>4 DEF CountUse, codeVars
    <2>7. \A v \in Workers : req'[v].at \in InTransaction => req'[v] = req[v]
      BY <2>2, Unlocks
    <2>8. req[w].used <= n /\ req[w].used \in Nat
      BY <1>1, <2>2
    <2> HIDE DEF n, i
    <2>9. n <= Cardinality(CodedSettlements') /\ Cardinality(CodedSettlements') \in Nat
          /\ usedCount' <= Cardinality(CodedSettlements')
      BY <1>1, <2>5, <2>6, <2>8
    <2>10. ASSUME NEW v \in Workers, req'[v].at \in InTransaction
           PROVE  req'[v].used <= Cardinality(CodedSettlements')
      <3>1. req'[v] = req[v] /\ req[v].used <= n /\ req[v].used \in Nat
        BY <1>1, <2>7, <2>10
      <3> QED
        BY <1>1, <2>9, <3>1
    <2> QED
      BY <2>9, <2>10 DEF CountInv, NeverOvercounts
  <1> QED
    BY <1>2, <1>3, <1>4, <1>5, StepKinds

\* used_count never runs ahead of the payments made with the code, however
\* many workers read and write it at the same time (mark_paid).
THEOREM NeverOvercountsCorrect == Spec => []NeverOvercounts
  <1>1. ASSUME Init PROVE CountInv
    <2>1. usedCount = 0 /\ \A w \in Workers : req[w].at = "idle"
      BY <1>1 DEF Init, NoRequest, Request
    <2>2. Cardinality(CodedSettlements) \in Nat
      BY <1>1, InitIInv, SettlementsFinite
    <2> QED
      BY <2>1, <2>2 DEF CountInv, NeverOvercounts, InTransaction
  <1>2. CountInv => NeverOvercounts
    BY DEF CountInv
  <1> QED
    BY <1>1, <1>2, CountStep, InitIInv, NextIInv, PTL DEF Spec

-----------------------------------------------------------------------------
(* When an intent is settled *)

\* A step keeps LockInv, and settles an intent only while it is not paid.
LEMMA LockStep ==
  ASSUME IInv, LockInv, [Next]_vars
  PROVE  /\ LockInv'
         /\ \A i \in Intents : settled'[i] # settled[i] =>
              settled'[i] = settled[i] + 1 /\ status[i] # "paid" /\ status'[i] = "paid"
  <1>1. /\ settled \in [Intents -> Nat] /\ status \in [Intents -> Status]
        /\ req \in [Workers -> Requests]
        /\ \A v \in Workers : req[v].at \in InTransaction => req[v].intent \in Intents
    BY DEF IInv, TypeOK, RequestInv, At, InTransaction
  <1>2. CASE Quiet /\ \A v \in Workers : Moves(v)
    <2>1. status' = status /\ settled' = settled
      BY <1>2 DEF Quiet
    <2>2. ASSUME NEW v \in Workers, req'[v].at \in InTransaction
          PROVE  /\ status[req'[v].intent] # "paid"
                 /\ \/ req'[v] = req[v]
                    \/ /\ ~Locked(req'[v].intent)
                       /\ \A w \in Workers : w # v => req'[w] = req[w]
      BY <1>2, <2>2 DEF Moves, InTransaction, LockInv
    <2>3. ASSUME NEW v \in Workers, NEW w \in Workers, req'[v].at \in InTransaction,
                 req'[w].at \in InTransaction, req'[w].intent = req'[v].intent
          PROVE  w = v
      <3>1. CASE req'[v] = req[v] /\ req'[w] = req[w]
        BY <2>3, <3>1 DEF LockInv
      <3>2. CASE w # v /\ req'[w] = req[w] /\ ~Locked(req'[v].intent)
        BY <2>3, <3>2 DEF Locked
      <3>3. CASE w # v /\ req'[v] = req[v] /\ ~Locked(req'[w].intent)
        BY <2>3, <3>3 DEF Locked
      <3> QED
        BY <2>2, <2>3, <3>1, <3>2, <3>3
    <2> QED
      BY <2>1, <2>2, <2>3 DEF LockInv
  <1>3. ASSUME NEW w \in Workers, Done(w) \/ (Goto(w, "finalize") /\ ~At(w, "idle")),
               \A v \in Workers : v # w /\ req[v].at \in InTransaction =>
                 status'[req[v].intent] # "paid"
        PROVE  LockInv'
    <2>1. \A v \in Workers : req'[v].at \in InTransaction => v # w /\ req'[v] = req[v]
      BY <1>3, Unlocks
    <2> QED
      BY <1>3, <2>1 DEF LockInv
  <1>4. CASE \E i \in Intents : Creates(i)
    BY <1>1, <1>4 DEF Creates, LockInv
  <1>5. CASE \E w \in Workers : StartRedirect(w) \/ Fails(w)
    <2>1. PICK w \in Workers : StartRedirect(w) \/ Fails(w)
      BY <1>5
    <2>2. /\ Done(w) /\ settled' = settled
          /\ \/ status' = [status EXCEPT ![req[w].intent] = "redirected"]
             \/ status' = [status EXCEPT ![req[w].intent] = "failed"]
      BY <2>1 DEF StartRedirect, Fails, StartInitFails, ResultFail, CallbackFail
    <2>3. \A i \in Intents : status[i] # "paid" => status'[i] # "paid"
      BY <1>1, <2>2
    <2> QED
      BY <1>1, <1>3, <2>2, <2>3 DEF LockInv
  <1>6. CASE \E w \in Workers : ResultCommit(w) \/ MarkCommit(w)
    <2>1. PICK w \in Workers : ResultCommit(w) \/ MarkCommit(w)
      BY <1>6
    <2> DEFINE i == req[w].intent
    <2>2. /\ MarkPaidCommit(w) /\ req[w].at \in InTransaction
          /\ Done(w) \/ (Goto(w, "finalize") /\ ~At(w, "idle"))
      BY <2>1 DEF ResultCommit, MarkCommit, At, InTransaction
    <2>3. i \in Intents /\ status[i] # "paid"
      BY <1>1, <2>2 DEF LockInv
    <2>4. /\ status' = [status EXCEPT ![i] = "paid"]
          /\ settled' = [settled EXCEPT ![i] = @ + 1]
      BY <2>2 DEF MarkPaidCommit
    <2>5. \A v \in Workers : v # w /\ req[v].at \in InTransaction =>
            req[v].intent # i /\ status[req[v].intent] # "paid"
      BY <2>2 DEF LockInv
    <2> HIDE DEF i
    <2>6. \A j \in Intents : j # i => status'[j] = status[j] /\ settled'[j] = settled[j]
      BY <1>1, <2>4
    <2>7. status'[i] = "paid" /\ settled'[i] = settled[i] + 1
      BY <1>1, <2>3, <2>4
    <2>8. LockInv'
      BY <1>1, <1>3, <2>2, <2>5, <2>6
    <2> QED
      BY <2>3, <2>6, <2>7, <2>8
  <1> QED
    BY <1>2, <1>4, <1>5, <1>6, StepKinds

\* mark_paid is applied only to an intent that is not paid, however many
\* requests race for it: its check and its write are under one row lock.
THEOREM SettlesUnpaidCorrect == Spec => SettlesUnpaid
  <1> DEFINE A == \A i \in Intents : settled'[i] # settled[i] =>
       settled'[i] = settled[i] + 1 /\ status[i] # "paid" /\ status'[i] = "paid"
  <1>1. ASSUME Init PROVE LockInv
    <2>1. \A w \in Workers : req[w].at = "idle"
      BY <1>1 DEF Init, NoRequest, Request
    <2> QED
      BY <2>1 DEF LockInv, InTransaction
  <1>2. IInv /\ LockInv /\ [Next]_vars => LockInv' /\ [A]_vars
    BY LockStep
  <1> QED
    BY <1>1, <1>2, InitIInv, NextIInv, PTL DEF Spec, SettlesUnpaid

-----------------------------------------------------------------------------
(* What a paid intent loses its status to *)

\* The action of PaidLostToEarlierOnly.
LostToEarlier ==
  \A i \in Intents : status[i] = "paid" /\ status'[i] # "paid" =>
    \E w \in Workers : /\ req[w].intent = i /\ req'[w] # req[w]
                       /\ At(w, "callbackFail") \/ req[w].seen < settled[i]

LEMMA SeenStep ==
  ASSUME IInv, SeenInv, [Next]_vars
  PROVE  SeenInv' /\ LostToEarlier
  <1>1. /\ settled \in [Intents -> Nat] /\ status \in [Intents -> Status]
        /\ req \in [Workers -> Requests]
        /\ \A v \in Workers : req[v].at # "idle" => req[v].intent \in Intents
        /\ \A v \in Workers : req[v].seen \in Nat
    BY DEF IInv, TypeOK, RequestInv, At, Requests
  <1>2. ASSUME NEW v \in Workers, req[v].at # "idle"
        PROVE  /\ req[v].seen <= settled[req[v].intent]
               /\ req[v].at \in Rewriting /\ req[v].seen = settled[req[v].intent]
                    => status[req[v].intent] # "paid"
    BY <1>2 DEF SeenInv, At
  <1>3. CASE Quiet /\ \A v \in Workers : Moves(v)
    <2>1. status' = status /\ settled' = settled
      BY <1>3 DEF Quiet
    <2>2. IInv'
      BY NextIInv
    <2>3. ASSUME NEW v \in Workers, req'[v].at # "idle"
          PROVE  /\ req'[v].seen <= settled[req'[v].intent]
                 /\ req'[v].at \in Rewriting /\ req'[v].seen = settled[req'[v].intent]
                    => status[req'[v].intent] # "paid"
      <3>1. req'[v].intent \in Intents
        BY <2>2, <2>3 DEF IInv, RequestInv, At
      <3>2. settled[req'[v].intent] \in Nat
        BY <1>1, <3>1
      <3> QED
        BY <1>2, <1>3, <2>3, <3>2 DEF Moves, At, InTransaction, Rewriting
    <2> QED
      BY <2>1, <2>3 DEF SeenInv, LostToEarlier, At
  <1>4. CASE \E i \in Intents : Creates(i)
    <2>1. PICK i \in Intents : Creates(i)
      BY <1>4
    <2>2. /\ settled' = settled /\ req' = req /\ status'[i] # "paid"
          /\ \A j \in Intents : j # i => status'[j] = status[j]
          /\ status[i] # "paid"
      BY <1>1, <2>1 DEF Creates
    <2> QED
      BY <1>1, <1>2, <2>2 DEF SeenInv, LostToEarlier, At
  <1>5. ASSUME NEW w \in Workers, Done(w) \/ (Goto(w, "finalize") /\ ~At(w, "idle")),
               \A j \in Intents : /\ settled'[j] \in Nat /\ settled'[j] >= settled[j]
                                  /\ settled'[j] = settled[j] /\ status[j] # "paid"
                                       => status'[j] # "paid"
        PROVE  SeenInv'
    <2>1. ASSUME NEW v \in Workers, req'[v].at # "idle"
          PROVE  \/ req'[v] = req[v]
                 \/ /\ req'[v].at = "finalize" /\ req[v].at # "idle"
                    /\ req'[v].intent = req[v].intent /\ req'[v].seen = req[v].seen
      BY <1>1, <1>5, <2>1 DEF Done, Goto, At, NoRequest, Request, Requests
    <2>2. ASSUME NEW v \in Workers, req'[v].at # "idle"
          PROVE  /\ req'[v].seen <= settled'[req'[v].intent]
                 /\ req'[v].at \in Rewriting /\ req'[v].seen = settled'[req'[v].intent]
                    => status'[req'[v].intent] # "paid"
      <3>1. /\ req[v].at # "idle" /\ req'[v].intent = req[v].intent
            /\ req'[v].seen = req[v].seen
            /\ req'[v].at \in Rewriting => req'[v] = req[v]
        BY <2>1, <2>2 DEF Rewriting
      <3> DEFINE i == req[v].intent
      <3>2. i \in Intents /\ settled[i] \in Nat /\ req[v].seen \in Nat
        BY <1>1, <3>1
      <3>3. /\ settled'[i] \in Nat /\ settled'[i] >= settled[i]
            /\ settled'[i] = settled[i] /\ status[i] # "paid" => status'[i] # "paid"
        BY <1>5, <3>2
      <3> HIDE DEF i
      <3>4. /\ req[v].seen <= settled[i]
            /\ req[v].at \in Rewriting /\ req[v].seen = settled[i]
                 => status[i] # "paid"
        BY <1>2, <3>1 DEF i
      <3>5. req'[v].intent = i
        BY <3>1 DEF i
      <3> QED
        BY <3>1, <3>2, <3>3, <3>4, <3>5
    <2> QED
      BY <2>2 DEF SeenInv, At
  <1>6. CASE \E w \in Workers : StartRedirect(w) \/ Fails(w)
    <2>1. PICK w \in Workers : StartRedirect(w) \/ Fails(w)
      BY <1>6
    <2> DEFINE i == req[w].intent
    <2>2. /\ Done(w) /\ settled' = settled
          /\ req[w].at \in {"dispatch", "redirect", "fail", "callbackFail"}
          /\ \/ status' = [status EXCEPT ![i] = "redirected"]
             \/ status' = [status EXCEPT ![i] = "failed"]
      BY <2>1 DEF StartRedirect, Fails, StartInitFails, ResultFail, CallbackFail,
                  AtBank, At
    <2>3. /\ i \in Intents /\ settled[i] \in Nat
          /\ \A j \in Intents : j # i => status'[j] = status[j]
          /\ status'[i] # "paid"
      BY <1>1, <2>2
    <2>4. SeenInv'
      <3>1. \A j \in Intents : /\ settled'[j] \in Nat /\ settled'[j] >= settled[j]
                               /\ settled'[j] = settled[j] /\ status[j] # "paid"
                                    => status'[j] # "paid"
        BY <1>1, <2>2, <2>3
      <3> QED
        BY <1>5, <2>2, <3>1
    <2>5. req'[w] # req[w]
      BY <1>1, <2>2 DEF Done, NoRequest, Request
    <2>6. status[i] = "paid" => At(w, "callbackFail") \/ req[w].seen < settled[i]
      BY <1>1, <1>2, <2>2, <2>3 DEF At, Rewriting
    <2> QED
      BY <2>3, <2>4, <2>5, <2>6 DEF LostToEarlier
  <1>7. CASE \E w \in Workers : ResultCommit(w) \/ MarkCommit(w)
    <2>1. PICK w \in Workers : ResultCommit(w) \/ MarkCommit(w)
      BY <1>7
    <2> DEFINE i == req[w].intent
    <2>2. /\ MarkPaidCommit(w) /\ req[w].at # "idle"
          /\ Done(w) \/ (Goto(w, "finalize") /\ ~At(w, "idle"))
      BY <2>1 DEF ResultCommit, MarkCommit, At
    <2>3. i \in Intents
      BY <1>1, <2>2
    <2>4. /\ status' = [status EXCEPT ![i] = "paid"]
          /\ settled' = [settled EXCEPT ![i] = @ + 1]
      BY <2>2 DEF MarkPaidCommit
    <2> HIDE DEF i
    <2>5. \A j \in Intents : /\ settled'[j] \in Nat /\ settled'[j] >= settled[j]
                             /\ settled'[j] = settled[j] /\ status[j] # "paid"
                                  => status'[j] # "paid"
      BY <1>1, <2>3, <2>4
    <2>6. \A j \in Intents : status[j] = "paid" => status'[j] = "paid"
      BY <1>1, <2>3, <2>4
    <2>7. SeenInv'
      BY <1>5, <2>2, <2>5
    <2> QED
      BY <2>6, <2>7 DEF LostToEarlier
  <1> QED
    BY <1>3, <1>4, <1>6, <1>7, StepKinds

\* However many workers there are, a paid intent loses its status only to the
\* failure branch of the gateway callback or to a request that came in before
\* it was paid (StartPaymentView, payment_result_redirect,
\* GatewayCallbackView).
THEOREM PaidLostToEarlierOnlyCorrect == Spec => PaidLostToEarlierOnly
  <1>1. ASSUME Init PROVE SeenInv
    <2>1. \A w \in Workers : req[w].at = "idle"
      BY <1>1 DEF Init, NoRequest, Request
    <2> QED
      BY <2>1 DEF SeenInv, At
  <1>2. IInv /\ SeenInv /\ [Next]_vars => SeenInv' /\ [LostToEarlier]_vars
    BY SeenStep
  <1> QED
    BY <1>1, <1>2, InitIInv, NextIInv, PTL
       DEF Spec, PaidLostToEarlierOnly, LostToEarlier

=============================================================================
