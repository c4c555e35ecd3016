--------------------------- MODULE PaymentsProofs ---------------------------
(***************************************************************************)
(* IInv is an inductive invariant of Payments, so the properties it        *)
(* contains hold for any number of intents, bank records and workers; from *)
(* it, Payments implements PaymentContract.                                *)
(***************************************************************************)
EXTENDS Payments, TLAPS

\* The initial state satisfies the inductive invariant.
LEMMA InitIInv == Init => IInv
  <1> SUFFICES ASSUME Init PROVE IInv
    OBVIOUS
  <1> USE PaymentsAssumption DEF Init
  <1>1. TypeOK
    BY DEF TypeOK, Status, Requests, NoRequest, Request, Points, InTransaction, Gateways
  <1>2. LinkInv
    BY DEF LinkInv
  <1>3. RequestInv
    BY DEF RequestInv, At, NoRequest, Request, Verified, AnyVerified
  <1>4. SettledInv
    BY DEF SettledInv
  <1>5. PaidIsBacked /\ GroupEnrolledOnce
    BY DEF PaidIsBacked, GroupEnrolledOnce, At, NoRequest, Request
  <1> QED
    BY <1>1, <1>2, <1>3, <1>4, <1>5 DEF IInv

\* The price is a natural number whenever it exists, as PositiveIntegerField
\* demands.
LEMMA PriceNat ==
  ASSUME NEW base \in Bases
  PROVE  FinalAmount(base) \in Nat
  <1>1. base \in Nat /\ Percent \in Nat /\ Percent <= 100
    BY PaymentsAssumption
  <1>2. base * Percent <= base * 100 /\ base * Percent \in Nat
    BY <1>1, SMT
  <1>3. \A p \in Nat : p <= base * 100 => base - (p \div 100) \in Nat
    BY <1>1, SMT
  <1> QED
    BY <1>2, <1>3 DEF FinalAmount, DiscountAmount

\* create_intent preserves the invariant.
LEMMA CreateIntentIInv ==
  ASSUME IInv, NEW i \in Intents, NEW base \in Bases, NEW code \in BOOLEAN,
         NEW g \in Intents \cup {None}, CreateIntent(i, base, code, g)
  PROVE  IInv'
  <1> USE PaymentsAssumption
  <1> PICK price \in {base, FinalAmount(base)} : NewIntent(i, price, code, g)
    BY DEF CreateIntent
  <1>1. price \in Nat
    BY PriceNat
  <1>2. Unused(i) /\ UNCHANGED <<codeVars, groupVars, bankVars, req, crashes>>
    BY DEF CreateIntent
  <1> USE DEF NewIntent, Unused, codeVars, groupVars, bankVars
  <1>3. TypeOK'
    BY <1>1, <1>2 DEF TypeOK, Status, IInv
  <1>4. LinkInv'
    BY <1>2 DEF LinkInv, TypeOK, IInv
  <1>5. RequestInv'
    BY <1>2 DEF RequestInv, Verified, AnyVerified, At, TypeOK, IInv, Requests
  <1>6. SettledInv'
    BY <1>2 DEF SettledInv, TypeOK, IInv
  <1>7. PaidIsBacked' /\ GroupEnrolledOnce'
    BY <1>2 DEF PaidIsBacked, GroupEnrolledOnce, SettledInv, At, Verified, TypeOK, IInv
  <1> QED
    BY <1>3, <1>4, <1>5, <1>6, <1>7 DEF IInv

\* CoachRegisterStudentsView.post preserves it when money is due ...
LEMMA CoachRegisterIInv ==
  ASSUME IInv, NEW i \in Intents, NEW base \in Bases, NEW code \in BOOLEAN,
         CoachRegister(i, base, code)
  PROVE  IInv'
  <1> USE PaymentsAssumption
  <1> PICK price \in {base, FinalAmount(base)} : NewIntent(i, price, code, i)
    BY DEF CoachRegister
  <1>1. price \in Nat
    BY PriceNat
  <1>2. /\ Unused(i)
        /\ group' = [group EXCEPT ![i] = "open"]
        /\ UNCHANGED <<enrolled, codeVars, bankVars, req, crashes>>
    BY DEF CoachRegister
  <1> USE DEF NewIntent, Unused, codeVars, groupVars, bankVars
  <1>3. TypeOK'
    BY <1>1, <1>2 DEF TypeOK, Status, IInv
  <1>4. LinkInv'
    BY <1>2 DEF LinkInv, TypeOK, IInv
  <1>5. RequestInv'
    BY <1>2 DEF RequestInv, Verified, AnyVerified, At, TypeOK, IInv, Requests
  <1>6. SettledInv'
    BY <1>2 DEF SettledInv, TypeOK, IInv
  <1>7. PaidIsBacked' /\ GroupEnrolledOnce'
    BY <1>2 DEF PaidIsBacked, GroupEnrolledOnce, SettledInv, At, Verified, TypeOK, IInv
  <1> QED
    BY <1>3, <1>4, <1>5, <1>6, <1>7 DEF IInv

\* ... and when nothing is due.
LEMMA CoachRegisterFreeIInv ==
  ASSUME IInv, NEW i \in Intents, NEW base \in Bases, NEW code \in BOOLEAN,
         CoachRegisterFree(i, base, code)
  PROVE  IInv'
  <1> USE PaymentsAssumption
          DEF CoachRegisterFree, Unused, intentVars, codeVars, groupVars, bankVars
  <1>3. TypeOK'
    BY DEF TypeOK, IInv
  <1>4. LinkInv'
    BY DEF LinkInv, TypeOK, IInv
  <1>5. RequestInv'
    BY DEF RequestInv, Verified, AnyVerified, At, TypeOK, IInv, Requests
  <1>6. SettledInv'
    BY DEF SettledInv, TypeOK, IInv
  <1>7. PaidIsBacked' /\ GroupEnrolledOnce'
    BY DEF PaidIsBacked, GroupEnrolledOnce, SettledInv, At, Verified, TypeOK, IInv
  <1> QED
    BY <1>3, <1>4, <1>5, <1>6, <1>7 DEF IInv

\* What RequestInv allows a request to be.
RequestOK(r) ==
  /\ r \in Requests
  /\ r.at # "idle" => r.intent \in Intents /\ status[r.intent] # "absent"
  /\ r.gateway = "dummy" => TestGateways
  /\ r.at = "dispatch" => r.bank = None
  /\ r.at = "redirect" => /\ r.bank \in Banks
                          /\ owner[r.bank] = r.intent
                          /\ bank[r.bank] # "absent"
  /\ r.at \in {"settle", "settling", "finalize"} => Verified(r)
  /\ r.at = "callbackPaid" => AnyVerified(r)
  /\ r.at = "marking" => \/ AnyVerified(r)
                         \/ r.bank = None /\ amount[r.intent] = 0
                         \/ r.bank = None /\ TestGateways
  /\ r.at = "finalize" => settled[r.intent] > 0

\* A step that only changes what worker w is doing preserves the invariant if
\* the new request is one RequestInv allows.
LEMMA RequestStep ==
  ASSUME IInv, NEW w \in Workers, NEW r, RequestOK(r),
         req' = [req EXCEPT ![w] = r],
         UNCHANGED <<intentVars, codeVars, groupVars, bankVars>>,
         crashes' \in Nat
  PROVE  IInv'
  <1> USE PaymentsAssumption DEF intentVars, codeVars, groupVars, bankVars
  <1>1. TypeOK'
    BY DEF TypeOK, IInv, RequestOK
  <1>2. LinkInv' /\ SettledInv' /\ GroupEnrolledOnce'
    BY DEF LinkInv, SettledInv, GroupEnrolledOnce, IInv
  <1>3. RequestInv'
    BY DEF RequestInv, RequestOK, Verified, AnyVerified, At, TypeOK, IInv
  <1>4. PaidIsBacked'
    BY <1>3 DEF PaidIsBacked, RequestInv, At, IInv
  <1> QED
    BY <1>1, <1>2, <1>3, <1>4 DEF IInv

\* An idle worker satisfies RequestInv.
LEMMA NoRequestOK == RequestOK(NoRequest)
  BY PaymentsAssumption
     DEF RequestOK, NoRequest, Request, Requests, Points, InTransaction, Gateways, Verified, AnyVerified

\* What RequestInv says of a worker, in the form RequestStep wants.
LEMMA CurrentOK ==
  ASSUME IInv, NEW w \in Workers
  PROVE  RequestOK(req[w])
  BY DEF IInv, RequestInv, RequestOK, TypeOK, At

\* A request that ends.
LEMMA DoneIInv ==
  ASSUME IInv, NEW w \in Workers, Done(w),
         UNCHANGED <<intentVars, codeVars, groupVars, bankVars>>,
         crashes' \in Nat
  PROVE  IInv'
  BY RequestStep, NoRequestOK DEF Done

\* _begin of StartPaymentView.
LEMMA StartBeginIInv ==
  ASSUME IInv, NEW w \in Workers, NEW i \in Intents, NEW gw \in Gateways,
         StartBegin(w, i, gw)
  PROVE  IInv'
  <1> DEFINE r == Request("dispatch", i, None, gw, settled[i])
  <1>2. status[i] # "absent"
    BY DEF StartBegin
  <1>3. gw = "dummy" => TestGateways
    BY DEF StartBegin, PickGateway
  <1>4. RequestOK(r)
    BY <1>2, <1>3 DEF RequestOK, Request, Requests, Points, InTransaction, IInv, TypeOK
  <1>5. /\ req' = [req EXCEPT ![w] = r]
        /\ UNCHANGED <<intentVars, codeVars, groupVars, bankVars>>
        /\ crashes' \in Nat
    BY DEF StartBegin, IInv, TypeOK
  <1> HIDE DEF r
  <1> QED
    BY <1>4, <1>5, RequestStep

\* Taking the row lock for mark_paid: of a request with a verified payment,
\* or of a dispatch that needs no bank.
LEMMA MarkPaidBeginIInv ==
  ASSUME IInv, NEW w \in Workers, NEW txn \in {"settling", "marking"},
         NEW next \in {"idle", "finalize"},
         MarkPaidBegin(w, txn, next),
         ~At(w, "idle"),
         next = "finalize" \/ txn = "settling" => Verified(req[w]),
         txn = "marking" => \/ AnyVerified(req[w])
                            \/ req[w].bank = None /\ amount[req[w].intent] = 0
                            \/ req[w].bank = None /\ TestGateways
  PROVE  IInv'
  <1> DEFINE i == req[w].intent
             r1 == [req[w] EXCEPT !.at = next]
             r2 == [req[w] EXCEPT !.at = txn, !.used = usedCount]
  <1>1. RequestOK(req[w])
    BY CurrentOK
  <1>2. usedCount \in Nat /\ crashes' \in Nat /\ req \in [Workers -> Requests]
    BY DEF IInv, TypeOK, MarkPaidBegin
  <1>3. i \in Intents /\ status[i] # "absent"
    BY DEF IInv, RequestInv
  <1>4. CASE status[i] = "paid" /\ next = "idle"
    <2>1. req' = [req EXCEPT ![w] = NoRequest]
      BY <1>4 DEF MarkPaidBegin
    <2> QED
      BY <2>1, <1>2, NoRequestOK, RequestStep DEF MarkPaidBegin
  <1>5. CASE status[i] = "paid" /\ next = "finalize"
    <2>1. req' = [req EXCEPT ![w] = r1]
      BY <1>5, <1>2 DEF MarkPaidBegin
    <2>2. settled[i] > 0
      BY <1>3, <1>5 DEF IInv, SettledInv
    <2>3. RequestOK(r1)
      BY <1>1, <1>3, <1>5, <2>2
         DEF RequestOK, Requests, Points, InTransaction, Verified, AnyVerified
    <2> HIDE DEF r1
    <2> QED
      BY <2>1, <2>3, <1>2, RequestStep DEF MarkPaidBegin
  <1>6. CASE status[i] # "paid"
    <2>1. req' = [req EXCEPT ![w] = r2]
      BY <1>6, <1>2 DEF MarkPaidBegin
    <2>2. RequestOK(r2)
      BY <1>1, <1>2, <1>3 DEF RequestOK, Requests, Points, InTransaction, Verified, AnyVerified
    <2> HIDE DEF r2
    <2> QED
      BY <2>1, <2>2, <1>2, RequestStep DEF MarkPaidBegin
  <1> QED
    BY <1>4, <1>5, <1>6

\* The three callers of mark_paid.
LEMMA TakeLockIInv ==
  ASSUME IInv, NEW w \in Workers,
         StartFree(w) \/ ResultSettle(w) \/ CallbackPaid(w)
  PROVE  IInv'
  <1>1. CASE StartFree(w)
    <2>1. MarkPaidBegin(w, "marking", "idle") /\ ~At(w, "idle")
      BY <1>1 DEF StartFree, At
    <2>2. \/ req[w].bank = None /\ amount[req[w].intent] = 0
          \/ req[w].bank = None /\ TestGateways
      BY <1>1 DEF StartFree, IInv, RequestInv
    <2> QED
      BY <2>1, <2>2, MarkPaidBeginIInv
  <1>2. CASE ResultSettle(w)
    <2>1. MarkPaidBegin(w, "settling", "finalize") /\ ~At(w, "idle")
      BY <1>2 DEF ResultSettle, At
    <2>2. Verified(req[w])
      BY <1>2 DEF ResultSettle, IInv, RequestInv, At
    <2> QED
      BY <2>1, <2>2, MarkPaidBeginIInv
  <1>3. CASE CallbackPaid(w)
    <2>1. MarkPaidBegin(w, "marking", "idle") /\ ~At(w, "idle")
      BY <1>3 DEF CallbackPaid, At
    <2>2. AnyVerified(req[w])
      BY <1>3 DEF CallbackPaid, IInv, RequestInv, At
    <2> QED
      BY <2>1, <2>2, MarkPaidBeginIInv
  <1> QED
    BY <1>1, <1>2, <1>3

\* The lookups by tracking code lead to the owner of the bank record.
LEMMA ResolvesOwner ==
  ASSUME IInv, NEW b \in Banks, NEW i \in Intents, Resolves(b, i)
  PROVE  owner[b] = i
  BY PaymentsAssumption DEF IInv, LinkInv, Resolves, TypeOK

\* The unlocked reads of the result page and of the gateway callback.
LEMMA ReadIInv ==
  ASSUME IInv, NEW w \in Workers, NEW b \in Banks,
         ResultRequest(w, b) \/ CallbackRequest(w, b)
  PROVE  IInv'
  <1>1. crashes' \in Nat /\ UNCHANGED <<intentVars, codeVars, groupVars, bankVars>>
    BY DEF ResultRequest, CallbackRequest, IInv, TypeOK
  <1>2. ASSUME NEW i \in Intents, NEW at \in Points, status[i] # "absent",
               at \in {"settle", "finalize"} => owner[b] = i,
               at = "callbackPaid" => LegacyCallback,
               at \in {"settle", "finalize", "callbackPaid"} => isSuccess[b],
               at \in {"settle", "finalize", "callbackPaid", "fail", "callbackFail"},
               at = "finalize" => status[i] = "paid",
               req' = [req EXCEPT ![w] = Request(at, i, b, "sadad", settled[i])]
        PROVE  IInv'
    <2> DEFINE r == Request(at, i, b, "sadad", settled[i])
    <2>3. at = "finalize" => settled[i] > 0
      BY <1>2 DEF IInv, SettledInv
    <2>4. RequestOK(r)
      BY <2>3, <1>2 DEF RequestOK, Request, Requests, Points, InTransaction, Gateways,
                        Verified, AnyVerified, IInv, TypeOK
    <2> HIDE DEF r
    <2> QED
      BY <2>4, <1>1, <1>2, RequestStep DEF r
  <1>3. CASE ResultRequest(w, b)
    <2> PICK i \in Intents :
          /\ Resolves(b, i)
          /\ req' = [req EXCEPT ![w] =
                 Request(IF ~isSuccess[b] THEN "fail"
                         ELSE IF status[i] = "paid" THEN "finalize" ELSE "settle",
                         i, b, "sadad", settled[i])]
      BY <1>3 DEF ResultRequest
    <2>1. owner[b] = i /\ status[i] # "absent"
      BY ResolvesOwner, PaymentsAssumption DEF IInv, LinkInv
    <2> DEFINE at == IF ~isSuccess[b] THEN "fail"
                     ELSE IF status[i] = "paid" THEN "finalize" ELSE "settle"
    <2>2. /\ at \in Points
          /\ at \in {"settle", "finalize", "callbackPaid"} => isSuccess[b]
          /\ at \in {"settle", "finalize", "callbackPaid", "fail", "callbackFail"}
          /\ at = "finalize" => status[i] = "paid"
          /\ at # "callbackPaid"
      BY DEF Points
    <2>3. req' = [req EXCEPT ![w] = Request(at, i, b, "sadad", settled[i])]
      OBVIOUS
    <2> HIDE DEF at
    <2> QED
      BY <2>1, <2>2, <2>3, <1>2
  <1>4. CASE CallbackRequest(w, b)
    <2> PICK i \in Intents :
          /\ status[i] # "absent" \/ Resolves(b, i)
          /\ req' = [req EXCEPT ![w] =
                 Request(IF isSuccess[b] THEN "callbackPaid" ELSE "callbackFail",
                         i, b, "sadad", settled[i])]
      BY <1>4 DEF CallbackRequest
    <2>1. status[i] # "absent" /\ LegacyCallback
      BY <1>4, ResolvesOwner, PaymentsAssumption DEF IInv, LinkInv, CallbackRequest
    <2> DEFINE at == IF isSuccess[b] THEN "callbackPaid" ELSE "callbackFail"
    <2>2. /\ at \in Points
          /\ at \in {"settle", "finalize", "callbackPaid"} => isSuccess[b]
          /\ at \in {"settle", "finalize", "callbackPaid", "fail", "callbackFail"}
          /\ at \notin {"settle", "finalize"}
      BY DEF Points
    <2>3. req' = [req EXCEPT ![w] = Request(at, i, b, "sadad", settled[i])]
      OBVIOUS
    <2> HIDE DEF at
    <2> QED
      BY <2>1, <2>2, <2>3, <1>2
  <1> QED
    BY <1>3, <1>4

\* The three writes of "failed".
LEMMA FailIInv ==
  ASSUME IInv, NEW w \in Workers,
         StartInitFails(w) \/ ResultFail(w) \/ CallbackFail(w)
  PROVE  IInv'
  <1> DEFINE i == req[w].intent
  <1>1. /\ ~At(w, "idle")
        /\ status' = [status EXCEPT ![i] = "failed"]
        /\ req' = [req EXCEPT ![w] = NoRequest]
        /\ UNCHANGED <<amount, coded, token, refId, gp, settled, codeVars, groupVars,
                       bankVars, crashes>>
    BY DEF StartInitFails, ResultFail, CallbackFail, AtBank, At, Done
  <1>2. i \in Intents /\ status[i] # "absent"
    BY <1>1 DEF IInv, RequestInv
  <1> HIDE DEF i
  <1> USE <1>1, <1>2, PaymentsAssumption DEF codeVars, groupVars, bankVars
  <1>3. NoRequest \in Requests
    BY NoRequestOK DEF RequestOK
  <1>4. TypeOK'
    BY <1>3 DEF TypeOK, Status, IInv
  <1>5. LinkInv'
    BY DEF LinkInv, TypeOK, IInv
  <1>6. RequestInv'
    BY DEF RequestInv, Verified, AnyVerified, At, TypeOK, IInv, NoRequest, Request
  <1>7. SettledInv'
    BY DEF SettledInv, TypeOK, IInv
  <1>8. PaidIsBacked' /\ GroupEnrolledOnce'
    BY DEF PaidIsBacked, GroupEnrolledOnce, At, Verified, TypeOK, IInv, NoRequest, Request
  <1> QED
    BY <1>4, <1>5, <1>6, <1>7, <1>8 DEF IInv

\* bank.ready() makes a record nobody owned before.
LEMMA StartReadyIInv ==
  ASSUME IInv, NEW w \in Workers, NEW b \in Banks, StartReady(w, b)
  PROVE  IInv'
  <1> DEFINE i == req[w].intent
             r == [req[w] EXCEPT !.at = "redirect", !.bank = b]
  <1>1. RequestOK(req[w]) /\ req \in [Workers -> Requests]
    BY CurrentOK DEF IInv, TypeOK
  <1>2. /\ At(w, "dispatch")
        /\ bank[b] = "absent"
        /\ bank' = [bank EXCEPT ![b] = "ready"]
        /\ owner' = [owner EXCEPT ![b] = i]
        /\ req' = [req EXCEPT ![w] = r]
        /\ UNCHANGED <<intentVars, codeVars, groupVars, isSuccess, opened, crashes>>
    BY <1>1 DEF StartReady, AtBank
  <1>3. i \in Intents /\ status[i] # "absent"
    BY <1>2 DEF IInv, RequestInv, At
  <1>4. owner[b] = None
    BY <1>2 DEF IInv, LinkInv
  <1>5. /\ r \in Requests
        /\ r.at = "redirect" /\ r.bank = b /\ r.intent = i
        /\ r.gateway = req[w].gateway
    BY <1>1, <1>2 DEF Requests, Points
  <1> HIDE DEF i, r
  <1> USE <1>2, <1>3, <1>4, <1>5, PaymentsAssumption
          DEF intentVars, codeVars, groupVars
  <1>6. TypeOK'
    BY DEF TypeOK, IInv
  <1>7. LinkInv'
    BY DEF LinkInv, TypeOK, IInv
  <1>8. RequestInv'
    <2> SUFFICES ASSUME NEW v \in Workers
                 PROVE  RequestOK(req[v])'
      BY <1>6 DEF RequestInv, RequestOK, At, TypeOK
    <2>1. CASE v = w
      BY <2>1 DEF RequestOK, IInv, RequestInv, TypeOK
    <2>2. CASE v # w
      <3>1. req'[v] = req[v] /\ RequestOK(req[v])
        BY <2>2, CurrentOK DEF IInv, TypeOK
      <3> QED
        BY <3>1 DEF RequestOK, Verified, AnyVerified, IInv, TypeOK
    <2> QED
      BY <2>1, <2>2
  <1>9. SettledInv' /\ GroupEnrolledOnce'
    BY DEF SettledInv, GroupEnrolledOnce, IInv
  <1>10. PaidIsBacked'
    BY <1>8 DEF PaidIsBacked, RequestInv, At, IInv, TypeOK
  <1> QED
    BY <1>6, <1>7, <1>8, <1>9, <1>10 DEF IInv

\* The second transaction of StartPaymentView.
LEMMA StartRedirectIInv ==
  ASSUME IInv, NEW w \in Workers, StartRedirect(w)
  PROVE  IInv'
  <1> DEFINE i == req[w].intent
             b == req[w].bank
  <1>1. /\ At(w, "redirect")
        /\ token' = [token EXCEPT ![i] = b]
        /\ refId' = [refId EXCEPT ![i] = IF @ = None THEN b ELSE @]
        /\ status' = [status EXCEPT ![i] = "redirected"]
        /\ bank' = [bank EXCEPT ![b] = "open"]
        /\ opened' = [opened EXCEPT ![i] = Append(@, b)]
        /\ req' = [req EXCEPT ![w] = NoRequest]
        /\ UNCHANGED <<amount, coded, gp, settled, codeVars, groupVars, owner,
                       isSuccess, crashes>>
    BY DEF StartRedirect, Done
  <1>2. i \in Intents /\ b \in Banks /\ owner[b] = i /\ status[i] # "absent"
    BY <1>1 DEF IInv, RequestInv, At
  <1> HIDE DEF i, b
  <1> USE <1>1, <1>2, PaymentsAssumption DEF codeVars, groupVars
  <1>3. NoRequest \in Requests
    BY NoRequestOK DEF RequestOK
  <1>4. TypeOK'
    BY <1>3 DEF TypeOK, Status, IInv
  <1>5. LinkInv'
    BY DEF LinkInv, TypeOK, IInv
  <1>6. RequestInv'
    BY DEF RequestInv, Verified, AnyVerified, At, TypeOK, IInv, NoRequest, Request
  <1>7. SettledInv'
    BY DEF SettledInv, TypeOK, IInv
  <1>8. PaidIsBacked' /\ GroupEnrolledOnce'
    BY DEF PaidIsBacked, GroupEnrolledOnce, At, Verified, TypeOK, IInv, NoRequest, Request
  <1> QED
    BY <1>4, <1>5, <1>6, <1>7, <1>8 DEF IInv

\* What happens at the bank, and its verification.
LEMMA BankIInv ==
  ASSUME IInv, NEW b \in Banks,
         \/ \E outcome \in {"charged", "declined"} : PayerActs(b, outcome)
         \/ CallbackVerify(b)
  PROVE  IInv'
  <1>1. /\ bank' \in [Banks -> {"absent", "ready", "open", "charged", "declined"}]
        /\ \A c \in Banks : bank'[c] = "absent" <=> bank[c] = "absent"
        /\ isSuccess' \in [Banks -> BOOLEAN]
        /\ \A c \in Banks : isSuccess[c] => isSuccess'[c]
        /\ UNCHANGED <<intentVars, codeVars, groupVars, owner, opened, req, crashes>>
    BY DEF PayerActs, CallbackVerify, IInv, TypeOK
  <1> USE <1>1, PaymentsAssumption DEF intentVars, codeVars, groupVars
  <1>2. TypeOK'
    BY DEF TypeOK, IInv
  <1>3. LinkInv' /\ SettledInv' /\ GroupEnrolledOnce'
    BY DEF LinkInv, SettledInv, GroupEnrolledOnce, IInv
  <1>4. RequestInv'
    BY DEF RequestInv, Verified, AnyVerified, At, TypeOK, IInv
  <1>5. PaidIsBacked'
    BY <1>4 DEF PaidIsBacked, RequestInv, At, IInv
  <1> QED
    BY <1>2, <1>3, <1>4, <1>5 DEF IInv

\* COMMIT of mark_paid, in either transaction.
LEMMA CommitIInv ==
  ASSUME IInv, NEW w \in Workers, ResultCommit(w) \/ MarkCommit(w)
  PROVE  IInv'
  <1> DEFINE i == req[w].intent
             used == req[w].used
  <1>1. RequestOK(req[w]) /\ req \in [Workers -> Requests]
    BY CurrentOK DEF IInv, TypeOK
  <1>2. /\ At(w, "settling") \/ At(w, "marking")
        /\ status' = [status EXCEPT ![i] = "paid"]
        /\ refId' = [refId EXCEPT ![i] =
                       IF req[w].bank = None /\ @ # None THEN @ ELSE Receipt]
        /\ settled' = [settled EXCEPT ![i] = @ + 1]
        /\ CountUse(i, used)
        /\ UNCHANGED <<amount, coded, token, gp, groupVars, bankVars, crashes>>
    BY DEF ResultCommit, MarkCommit, MarkPaidCommit
  <1>3. i \in Intents /\ status[i] # "absent" /\ used \in Nat
    BY <1>1, <1>2 DEF IInv, RequestInv, At, Requests
  <1>4. usedCount' \in Nat /\ active' \in BOOLEAN
    <2>1. CASE coded[i]
      <3>1. /\ usedCount' = used + 1
            /\ active' = (active /\ (MaxUses = 0 \/ used + 1 < MaxUses))
        BY <1>2, <2>1 DEF CountUse
      <3>2. usedCount' \in Nat
        BY <3>1, <1>3
      <3>3. active' \in BOOLEAN
        BY <3>1, Zenon
      <3> QED
        BY <3>2, <3>3
    <2>2. CASE ~coded[i]
      BY <1>2, <2>2 DEF CountUse, codeVars, IInv, TypeOK
    <2> QED
      BY <2>1, <2>2
  <1>5. settled'[i] > 0
    BY <1>2, <1>3 DEF IInv, TypeOK
  <1>6. PICK r \in Requests :
          /\ req' = [req EXCEPT ![w] = r]
          /\ \/ r = NoRequest
             \/ r.at = "finalize" /\ r.intent = i /\ r.bank = req[w].bank
                  /\ r.gateway = req[w].gateway /\ At(w, "settling")
    <2>1. CASE ResultCommit(w)
      <3> DEFINE q == [req[w] EXCEPT !.at = "finalize"]
      <3>1. /\ q \in Requests /\ q.at = "finalize" /\ q.intent = i
            /\ q.bank = req[w].bank /\ q.gateway = req[w].gateway
        BY <1>1 DEF Requests, Points
      <3>2. req' = [req EXCEPT ![w] = q] /\ At(w, "settling")
        BY <1>1, <2>1 DEF ResultCommit, Goto
      <3> HIDE DEF q
      <3> QED
        BY <3>1, <3>2
    <2>2. CASE MarkCommit(w)
      <3>1. NoRequest \in Requests
        BY NoRequestOK DEF RequestOK
      <3> QED
        BY <2>2, <3>1 DEF MarkCommit, Done
    <2> QED
      BY <2>1, <2>2
  <1>7. TypeOK'
    BY <1>2, <1>3, <1>4, <1>6, PaymentsAssumption
       DEF TypeOK, Status, IInv, groupVars, bankVars
  <1>8. LinkInv'
    BY <1>2, <1>3, PaymentsAssumption DEF LinkInv, TypeOK, IInv, groupVars, bankVars
  <1>9. RequestInv'
    <2> SUFFICES ASSUME NEW v \in Workers
                 PROVE  RequestOK(req[v])'
      BY <1>7 DEF RequestInv, RequestOK, At, TypeOK
    <2>1. CASE v = w
      <3>1. req'[v] = r
        BY <2>1, <1>6, <1>1
      <3>2. CASE r = NoRequest
        BY <3>1, <3>2, <1>6 DEF RequestOK, NoRequest, Request
      <3>3. CASE r.at = "finalize" /\ r.intent = i /\ r.bank = req[w].bank
                   /\ r.gateway = req[w].gateway /\ At(w, "settling")
        <4>1. Verified(req[w]) /\ (req[w].gateway = "dummy" => TestGateways)
          BY <3>3 DEF IInv, RequestInv, At
        <4>2. status'[i] # "absent"
          BY <1>2, <1>3 DEF IInv, TypeOK
        <4> QED
          BY <3>1, <3>3, <4>1, <4>2, <1>2, <1>3, <1>5
             DEF RequestOK, Verified, AnyVerified, bankVars
      <3> QED
        BY <3>2, <3>3, <1>6
    <2>2. CASE v # w
      <3>1. req'[v] = req[v] /\ RequestOK(req[v])
        BY <2>2, <1>1, <1>6, CurrentOK
      <3>2. \A j \in Intents : /\ status[j] # "absent" => status'[j] # "absent"
                               /\ settled[j] > 0 => settled'[j] > 0
        BY <1>2, <1>3 DEF IInv, TypeOK
      <3> QED
        BY <3>1, <3>2, <1>2 DEF RequestOK, Verified, AnyVerified, bankVars
    <2> QED
      BY <2>1, <2>2
  <1>10. SettledInv'
    BY <1>2, <1>3, <1>5 DEF SettledInv, TypeOK, IInv
  <1>11. GroupEnrolledOnce'
    BY <1>2 DEF GroupEnrolledOnce, IInv, groupVars
  <1>12. PaidIsBacked'
    <2>1. ASSUME NEW v \in Workers, At(v, "settling")' PROVE Verified(req[v])'
      BY <1>9, <2>1 DEF RequestInv, At
    <2>2. ASSUME ~TestGateways, NEW j \in Intents, settled'[j] > 0, amount[j] > 0
          PROVE  \E b \in Banks : isSuccess[b] /\ (owner[b] = j \/ LegacyCallback)
      <3>1. CASE j = i
        <4>1. Verified(req[w]) \/ AnyVerified(req[w])
          BY <2>2, <3>1, <1>2 DEF IInv, RequestInv, At
        <4> QED
          BY <3>1, <4>1 DEF Verified, AnyVerified
      <3>2. CASE j # i
        BY <2>2, <3>2, <1>2, <1>3 DEF IInv, PaidIsBacked, TypeOK
      <3> QED
        BY <3>1, <3>2
    <2> QED
      BY <1>2, <2>1, <2>2 DEF PaidIsBacked, bankVars
  <1> QED
    BY <1>7, <1>8, <1>9, <1>10, <1>11, <1>12 DEF IInv

\* _finalize_group_payment_if_needed.
LEMMA FinalizeIInv ==
  ASSUME IInv, NEW w \in Workers, ResultFinalize(w)
  PROVE  IInv'
  <1> DEFINE g == gp[req[w].intent]
  <1>1. CASE NamesOpen(w)
    <2>1. /\ At(w, "finalize") /\ g # None /\ group[g] = "open"
          /\ group' = [group EXCEPT ![g] = "paid"]
          /\ enrolled' = [enrolled EXCEPT ![g] = @ + Items]
          /\ req' = [req EXCEPT ![w] = NoRequest]
          /\ UNCHANGED <<intentVars, codeVars, bankVars, crashes>>
      BY <1>1 DEF ResultFinalize, NamesOpen, Done
    <2>2. g \in Intents
      BY <2>1 DEF IInv, RequestInv, TypeOK, At
    <2>3. NoRequest \in Requests
      BY NoRequestOK DEF RequestOK
    <2> HIDE DEF g
    <2> USE <1>1, <2>1, <2>2, PaymentsAssumption DEF intentVars, codeVars, bankVars
    <2>4. TypeOK'
      BY <2>3 DEF TypeOK, IInv
    <2>5. LinkInv' /\ SettledInv'
      BY DEF LinkInv, SettledInv, IInv
    <2>6. RequestInv'
      BY DEF RequestInv, Verified, AnyVerified, At, TypeOK, IInv, NoRequest, Request
    <2>7. PaidIsBacked'
      BY <2>6 DEF PaidIsBacked, RequestInv, At, IInv
    <2>8. GroupEnrolledOnce'
      BY DEF GroupEnrolledOnce, TypeOK, IInv
    <2> QED
      BY <2>4, <2>5, <2>6, <2>7, <2>8 DEF IInv
  <1>2. CASE ~NamesOpen(w)
    <2>1. /\ Done(w) /\ crashes' \in Nat
          /\ UNCHANGED <<intentVars, codeVars, groupVars, bankVars>>
      BY <1>2 DEF ResultFinalize, IInv, TypeOK
    <2> QED
      BY <2>1, DoneIInv
  <1> QED
    BY <1>1, <1>2

\* go_to_bank_gateway_override opens a page again, with a new record or not.
LEMMA GoToBankIInv ==
  ASSUME IInv, NEW b \in Banks, NEW c \in Banks, GoToBank(b, c)
  PROVE  IInv'
  <1> USE PaymentsAssumption DEF intentVars, codeVars, groupVars
  <1>1. /\ bank[b] # "absent"
        /\ bank' = [bank EXCEPT ![c] = "open"]
        /\ UNCHANGED <<intentVars, codeVars, groupVars, isSuccess, opened, req, crashes>>
    BY DEF GoToBank
  <1>2. /\ owner' \in [Banks -> Intents \cup {None}]
        /\ \A d \in Banks : owner[d] # None => owner'[d] = owner[d]
        /\ \A d \in Banks : owner'[d] # None =>
             \E e \in Banks : owner'[d] = owner[e] /\ bank[e] # "absent"
        /\ \A d \in Banks : d # c => owner'[d] = owner[d]
    <2>1. owner \in [Banks -> Intents \cup {None}]
          /\ \A d \in Banks : owner[d] # None => bank[d] # "absent"
      BY DEF IInv, TypeOK, LinkInv
    <2>2. CASE owner' = owner
      BY <2>1, <2>2
    <2>3. CASE bank[c] = "absent" /\ owner' = [owner EXCEPT ![c] = owner[b]]
      <3>1. owner[c] = None
        BY <2>1, <2>3
      <3> QED
        BY <1>1, <2>1, <2>3, <3>1
    <2> QED
      BY <2>2, <2>3 DEF GoToBank
  <1>3. TypeOK'
    BY <1>1, <1>2 DEF TypeOK, IInv
  <1>4. LinkInv'
    <2>1. /\ \A d \in Banks : bank[d] = "absent" => owner[d] = None
          /\ \A d \in Banks : owner[d] # None => status[owner[d]] # "absent"
          /\ \A i \in Intents : token[i] # None => owner[token[i]] = i
          /\ \A i \in Intents : refId[i] \in Banks => owner[refId[i]] = i
          /\ token \in [Intents -> Banks \cup {None}]
          /\ bank \in [Banks -> {"absent", "ready", "open", "charged", "declined"}]
      BY DEF IInv, LinkInv, TypeOK
    <2>2. \A d \in Banks : bank'[d] = "absent" => bank[d] = "absent" /\ d # c
      BY <1>1, <2>1
    <2>3. \A d \in Banks : bank'[d] = "absent" => owner'[d] = None
      BY <1>2, <2>1, <2>2
    <2>4. \A d \in Banks : owner'[d] # None => status'[owner'[d]] # "absent"
      BY <1>1, <1>2, <2>1
    <2>5. \A i \in Intents : token'[i] # None => owner'[token'[i]] = i
      BY <1>1, <1>2, <2>1
    <2>6. \A i \in Intents : refId'[i] \in Banks => owner'[refId'[i]] = i
      BY <1>1, <1>2, <2>1
    <2> QED
      BY <2>3, <2>4, <2>5, <2>6 DEF LinkInv
  <1>5. SettledInv' /\ GroupEnrolledOnce'
    BY <1>1 DEF SettledInv, GroupEnrolledOnce, IInv
  <1>6. RequestInv'
    <2> SUFFICES ASSUME NEW v \in Workers PROVE RequestOK(req[v])'
      BY <1>3 DEF RequestInv, RequestOK, At, TypeOK
    <2>1. req'[v] = req[v] /\ RequestOK(req[v])
      BY <1>1, CurrentOK
    <2> QED
      BY <1>1, <1>2, <2>1 DEF RequestOK, Verified, AnyVerified, IInv, TypeOK
  <1>7. PaidIsBacked'
    <2>1. \A w \in Workers : At(w, "settling")' => Verified(req[w])'
      BY <1>6 DEF RequestInv, At
    <2>2. \A i \in Intents, d \in Banks : owner[d] = i => owner'[d] = i
      BY <1>2
    <2> QED
      BY <1>1, <2>1, <2>2 DEF PaidIsBacked, IInv
  <1> QED
    BY <1>3, <1>4, <1>5, <1>6, <1>7 DEF IInv

\* The remaining ends of a request change nothing else.
LEMMA EndIInv ==
  ASSUME IInv, NEW w \in Workers,
         StartRefused(w) \/ ResultFinalizeFails(w) \/ Crash(w)
  PROVE  IInv'
  <1>1. /\ Done(w) /\ crashes' \in Nat
        /\ UNCHANGED <<intentVars, codeVars, groupVars, bankVars>>
    BY DEF StartRefused, ResultFinalizeFails, Crash, IInv, TypeOK
  <1> QED
    BY <1>1, DoneIInv

\* Every step preserves the inductive invariant.
LEMMA NextIInv == IInv /\ [Next]_vars => IInv'
  <1> SUFFICES ASSUME IInv, [Next]_vars PROVE IInv'
    OBVIOUS
  <1>1. ASSUME NEW i \in Intents, NEW base \in Bases, NEW code \in BOOLEAN,
               \/ \E g \in Intents \cup {None} : CreateIntent(i, base, code, g)
               \/ CoachRegister(i, base, code)
               \/ CoachRegisterFree(i, base, code)
        PROVE  IInv'
    BY <1>1, CreateIntentIInv, CoachRegisterIInv, CoachRegisterFreeIInv
  <1>2. ASSUME NEW w \in Workers, Serve(w) PROVE IInv'
    <2>1. CASE StartFree(w) \/ ResultSettle(w) \/ CallbackPaid(w)
      BY <2>1, TakeLockIInv
    <2>2. CASE StartRefused(w) \/ ResultFinalizeFails(w)
      BY <2>2, EndIInv
    <2>3. CASE \E b \in Banks : StartReady(w, b)
      BY <2>3, StartReadyIInv
    <2>4. CASE StartRedirect(w)
      BY <2>4, StartRedirectIInv
    <2>5. CASE StartInitFails(w) \/ ResultFail(w) \/ CallbackFail(w)
      BY <2>5, FailIInv
    <2>6. CASE ResultCommit(w) \/ MarkCommit(w)
      BY <2>6, CommitIInv
    <2>7. CASE ResultFinalize(w)
      BY <2>7, FinalizeIInv
    <2> QED
      BY <1>2, <2>1, <2>2, <2>3, <2>4, <2>5, <2>6, <2>7 DEF Serve
  <1>3. ASSUME NEW w \in Workers, Crash(w) PROVE IInv'
    BY <1>3, EndIInv
  <1>4. ASSUME NEW w \in Workers, NEW i \in Intents, NEW gw \in Gateways,
               StartBegin(w, i, gw)
        PROVE  IInv'
    BY <1>4, StartBeginIInv
  <1>5. ASSUME NEW w \in Workers, NEW b \in Banks,
               ResultRequest(w, b) \/ CallbackRequest(w, b)
        PROVE  IInv'
    BY <1>5, ReadIInv
  <1>6. ASSUME NEW b \in Banks, CallbackVerify(b) PROVE IInv'
    BY <1>6, BankIInv
  <1>7. ASSUME NEW b \in Banks, NEW outcome \in {"charged", "declined"},
               PayerActs(b, outcome)
        PROVE  IInv'
    BY <1>7, BankIInv
  <1>8. ASSUME NEW i \in Intents, BankReturn(i) PROVE IInv'
    BY <1>8, BankIInv DEF BankReturn
  <1>9. ASSUME NEW b \in Banks, NEW c \in Banks, GoToBank(b, c) PROVE IInv'
    BY <1>9, GoToBankIInv
  <1>10. CASE UNCHANGED vars
    <2> USE <1>10 DEF vars, intentVars, codeVars, groupVars, bankVars
    <2>1. TypeOK'
      BY DEF IInv, TypeOK
    <2>2. LinkInv' /\ SettledInv' /\ GroupEnrolledOnce'
      BY DEF IInv, LinkInv, SettledInv, GroupEnrolledOnce
    <2>3. RequestInv'
      BY DEF IInv, RequestInv, At, Verified, AnyVerified
    <2>4. PaidIsBacked'
      BY <2>3 DEF IInv, PaidIsBacked, RequestInv, At
    <2> QED
      BY <2>1, <2>2, <2>3, <2>4 DEF IInv
  <1> QED
    BY <1>1, <1>2, <1>3, <1>4, <1>5, <1>6, <1>7, <1>8, <1>9, <1>10 DEF Next

\* The inductive invariant holds in every reachable state.
THEOREM Invariance == Spec => []IInv
  BY InitIInv, NextIInv, PTL DEF Spec

\* Every field keeps the type its model declares: payments/models.py.
THEOREM TypeCorrect == Spec => []TypeOK
  <1>1. IInv => TypeOK
    BY DEF IInv
  <1> QED
    BY <1>1, Invariance, PTL

\* No intent with a price is marked paid in production without a verified
\* payment, which the result page has of that very intent
\* (payment_result_redirect, GatewayCallbackView, StartPaymentView).
THEOREM PaidBacked == Spec => []PaidIsBacked
  <1>1. IInv => PaidIsBacked
    BY DEF IInv
  <1> QED
    BY <1>1, Invariance, PTL

\* A group registration makes its enrollments exactly once
\* (_finalize_group_payment_if_needed).
THEOREM EnrolledOnce == Spec => []GroupEnrolledOnce
  <1>1. IInv => GroupEnrolledOnce
    BY DEF IInv
  <1> QED
    BY <1>1, Invariance, PTL

-----------------------------------------------------------------------------
(* Payments implements PaymentContract *)

\* The initial states are initial states of the contract.
LEMMA ContractInitially == Init => Contract!ContractInit
  <1> SUFFICES ASSUME Init PROVE Contract!ContractInit
    OBVIOUS
  <1>1. {i \in Intents : status[i] # "absent"} = {}
    BY DEF Init
  <1>2. {i \in Intents : settled[i] > 0} = {}
    BY DEF Init
  <1>3. {g \in Intents : group[g] = "open"} = {}
    BY DEF Init
  <1> QED
    BY <1>1, <1>2, <1>3 DEF Init, Contract!ContractInit

\* A step that neither makes a row, nor settles, nor enrolls is a stutter.
LEMMA ContractStutter ==
  ASSUME \A i \in Intents : status'[i] # "absent" <=> status[i] # "absent",
         UNCHANGED <<gp, settled, groupVars>>
  PROVE  UNCHANGED Contract!contractVars
  BY DEF Contract!contractVars, groupVars

\* Creating an intent, alone or with its group payment, issues it.
LEMMA ContractIssue ==
  ASSUME IInv, NEW i \in Intents, NEW price, NEW code, NEW g \in Intents \cup {None},
         Unused(i), NewIntent(i, price, code, g), UNCHANGED enrolled,
         UNCHANGED group \/ (g = i /\ group' = [group EXCEPT ![i] = "open"])
  PROVE  Contract!ContractNext
  <1>1. /\ status[i] = "absent" /\ enrolled[i] = 0
        /\ status' = [status EXCEPT ![i] = "initiated"]
        /\ gp' = [gp EXCEPT ![i] = g] /\ gp'[i] = g
        /\ UNCHANGED <<settled, enrolled>>
    BY DEF Unused, NewIntent, IInv, TypeOK, GroupEnrolledOnce
  <1>2. {j \in Intents : status'[j] # "absent"}
           = {j \in Intents : status[j] # "absent"} \cup {i}
    BY <1>1 DEF IInv, TypeOK
  <1>3. \/ {j \in Intents : group'[j] = "open"} = {j \in Intents : group[j] = "open"}
        \/ /\ g = i
           /\ {j \in Intents : group'[j] = "open"}
                = {j \in Intents : group[j] = "open"} \cup {i}
    BY DEF IInv, TypeOK
  <1>4. Contract!Issue(i)
    BY <1>1, <1>2, <1>3 DEF Contract!Issue
  <1> QED
    BY <1>4 DEF Contract!ContractNext

\* A free group registration delivers without an intent ...
LEMMA ContractFree ==
  ASSUME IInv, NEW g \in Intents, Unused(g),
         group' = [group EXCEPT ![g] = "paid"],
         enrolled' = [enrolled EXCEPT ![g] = @ + Items],
         UNCHANGED <<status, gp, settled>>
  PROVE  Contract!ContractNext
  <1>1. enrolled[g] = 0
    BY DEF IInv, GroupEnrolledOnce, Unused
  <1>2. enrolled' = [enrolled EXCEPT ![g] = Items]
    BY <1>1, PaymentsAssumption DEF IInv, TypeOK
  <1>3. {j \in Intents : group'[j] = "open"} = {j \in Intents : group[j] = "open"}
    BY DEF IInv, TypeOK, Unused
  <1>4. Contract!DeliverFree(g)
    BY <1>1, <1>2, <1>3 DEF Contract!DeliverFree, Contract!Deliver, Unused
  <1> QED
    BY <1>4 DEF Contract!ContractNext

\* ... and the result page for a settled one.
LEMMA ContractPaid ==
  ASSUME IInv, NEW w \in Workers, ResultFinalize(w), NamesOpen(w)
  PROVE  Contract!ContractNext
  <1>0. PICK i \in Intents : i = req[w].intent
    BY DEF ResultFinalize, At, IInv, RequestInv
  <1>1. PICK g \in Intents : g = gp[i]
    BY <1>0 DEF NamesOpen, IInv, TypeOK
  <1>2. settled[i] > 0 /\ group[g] = "open"
    BY <1>0, <1>1 DEF ResultFinalize, NamesOpen, At, IInv, RequestInv
  <1>3. /\ group' = [group EXCEPT ![g] = "paid"]
        /\ enrolled' = [enrolled EXCEPT ![g] = @ + Items]
        /\ UNCHANGED <<status, gp, settled>>
    BY <1>0, <1>1 DEF ResultFinalize, intentVars
  <1>4. enrolled[g] = 0
    BY <1>2 DEF IInv, GroupEnrolledOnce
  <1>5. enrolled' = [enrolled EXCEPT ![g] = Items]
    BY <1>3, <1>4, PaymentsAssumption DEF IInv, TypeOK
  <1>6. {j \in Intents : group'[j] = "open"} = {j \in Intents : group[j] = "open"} \ {g}
    BY <1>3 DEF IInv, TypeOK
  <1>7. Contract!DeliverPaid(g)
    BY <1>1, <1>2, <1>3, <1>4, <1>5, <1>6 DEF Contract!DeliverPaid, Contract!Deliver
  <1> QED
    BY <1>7 DEF Contract!ContractNext

\* COMMIT of mark_paid clears the intent.
LEMMA ContractClear ==
  ASSUME IInv, NEW w \in Workers, ~At(w, "idle"), MarkPaidCommit(w)
  PROVE  Contract!ContractNext
  <1>0. PICK i \in Intents : i = req[w].intent
    BY DEF IInv, RequestInv
  <1>1. status[i] # "absent"
    BY <1>0 DEF IInv, RequestInv
  <1>2. /\ status' = [status EXCEPT ![i] = "paid"]
        /\ settled' = [settled EXCEPT ![i] = @ + 1]
        /\ UNCHANGED <<gp, group, enrolled>>
    BY <1>0 DEF MarkPaidCommit, groupVars
  <1>3. {j \in Intents : status'[j] # "absent"}
           = {j \in Intents : status[j] # "absent"}
    BY <1>1, <1>2 DEF IInv, TypeOK
  <1>4. {j \in Intents : settled'[j] > 0}
           = {j \in Intents : settled[j] > 0} \cup {i}
    BY <1>1, <1>2 DEF IInv, TypeOK
  <1>5. Contract!Clear(i)
    BY <1>1, <1>2, <1>3, <1>4 DEF Contract!Clear
  <1> QED
    BY <1>5 DEF Contract!ContractNext

\* A worker's step is a step of the contract or a stutter.
LEMMA ContractServe ==
  ASSUME IInv, NEW w \in Workers, Serve(w)
  PROVE  Contract!ContractNext \/ UNCHANGED Contract!contractVars
  <1> DEFINE i == req[w].intent
  <1> USE DEF intentVars, groupVars
  <1>1. CASE StartFree(w) \/ ResultSettle(w) \/ CallbackPaid(w)
    <2>1. UNCHANGED <<status, gp, settled, group, enrolled>>
      BY <1>1 DEF StartFree, ResultSettle, CallbackPaid, MarkPaidBegin
    <2> QED
      BY <2>1, ContractStutter
  <1>2. CASE \/ StartRefused(w) \/ ResultFinalizeFails(w)
             \/ \E b \in Banks : StartReady(w, b)
    <2>1. UNCHANGED <<status, gp, settled, group, enrolled>>
      BY <1>2 DEF StartRefused, ResultFinalizeFails, StartReady
    <2> QED
      BY <2>1, ContractStutter
  <1>3. CASE \/ StartRedirect(w) \/ StartInitFails(w) \/ ResultFail(w)
             \/ CallbackFail(w)
    <2>1. /\ \/ status' = [status EXCEPT ![i] = "redirected"]
             \/ status' = [status EXCEPT ![i] = "failed"]
          /\ UNCHANGED <<gp, settled, group, enrolled>>
      BY <1>3 DEF StartRedirect, StartInitFails, ResultFail, CallbackFail
    <2>2. ~At(w, "idle")
      BY <1>3 DEF StartRedirect, StartInitFails, ResultFail, CallbackFail, AtBank, At
    <2>3. i \in Intents /\ status[i] # "absent"
      BY <2>2 DEF IInv, RequestInv
    <2>4. \A j \in Intents : status'[j] # "absent" <=> status[j] # "absent"
      BY <2>1, <2>3 DEF IInv, TypeOK
    <2> QED
      BY <2>1, <2>4, ContractStutter
  <1>4. CASE ResultCommit(w) \/ MarkCommit(w)
    <2>1. MarkPaidCommit(w) /\ ~At(w, "idle")
      BY <1>4 DEF ResultCommit, MarkCommit, At
    <2> QED
      BY <2>1, ContractClear
  <1>5. CASE ResultFinalize(w)
    <2>1. CASE NamesOpen(w)
      BY <1>5, <2>1, ContractPaid
    <2>2. CASE ~NamesOpen(w)
      <3>1. UNCHANGED <<status, gp, settled, group, enrolled>>
        BY <1>5, <2>2 DEF ResultFinalize
      <3> QED
        BY <3>1, ContractStutter
    <2> QED
      BY <2>1, <2>2
  <1> QED
    BY <1>1, <1>2, <1>3, <1>4, <1>5 DEF Serve

\* Every step is a step of the contract or a stutter.
LEMMA ContractStep ==
  IInv /\ [Next]_vars => [Contract!ContractNext]_(Contract!contractVars)
  <1> DEFINE Same == UNCHANGED <<status, gp, settled, group, enrolled>>
  <1> SUFFICES ASSUME IInv, [Next]_vars
               PROVE  Contract!ContractNext \/ UNCHANGED Contract!contractVars
    OBVIOUS
  <1> USE DEF intentVars, groupVars
  <1>1. ASSUME NEW i \in Intents, NEW base \in Bases, NEW code \in BOOLEAN,
               \/ \E g \in Intents \cup {None} : CreateIntent(i, base, code, g)
               \/ CoachRegister(i, base, code)
        PROVE  Contract!ContractNext
    BY <1>1, ContractIssue DEF CreateIntent, CoachRegister
  <1>2. ASSUME NEW i \in Intents, NEW base \in Bases, NEW code \in BOOLEAN,
               CoachRegisterFree(i, base, code)
        PROVE  Contract!ContractNext
    BY <1>2, ContractFree DEF CoachRegisterFree
  <1>3. ASSUME NEW w \in Workers, Serve(w)
        PROVE  Contract!ContractNext \/ UNCHANGED Contract!contractVars
    BY <1>3, ContractServe
  <1>4. ASSUME Same PROVE UNCHANGED Contract!contractVars
    BY <1>4, ContractStutter
  <1>5. ASSUME NEW w \in Workers, Crash(w) PROVE Same
    BY <1>5 DEF Crash
  <1>6. ASSUME NEW w \in Workers, NEW i \in Intents, NEW gw \in Gateways,
               StartBegin(w, i, gw)
        PROVE  Same
    BY <1>6 DEF StartBegin
  <1>7. ASSUME NEW w \in Workers, NEW b \in Banks,
               ResultRequest(w, b) \/ CallbackRequest(w, b)
        PROVE  Same
    BY <1>7 DEF ResultRequest, CallbackRequest
  <1>8. ASSUME NEW b \in Banks,
               \/ CallbackVerify(b)
               \/ \E outcome \in {"charged", "declined"} : PayerActs(b, outcome)
               \/ \E c \in Banks : GoToBank(b, c)
        PROVE  Same
    BY <1>8 DEF CallbackVerify, PayerActs, GoToBank
  <1>9. ASSUME NEW i \in Intents, BankReturn(i) PROVE Same
    BY <1>9 DEF BankReturn, CallbackVerify
  <1>10. CASE UNCHANGED vars
    <2>1. Same
      BY <1>10 DEF vars
    <2> QED
      BY <2>1, <1>4
  <1> HIDE DEF Same
  <1> QED
    BY <1>1, <1>2, <1>3, <1>4, <1>5, <1>6, <1>7, <1>8, <1>9, <1>10 DEF Next

\* Payments implements PaymentContract: a group that owes gets its enrollments
\* once, and on account of an intent that names it and to which mark_paid was
\* applied (_finalize_group_payment_if_needed).
THEOREM Refinement == Spec => ImplementsContract
  BY ContractInitially, ContractStep, Invariance, PTL
     DEF Spec, ImplementsContract, Contract!ContractSpec

=============================================================================
