------------------------------ MODULE Payments ------------------------------
(***************************************************************************)
(* Payment intents, the bank gateway, discount codes and group             *)
(* registrations: payments/views.py, payments/models.py,                   *)
(* payments/discounts.py and CoachRegisterStudentsView of                  *)
(* competitions/views.py.                                                  *)
(*                                                                         *)
(* A worker is a server thread that serves one HTTP request at a time.  A  *)
(* request is cut into steps where the code releases a row lock or talks   *)
(* to the bank: everything between two such points is one action.          *)
(* select_for_update() is a row lock, held from SELECT to COMMIT; plain    *)
(* reads see the last committed row (READ COMMITTED) and never wait, an    *)
(* UPDATE waits for the row lock.                                          *)
(*                                                                         *)
(* Amounts are rials.  One discount code is modelled, shared by all        *)
(* intents; an intent either carries it or does not.                       *)
(***************************************************************************)
EXTENDS Integers, Sequences, FiniteSets

CONSTANTS
  Intents,        \* PaymentIntent rows; a group payment has its intent's name
  Banks,          \* azbankgateways Bank rows (one payment attempt each)
  Workers,        \* server threads
  None,           \* absent intent, bank record or reference
  Receipt,        \* any reference that is not the id of a Bank row
  Bases,          \* amounts a client asks to pay, and group totals
  MinRial,        \* 10_000: smaller non-zero amounts are taken for tomans
  Percent,        \* DiscountCode.percent
  MaxUses,        \* DiscountCode.max_uses; 0 stands for "no limit"
  Items,          \* students of one group registration
  TestGateways,   \* settings.DEBUG or PAYMENTS["DUMMY"]
  PaymentsEnabled,\* PAYMENTS["ENABLED"], settings.PAYMENTS_ENABLED
  CredsOK,        \* the terminal's credentials are configured
  LegacyCallback, \* whether /callback/sadad/ receives requests
  MaxSettlements, \* bound: an intent settled more often gets no new request
  MaxCrashes      \* bound: requests cut short by a dying worker

ASSUME PaymentsAssumption ==
  /\ None \notin Intents \cup Banks /\ IsFiniteSet(Intents)
  /\ Receipt \notin Banks \cup {None}
  /\ Bases \subseteq Nat
  /\ MinRial \in Nat
  /\ Percent \in 0..100
  /\ MaxUses \in Nat
  /\ Items \in Nat \ {0}
  /\ TestGateways \in BOOLEAN
  /\ PaymentsEnabled \in BOOLEAN
  /\ CredsOK \in BOOLEAN
  /\ LegacyCallback \in BOOLEAN
  /\ MaxSettlements \in Nat
  /\ MaxCrashes \in Nat

VARIABLES
  \* PaymentIntent
  status,     \* "absent" before the row exists
  amount,
  coded,      \* discount_code is set
  token,      \* tracking code of the bank record of the last attempt
  refId,      \* ref_id: a bank record's id, or a receipt
  gp,         \* the group payment its description names (GP#id), or None
  settled,    \* how often mark_paid went through (and so reached the targets)
  \* DiscountCode
  usedCount,
  active,
  \* GroupRegistrationPayment and the enrollments made from it
  group,      \* "none", "open" or "paid"
  enrolled,   \* how many Enrollment rows were created from its payload
  \* azbankgateways Bank (external)
  owner,      \* the intent the record was made for
  bank,       \* what happened at the bank
  isSuccess,  \* Bank.is_success: the payment was verified
  opened,     \* the records whose page StartPaymentView sent the payer to
  \* Requests
  req,        \* what each worker is doing
  crashes

intentVars == <<status, amount, coded, token, refId, gp, settled>>
codeVars   == <<usedCount, active>>
groupVars  == <<group, enrolled>>
bankVars   == <<owner, bank, isSuccess, opened>>
vars == <<intentVars, codeVars, groupVars, bankVars, req, crashes>>

-----------------------------------------------------------------------------
(* Types *)

Status   == {"absent", "initiated", "redirected", "paid", "failed"}
Gateways == {"sadad", "dummy", "fake"}  \* "bmi" is handled as "sadad" is

\* Where a request stands: the points at which the code holds no row lock,
\* and the two transactions that span several steps (InTransaction).
InTransaction == {"settling", "marking"}
Points == {"idle", "dispatch", "redirect", "settle", "finalize", "fail",
           "callbackPaid", "callbackFail"} \cup InTransaction

Requests == [at: Points, intent: Intents \cup {None}, bank: Banks \cup {None},
             gateway: Gateways, used: Nat, seen: Nat]

\* seen is how often the intent was settled when the request came in; the
\* code keeps no such number, the properties need it.
Request(point, i, b, gw, seen) ==
  [at |-> point, intent |-> i, bank |-> b, gateway |-> gw, used |-> 0,
   seen |-> seen]

NoRequest == Request("idle", None, None, "sadad", 0)

TypeOK ==
  /\ status \in [Intents -> Status]
  /\ amount \in [Intents -> Nat]
  /\ coded \in [Intents -> BOOLEAN]
  /\ token \in [Intents -> Banks \cup {None}]
  /\ refId \in [Intents -> Banks \cup {None, Receipt}]
  /\ gp \in [Intents -> Intents \cup {None}]
  /\ settled \in [Intents -> Nat]
  /\ usedCount \in Nat
  /\ active \in BOOLEAN
  /\ group \in [Intents -> {"none", "open", "paid"}]
  /\ enrolled \in [Intents -> Nat]
  /\ owner \in [Banks -> Intents \cup {None}]
  /\ bank \in [Banks -> {"absent", "ready", "open", "charged", "declined"}]
  /\ isSuccess \in [Banks -> BOOLEAN]
  /\ opened \in [Intents -> Seq(Banks)]
  /\ req \in [Workers -> Requests]
  /\ crashes \in Nat

Init ==
  /\ status = [i \in Intents |-> "absent"]
  /\ amount = [i \in Intents |-> 0]
  /\ coded = [i \in Intents |-> FALSE]
  /\ token = [i \in Intents |-> None]
  /\ refId = [i \in Intents |-> None]
  /\ gp = [i \in Intents |-> None]
  /\ settled = [i \in Intents |-> 0]
  /\ usedCount = 0
  /\ active = TRUE
  /\ group = [i \in Intents |-> "none"]
  /\ enrolled = [i \in Intents |-> 0]
  /\ owner = [b \in Banks |-> None]
  /\ bank = [b \in Banks |-> "absent"]
  /\ isSuccess = [b \in Banks |-> FALSE]
  /\ opened = [i \in Intents |-> <<>>]
  /\ req = [w \in Workers |-> NoRequest]
  /\ crashes = 0

-----------------------------------------------------------------------------
(* Helpers *)

\* Some worker's transaction holds the row lock of intent i.
Locked(i) == \E w \in Workers : req[w].at \in InTransaction /\ req[w].intent = i

At(w, point) == req[w].at = point

Goto(w, point) == req' = [req EXCEPT ![w].at = point]

Done(w) == req' = [req EXCEPT ![w] = NoRequest]

\* The bound on requests: only an intent settled too often is turned away.
Admits(i) == settled[i] <= MaxSettlements

\* apply_discount_for_competition: the code is usable now.
CodeUsable == active /\ (MaxUses = 0 \/ usedCount < MaxUses)

DiscountAmount(base) == (base * Percent) \div 100

FinalAmount(base) == base - DiscountAmount(base)

\* The intent a tracking code leads to: by token first, then by the id of the
\* bank record kept in ref_id.
Resolves(b, i) ==
  \/ token[i] = b
  \/ refId[i] = b /\ \A j \in Intents : token[j] # b

\* _pick_gateway: production only knows sadad.
PickGateway == IF TestGateways THEN Gateways ELSE {"sadad"}

-----------------------------------------------------------------------------
(* Creating intents *)

NewIntent(i, price, code, g) ==
  /\ status' = [status EXCEPT ![i] = "initiated"]
  /\ amount' = [amount EXCEPT ![i] = price]
  /\ coded' = [coded EXCEPT ![i] = code]
  /\ gp' = [gp EXCEPT ![i] = g]
  /\ UNCHANGED <<token, refId, settled>>

Unused(i) == status[i] = "absent" /\ group[i] = "none"

\* The price of base with or without the code; the handler stops when the
\* code cannot be used.
Priced(base, code, price) ==
  /\ code => CodeUsable
  /\ price = IF code THEN FinalAmount(base) ELSE base

\* create_intent.  The description is the client's own text; g is the group
\* payment that it names, if any.
CreateIntent(i, base, code, g) ==
  /\ Unused(i)
  /\ base >= MinRial
  /\ \E price \in {base, FinalAmount(base)} :
       /\ Priced(base, code, price)
       /\ code => (price = 0 \/ price >= MinRial)
       /\ NewIntent(i, price, code, g)
  /\ UNCHANGED <<codeVars, groupVars, bankVars, req, crashes>>

\* CoachRegisterStudentsView.post when money is due: the group payment and
\* its intent in one transaction.  The price has no lower bound here.
CoachRegister(i, base, code) ==
  /\ Unused(i)
  /\ base = 0 \/ base >= MinRial
  /\ \E price \in {base, FinalAmount(base)} :
       /\ Priced(base, code, price)
       /\ PaymentsEnabled /\ price > 0
       /\ NewIntent(i, price, code, i)
  /\ group' = [group EXCEPT ![i] = "open"]
  /\ UNCHANGED <<enrolled, codeVars, bankVars, req, crashes>>

\* The same handler when nothing is due or payments are off: no intent, the
\* enrollments at once, and the code is not counted as used.
CoachRegisterFree(i, base, code) ==
  /\ Unused(i)
  /\ base = 0 \/ base >= MinRial
  /\ \E price \in {base, FinalAmount(base)} :
       /\ Priced(base, code, price)
       /\ ~PaymentsEnabled \/ price = 0
  /\ group' = [group EXCEPT ![i] = "paid"]
  /\ enrolled' = [enrolled EXCEPT ![i] = @ + Items]
  /\ UNCHANGED <<intentVars, codeVars, bankVars, req, crashes>>

-----------------------------------------------------------------------------
(* PaymentIntent.mark_paid *)

\* Mutant: anything but a redirected intent is taken for settled.
MarkPaidBeginIfRedirected(w, txn, next) ==
  LET i == req[w].intent IN
  /\ ~Locked(i)
  /\ IF status[i] # "redirected"
       THEN req' = [req EXCEPT ![w] = IF next = "idle" THEN NoRequest
                                      ELSE [@ EXCEPT !.at = next]]
       ELSE req' = [req EXCEPT ![w].at = txn, ![w].used = usedCount]
  /\ UNCHANGED <<intentVars, codeVars, groupVars, bankVars, crashes>>

\* Mutant: the status is read without the row lock.
MarkPaidBeginUnlocked(w, txn, next) ==
  LET i == req[w].intent IN
  /\ IF status[i] = "paid"
       THEN req' = [req EXCEPT ![w] = IF next = "idle" THEN NoRequest
                                      ELSE [@ EXCEPT !.at = next]]
       ELSE req' = [req EXCEPT ![w].at = txn, ![w].used = usedCount]
  /\ UNCHANGED <<intentVars, codeVars, groupVars, bankVars, crashes>>

\* The transaction has the row lock.  An intent that is already paid is left
\* alone and the request goes on to next; otherwise the code's counter is
\* read, without a lock on the code.
MarkPaidBegin(w, txn, next) ==
  LET i == req[w].intent IN
  /\ ~Locked(i)
  /\ IF status[i] = "paid"
       THEN req' = [req EXCEPT ![w] = IF next = "idle" THEN NoRequest
                                      ELSE [@ EXCEPT !.at = next]]
       ELSE req' = [req EXCEPT ![w].at = txn, ![w].used = usedCount]
  /\ UNCHANGED <<intentVars, codeVars, groupVars, bankVars, crashes>>

\* Mutant: the counter counts down.
CountUseDown(i, used) ==
  IF coded[i]
    THEN usedCount' = used - 1 /\ UNCHANGED active
    ELSE UNCHANGED codeVars

\* Mutant: payments without the code are counted too.
CountUseAlways(i, used) ==
  /\ usedCount' = used + 1
  /\ active' = (active /\ (MaxUses = 0 \/ used + 1 < MaxUses))

\* The counter of the code: read at MarkPaidBegin, written here.
CountUse(i, used) ==
  IF coded[i]
    THEN /\ usedCount' = used + 1
         /\ active' = (active /\ (MaxUses = 0 \/ used + 1 < MaxUses))
    ELSE UNCHANGED codeVars

\* COMMIT of that transaction: status, reference, targets and counter.  A
\* bank record brings its own reference; without one (free or dummy) the
\* reference is kept if there is one.
MarkPaidCommit(w) ==
  LET i == req[w].intent IN
  /\ status' = [status EXCEPT ![i] = "paid"]
  /\ refId' = [refId EXCEPT ![i] =
                 IF req[w].bank = None /\ @ # None THEN @ ELSE Receipt]
  /\ settled' = [settled EXCEPT ![i] = @ + 1]
  /\ CountUse(i, req[w].used)
  /\ UNCHANGED <<amount, coded, token, gp, groupVars, bankVars, crashes>>

-----------------------------------------------------------------------------
(* StartPaymentView *)

\* _begin: checks under the row lock, which is released before the dispatch.
StartBegin(w, i, gw) ==
  /\ At(w, "idle")
  /\ Admits(i)
  /\ gw \in PickGateway
  /\ PaymentsEnabled \/ gw = "dummy"
  /\ ~Locked(i)
  /\ status[i] \in {"initiated", "failed", "redirected"}
  /\ ~(status[i] = "redirected" /\ token[i] # None)
  /\ req' = [req EXCEPT ![w] = Request("dispatch", i, None, gw, settled[i])]
  /\ UNCHANGED <<intentVars, codeVars, groupVars, bankVars, crashes>>

\* _dispatch_to_gateway, the free and the dummy branch.
StartFree(w) ==
  /\ At(w, "dispatch")
  /\ amount[req[w].intent] = 0 \/ req[w].gateway = "dummy"
  /\ MarkPaidBegin(w, "marking", "idle")

AtBank(w) ==
  /\ At(w, "dispatch")
  /\ amount[req[w].intent] > 0
  /\ req[w].gateway = "sadad"
  /\ CredsOK
  /\ amount[req[w].intent] >= MinRial

\* The answers 503 (no credentials), 400 (amount too small) and 400
\* (unsupported gateway).
StartRefused(w) ==
  /\ At(w, "dispatch")
  /\ amount[req[w].intent] > 0
  /\ \/ req[w].gateway = "fake"
     \/ req[w].gateway = "sadad" /\ (~CredsOK \/ amount[req[w].intent] < MinRial)
  /\ Done(w)
  /\ UNCHANGED <<intentVars, codeVars, groupVars, bankVars, crashes>>

\* bank.ready(): the package makes its Bank row; no lock is held.
StartReady(w, b) ==
  /\ AtBank(w)
  /\ bank[b] = "absent"
  /\ bank' = [bank EXCEPT ![b] = "ready"]
  /\ owner' = [owner EXCEPT ![b] = req[w].intent]
  /\ req' = [req EXCEPT ![w].at = "redirect", ![w].bank = b]
  /\ UNCHANGED <<intentVars, codeVars, groupVars, isSuccess, opened, crashes>>

\* Mutant: ref_id always follows the last attempt.
StartRedirectLastRef(w) ==
  LET i == req[w].intent
      b == req[w].bank IN
  /\ At(w, "redirect")
  /\ ~Locked(i)
  /\ token' = [token EXCEPT ![i] = b]
  /\ refId' = [refId EXCEPT ![i] = b]
  /\ status' = [status EXCEPT ![i] = "redirected"]
  /\ bank' = [bank EXCEPT ![b] = "open"]
  /\ opened' = [opened EXCEPT ![i] = Append(@, b)]
  /\ Done(w)
  /\ UNCHANGED <<amount, coded, gp, settled, codeVars, groupVars, owner, isSuccess,
                 crashes>>

\* The second transaction: whatever the status has become, it is now
\* "redirected", and the payer is sent to the bank's page.
StartRedirect(w) ==
  LET i == req[w].intent
      b == req[w].bank IN
  /\ At(w, "redirect")
  /\ ~Locked(i)
  /\ token' = [token EXCEPT ![i] = b]
  /\ refId' = [refId EXCEPT ![i] = IF @ = None THEN b ELSE @]
  /\ status' = [status EXCEPT ![i] = "redirected"]
  /\ bank' = [bank EXCEPT ![b] = "open"]
  /\ opened' = [opened EXCEPT ![i] = Append(@, b)]
  /\ Done(w)
  /\ UNCHANGED <<amount, coded, gp, settled, codeVars, groupVars, owner, isSuccess,
                 crashes>>

\* Mutant: a failed attempt is tried again at once, without a limit.
StartInitRetries(w) ==
  /\ AtBank(w) \/ At(w, "redirect")
  /\ ~Locked(req[w].intent)
  /\ req' = [req EXCEPT ![w].at = "dispatch", ![w].bank = None]
  /\ UNCHANGED <<intentVars, codeVars, groupVars, bankVars, crashes>>

\* The except clauses: the gateway raised, before or after ready().
StartInitFails(w) ==
  LET i == req[w].intent IN
  /\ AtBank(w) \/ At(w, "redirect")
  /\ ~Locked(i)
  /\ status' = [status EXCEPT ![i] = "failed"]
  /\ Done(w)
  /\ UNCHANGED <<amount, coded, token, refId, gp, settled, codeVars, groupVars,
                 bankVars, crashes>>

-----------------------------------------------------------------------------
(* The bank (external) and the callbacks that verify a payment *)

\* The payer pays, or gives up, on the bank's page.
PayerActs(b, outcome) ==
  /\ bank[b] = "open"
  /\ bank' = [bank EXCEPT ![b] = outcome]
  /\ UNCHANGED <<intentVars, codeVars, groupVars, owner, isSuccess, opened, req,
                 crashes>>

\* bankgateways_callback_override: verify_from_gateway on the record the
\* bank names.  A verification that raises is swallowed and changes nothing.
CallbackVerify(b) ==
  /\ bank[b] = "charged"
  /\ isSuccess' = [isSuccess EXCEPT ![b] = TRUE]
  /\ UNCHANGED <<intentVars, codeVars, groupVars, owner, bank, opened, req,
                 crashes>>

\* SadadBankReturnView: the record is found through the intent, by its
\* token or else by ref_id; the package's callback verifies it.
BankReturn(i) ==
  \E b \in Banks :
    /\ IF token[i] # None THEN token[i] = b ELSE refId[i] = b
    /\ CallbackVerify(b)

\* go_to_bank_gateway_override: the way back to the bank's page of record b.
\* The page is opened with the token of b or, where ready() is called again,
\* with a new record c, which no intent refers to.
GoToBank(b, c) ==
  /\ bank[b] # "absent"
  /\ \/ c = b /\ bank[b] \in {"ready", "open"} /\ UNCHANGED owner
     \/ bank[c] = "absent" /\ owner' = [owner EXCEPT ![c] = owner[b]]
  /\ bank' = [bank EXCEPT ![c] = "open"]
  /\ UNCHANGED <<intentVars, codeVars, groupVars, isSuccess, opened, req,
                 crashes>>

-----------------------------------------------------------------------------
(* payment_result_redirect *)

\* Mutant: the result page trusts the tracking code and not is_success.
ResultRequestTrusting(w, b) ==
  /\ At(w, "idle")
  /\ bank[b] # "absent"
  /\ \E i \in Intents :
       /\ Admits(i)
       /\ Resolves(b, i)
       /\ LET point == IF status[i] = "paid" THEN "finalize" ELSE "settle"
          IN  req' = [req EXCEPT ![w] = Request(point, i, b, "sadad", settled[i])]
  /\ UNCHANGED <<intentVars, codeVars, groupVars, bankVars, crashes>>

\* Mutant: an unsuccessful record fails the intent, paid or not.
ResultRequestBlind(w, b) ==
  /\ At(w, "idle")
  /\ bank[b] # "absent"
  /\ \E i \in Intents :
       /\ Admits(i)
       /\ Resolves(b, i)
       /\ LET point == IF ~isSuccess[b] THEN "fail"
                       ELSE IF status[i] = "paid" THEN "finalize" ELSE "settle"
          IN  req' = [req EXCEPT ![w] = Request(point, i, b, "sadad", settled[i])]
  /\ UNCHANGED <<intentVars, codeVars, groupVars, bankVars, crashes>>

\* The unlocked reads: the bank record, the intent and its status.
ResultRequest(w, b) ==
  /\ At(w, "idle")
  /\ bank[b] # "absent"
  /\ \E i \in Intents :
       /\ Admits(i)
       /\ Resolves(b, i)
       /\ isSuccess[b] \/ status[i] # "paid"
       /\ LET point == IF ~isSuccess[b] THEN "fail"
                       ELSE IF status[i] = "paid" THEN "finalize" ELSE "settle"
          IN  req' = [req EXCEPT ![w] = Request(point, i, b, "sadad", settled[i])]
  /\ UNCHANGED <<intentVars, codeVars, groupVars, bankVars, crashes>>

\* Mutant: the group is finalised and the payment is not applied.
ResultSettleSkipped(w) ==
  /\ At(w, "settle")
  /\ ~Locked(req[w].intent)
  /\ Goto(w, "finalize")
  /\ UNCHANGED <<intentVars, codeVars, groupVars, bankVars, crashes>>

\* Status checked again under the lock, then mark_paid.
ResultSettle(w) ==
  /\ At(w, "settle")
  /\ MarkPaidBegin(w, "settling", "finalize")

ResultCommit(w) ==
  /\ At(w, "settling")
  /\ MarkPaidCommit(w)
  /\ Goto(w, "finalize")

\* Mutant: a group payment that is already paid is enrolled again.
ResultFinalizeAgain(w) ==
  LET g == gp[req[w].intent] IN
  /\ At(w, "finalize")
  /\ IF g # None /\ group[g] # "none"
       THEN /\ group' = [group EXCEPT ![g] = "paid"]
            /\ enrolled' = [enrolled EXCEPT ![g] = @ + Items]
       ELSE UNCHANGED groupVars
  /\ Done(w)
  /\ UNCHANGED <<intentVars, codeVars, bankVars, crashes>>

\* The description of the request's intent names a group that is not paid.
NamesOpen(w) ==
  LET g == gp[req[w].intent] IN g # None /\ group[g] = "open"

\* _finalize_group_payment_if_needed, under the group payment's row lock.
ResultFinalize(w) ==
  LET g == gp[req[w].intent] IN
  /\ At(w, "finalize")
  /\ IF NamesOpen(w)
       THEN /\ group' = [group EXCEPT ![g] = "paid"]
            /\ enrolled' = [enrolled EXCEPT ![g] = @ + Items]
       ELSE UNCHANGED groupVars
  /\ Done(w)
  /\ UNCHANGED <<intentVars, codeVars, bankVars, crashes>>

\* An exception in there is rolled back, logged and forgotten.
ResultFinalizeFails(w) ==
  /\ At(w, "finalize")
  /\ NamesOpen(w)
  /\ Done(w)
  /\ UNCHANGED <<intentVars, codeVars, groupVars, bankVars, crashes>>

\* The unsuccessful branch writes what it decided on the unlocked read.
ResultFail(w) ==
  LET i == req[w].intent IN
  /\ At(w, "fail")
  /\ ~Locked(i)
  /\ status' = [status EXCEPT ![i] = "failed"]
  /\ Done(w)
  /\ UNCHANGED <<amount, coded, token, refId, gp, settled, codeVars, groupVars,
                 bankVars, crashes>>

-----------------------------------------------------------------------------
(* GatewayCallbackView *)

\* The intent is the one that the pid of the request names, which is not
\* compared with the record, or else the one the result page would find.
CallbackRequest(w, b) ==
  /\ LegacyCallback
  /\ At(w, "idle")
  /\ bank[b] # "absent"
  /\ \E i \in Intents :
       /\ Admits(i)
       /\ status[i] # "absent" \/ Resolves(b, i)
       /\ LET point == IF isSuccess[b] THEN "callbackPaid" ELSE "callbackFail"
          IN  req' = [req EXCEPT ![w] = Request(point, i, b, "sadad", settled[i])]
  /\ UNCHANGED <<intentVars, codeVars, groupVars, bankVars, crashes>>

CallbackPaid(w) ==
  /\ At(w, "callbackPaid")
  /\ MarkPaidBegin(w, "marking", "idle")

\* COMMIT of mark_paid for the free, the dummy and the callback path, none of
\* which looks at the group payment.
MarkCommit(w) ==
  /\ At(w, "marking")
  /\ MarkPaidCommit(w)
  /\ Done(w)

\* The failure branch does not look at the status it overwrites.
CallbackFail(w) ==
  LET i == req[w].intent IN
  /\ At(w, "callbackFail")
  /\ ~Locked(i)
  /\ status' = [status EXCEPT ![i] = "failed"]
  /\ Done(w)
  /\ UNCHANGED <<amount, coded, token, refId, gp, settled, codeVars, groupVars,
                 bankVars, crashes>>

-----------------------------------------------------------------------------

\* A worker dies, or an exception ends the request: an open transaction is
\* rolled back, what was committed stays.
Crash(w) ==
  /\ ~At(w, "idle")
  /\ crashes < MaxCrashes
  /\ crashes' = crashes + 1
  /\ Done(w)
  /\ UNCHANGED <<intentVars, codeVars, groupVars, bankVars>>

\* The steps that carry a request on to its end.
Serve(w) ==
  \/ StartFree(w)
  \/ StartRefused(w)
  \/ \E b \in Banks : StartReady(w, b)
  \/ StartRedirect(w)
  \/ StartInitFails(w)
  \/ ResultSettle(w)
  \/ ResultCommit(w)
  \/ ResultFinalize(w)
  \/ ResultFinalizeFails(w)
  \/ ResultFail(w)
  \/ CallbackPaid(w)
  \/ MarkCommit(w)
  \/ CallbackFail(w)

Next ==
  \/ \E i \in Intents, base \in Bases, code \in BOOLEAN :
       \/ \E g \in Intents \cup {None} : CreateIntent(i, base, code, g)
       \/ CoachRegister(i, base, code)
       \/ CoachRegisterFree(i, base, code)
  \/ \E w \in Workers : Serve(w) \/ Crash(w)
  \/ \E w \in Workers, i \in Intents, gw \in Gateways : StartBegin(w, i, gw)
  \/ \E w \in Workers, b \in Banks : ResultRequest(w, b) \/ CallbackRequest(w, b)
  \/ \E b \in Banks : CallbackVerify(b)
  \/ \E b, c \in Banks : GoToBank(b, c)
  \/ \E b \in Banks, outcome \in {"charged", "declined"} : PayerActs(b, outcome)
  \/ \E i \in Intents : BankReturn(i)

Spec == Init /\ [][Next]_vars

\* A worker goes on with the request it took up: a thread keeps running, and
\* a row lock is handed to the waiting transactions in their order.  Nothing
\* is assumed of payers, browsers or the bank.
FairSpec == Spec /\ \A w \in Workers : WF_vars(Serve(w))

-----------------------------------------------------------------------------
(* Properties *)

\* A verified payment of the request's own intent.
Verified(r) == /\ r.bank \in Banks
               /\ owner[r.bank] = r.intent
               /\ isSuccess[r.bank]

\* In production no intent with a price is marked paid without a verified
\* bank record.  The result page settles on a record made for the very intent
\* it settles, whatever attempts, retries, callbacks and races rewrote token
\* and ref_id in the meantime; only the gateway callback, which goes by the
\* pid of its request, may settle on another one.
PaidIsBacked ==
  ~TestGateways =>
    /\ \A w \in Workers : At(w, "settling") => Verified(req[w])
    /\ \A i \in Intents : settled[i] > 0 /\ amount[i] > 0 =>
         \E b \in Banks : isSuccess[b] /\ (owner[b] = i \/ LegacyCallback)

\* A group registration makes its enrollments exactly once, however often the
\* result page is requested, retried after a crash or served twice at the
\* same time (_finalize_group_payment_if_needed).
GroupEnrolledOnce ==
  \A i \in Intents : enrolled[i] = IF group[i] = "paid" THEN Items ELSE 0

\* Until an intent is settled, the result page finds it from the first and
\* from the last bank page its payer was sent to: a late payment of the first
\* attempt still counts (token and ref_id in StartPaymentView).  Attempts in
\* between are not found again.
FirstAndLastResolve ==
  \A i \in Intents : settled[i] = 0 /\ opened[i] # <<>> =>
    /\ Resolves(Head(opened[i]), i)
    /\ Resolves(opened[i][Len(opened[i])], i)

\* Payments implements PaymentContract: an intent clears when mark_paid first
\* goes through.
Contract == INSTANCE PaymentContract WITH
  issued <- {i \in Intents : status[i] # "absent"},
  owing <- {g \in Intents : group[g] = "open"},
  cleared <- {i \in Intents : settled[i] > 0},
  names <- gp

\* A group that owes money gets its enrollments once, all of them, and only
\* on account of a cleared intent that names it: the result page never
\* delivers for a payment that was not applied, even when the status it read
\* was overwritten in the meantime (_finalize_group_payment_if_needed).
ImplementsContract == Contract!ContractSpec

\* mark_paid is applied to an intent at most once ("idempotent", and the
\* discount counter is bumped once).  Does not hold.
SettledOnce == \A i \in Intents : settled[i] <= 1

\* mark_paid is applied to an intent only while it is not paid: of several
\* requests that settle it at the same time one does, and who settles it
\* again found its status overwritten (the check under the row lock).
SettlesUnpaid ==
  [][\A i \in Intents : settled'[i] # settled[i] =>
       settled'[i] = settled[i] + 1 /\ status[i] # "paid" /\ status'[i] = "paid"]_vars

\* A paid intent loses its status only to the failure branch of the gateway
\* callback, or to a request that came in before it was paid: no retry and no
\* result page that comes later takes a payment back (StartPaymentView,
\* payment_result_redirect).
PaidLostToEarlierOnly ==
  [][\A i \in Intents : status[i] = "paid" /\ status'[i] # "paid" =>
       \E w \in Workers : /\ req[w].intent = i /\ req'[w] # req[w]
                          /\ At(w, "callbackFail") \/ req[w].seen < settled[i]]_vars

\* The payments made with the code, an element for each time.
CodedSettlements ==
  UNION {{i} \X (1..settled[i]) : i \in {j \in Intents : coded[j]}}

\* used_count never runs ahead of the payments made with the code: whatever
\* the races do, the code is not retired early (mark_paid's unlocked
\* read-modify-write can only lose a count).
NeverOvercounts == usedCount <= Cardinality(CodedSettlements)

\* used_count is the number of payments made with the code.  Does not hold
\* with two workers: two payments read the same used_count.
UsedCountExact == usedCount = Cardinality(CodedSettlements)

\* The discount code is not used more often than max_uses allows.
LimitRespected == MaxUses > 0 => usedCount <= MaxUses

\* Every request comes to its end: no worker waits for a row lock forever.
RequestsFinish == \A w \in Workers : ~At(w, "idle") ~> At(w, "idle")

\* Once a result page has read a verified payment, the intent gets settled,
\* if its worker does not die.
SuccessSettles ==
  \A i \in Intents :
    (\E w \in Workers : At(w, "settle") /\ req[w].intent = i) ~> settled[i] > 0

\* A paid group registration leads to its enrollments.
PaidGroupIsEnrolled ==
  \A i \in Intents : (status[i] = "paid" /\ group[i] = "open")
                        ~> group[i] = "paid"

-----------------------------------------------------------------------------
(* The inductive invariants of PaymentsProofs and SettlementProofs *)

\* Tracking codes and references lead to the intent the record was made for.
LinkInv ==
  /\ \A b \in Banks : bank[b] = "absent" => owner[b] = None
  /\ \A b \in Banks : owner[b] # None => status[owner[b]] # "absent"
  /\ \A i \in Intents : token[i] # None => owner[token[i]] = i
  /\ \A i \in Intents : refId[i] \in Banks => owner[refId[i]] = i

\* A verified payment, of whatever intent: what the gateway callback settles on.
AnyVerified(r) == r.bank \in Banks /\ isSuccess[r.bank] /\ LegacyCallback

\* What a request relies on after the point where it was read.
RequestInv ==
  \A w \in Workers :
    /\ ~At(w, "idle") => /\ req[w].intent \in Intents
                         /\ status[req[w].intent] # "absent"
    /\ req[w].gateway = "dummy" => TestGateways
    /\ At(w, "dispatch") => req[w].bank = None
    /\ At(w, "redirect") => /\ req[w].bank \in Banks
                            /\ owner[req[w].bank] = req[w].intent
                            /\ bank[req[w].bank] # "absent"
    /\ req[w].at \in {"settle", "settling", "finalize"} => Verified(req[w])
    /\ At(w, "callbackPaid") => AnyVerified(req[w])
    /\ At(w, "marking") => \/ AnyVerified(req[w])
                           \/ req[w].bank = None /\ amount[req[w].intent] = 0
                           \/ req[w].bank = None /\ TestGateways
    /\ At(w, "finalize") => settled[req[w].intent] > 0

\* Settled intents exist, and only they are paid.
SettledInv ==
  \A i \in Intents :
    /\ settled[i] > 0 => status[i] # "absent"
    /\ status[i] = "paid" => settled[i] > 0

\* TypeOK and the properties above are not inductive without the three.
IInv == TypeOK /\ LinkInv /\ RequestInv /\ SettledInv
          /\ PaidIsBacked /\ GroupEnrolledOnce

\* Until mark_paid goes through, ref_id names the first page the payer was
\* sent to, and the token the last one.
AttemptInv ==
  \A i \in Intents : settled[i] = 0 =>
    IF opened[i] = <<>>
      THEN token[i] = None /\ refId[i] = None
      ELSE /\ refId[i] = Head(opened[i])
           /\ token[i] = opened[i][Len(opened[i])]

\* A counter that a transaction has read, however long ago, was not ahead.
CountInv ==
  /\ NeverOvercounts
  /\ \A w \in Workers : req[w].at \in InTransaction =>
       req[w].used <= Cardinality(CodedSettlements)

\* One transaction at a time has an intent, and it found it unpaid.
LockInv ==
  \A v \in Workers : req[v].at \in InTransaction =>
    /\ status[req[v].intent] # "paid"
    /\ \A w \in Workers :
         req[w].at \in InTransaction /\ req[w].intent = req[v].intent => w = v

\* The points from where a retry or a result page overwrites the status.
Rewriting == {"dispatch", "redirect", "fail"}

\* A retry, or the failure of a result page, of an intent that was not
\* settled since it came in finds it unpaid.
SeenInv ==
  \A w \in Workers : ~At(w, "idle") =>
    /\ req[w].seen <= settled[req[w].intent]
    /\ req[w].at \in Rewriting /\ req[w].seen = settled[req[w].intent]
         => status[req[w].intent] # "paid"

=============================================================================
