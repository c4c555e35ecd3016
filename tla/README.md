# TLA+ models of the taekwondo federation's registration system

The program is a Django project (Django 4.2, REST framework, MySQL at READ
COMMITTED, no `ATOMIC_REQUESTS`) with a React client. Athletes, coaches,
referees and clubs apply for accounts; coaches register their students for
competitions and pay through a bank gateway; administrators approve
applications and edits, draw and number the matches and enter results, which
give ranking points. Everything happens in HTTP requests served by several
threads that share the database. There are no background jobs.

This directory holds TLA+ modules for the parts of that system whose state is
changed by more than one request, TLC configurations, and proofs checked by
TLAPS. `PROJECT.json` maps every definition to the lines it models.

## 1. Inventory

| Component | State | Operations | What is hard | What makes it correct |
|---|---|---|---|---|
| Payment intents (`payments/views.py`, `payments/models.py`) | `PaymentIntent`: status, amount, token, ref_id | create, start, bank callback, result page, gateway callback, `mark_paid` | row locks released around calls to the bank; repeated and late pages; several attempts; dying workers | paid only with a verified payment; the result page settles only the intent the payment was made for; never settled while paid; first and last attempt find the intent |
| Discount codes (`payments/discounts.py`, `DiscountCode`) | `used_count`, `active` | check at creation, count at payment | check and use far apart; unlocked read-modify-write | never used more than `max_uses`, counted once |
| Group registration (`CoachRegisterStudentsView`) | `GroupRegistrationPayment`, `Enrollment` | register, free registration, finalise after payment | payment commits before the enrollments | enrolled once, only after payment, eventually |
| Sign-up (`accounts/`) | `PendingUserProfile`, `PendingClub`, `UserProfile`, `TkdClub`, auth `User` | register, approve (admin and staff views), refuse, delete | lookups and INSERT are separate statements; batches that fail half way; SMS that cannot be undone | a key is shared, and a refused application comes back, only by requests that overlapped; nothing lost; reports true |
| Ranking (`competitions/models.py`) | `ranking_total` of profiles, clubs, boards; `RankingAward`; `RankingTransaction` ledger | award on payment, save/delete a result, delete enrollments | results saved again; whole-row writes over `F()` updates | every award and result moves totals by what it writes; organisations never get less than they are due |
| Profile edits | `PendingEditProfile`, `UserProfile` | file, approve (admin action and staff view), drop | filed in two statements without a transaction; approved from an unlocked read by two administrators; stale row written back | no confirmed edit is lost; role and flags agree |
| Coaches and clubs | `CoachClubRequest`, `coaching_clubs` | coach picks clubs, club asks coaches, coach answers | limit of three clubs checked on one path only, and before the clubs are set | clubs come from one act or from accepted requests, they do not pile up |
| SMS codes, login | `SMSVerification`, passwords | send, verify, forgotten password, log in | the three minutes computed in three places; two requests passing the rate limit; lost messages | two live codes of a phone only by overlapping requests; a reset password logs in; whoever keeps asking gets through |
| Draw, numbering, publication (`competitions/services/`) | `Draw`, `Match`, `FirstRoundPairHistory` | draw a bracket, number matches, clear, publish, withdraw | byes at the boundary; the count of players is stale; two enrollments of a player; redraw after numbering; mats moved after numbering | a slot for every enrollment, no empty bout, a bout after the ones that feed it, a draw numbered as a whole and on one mat, lists of mats without gaps |
| Self registration, poomsae, seminars, coach approvals | `Enrollment`, `PoomsaeEnrollment`, `SeminarRegistration`, `CoachApproval` | register, approve terms, issue codes | orders put together before and paid after each other; windows computed in several places | a code is shared, and a player enrolled twice, only by requests that overlap or an order that names him twice; pages and registration agree; payments are kept |
| Cards, dashboards, lists, reports | none of their own | read | several pages answer the same question with different queries | they give the same answer |
| Home page, discounts app, administration forms, web client, settings | content, configuration | – | – | – |

Components interact through the database only. Payments call `mark_paid` of
what was paid for; the result page makes enrollments from the payload of a
group payment; a paid enrollment gives ranking points; approving an edit writes
the profile row the points are kept in.

## 2. Modules

| Module | Models |
|---|---|
| `Payments` | payment intents, the bank as the code sees it, one discount code, group registrations |
| `PaymentContract` | abstract specification: issue, clear, deliver once |
| `PaymentsProofs` | theorems about `Payments`: types, backing, enrollments, refinement |
| `SettlementProofs` | theorems about `Payments`: attempts, the use counter, who may overwrite a payment |
| `Signup` | applications, both approval paths, refusal, deletion |
| `SignupProofs` | theorems about `Signup` |
| `Ranking` | awards, results, ledger, approval of an edit as a read and a write |
| `Brackets` | draws, numbers of bouts, publication |
| `Registration` | approvals of coaches, group and poomsae and seminar registration, windows, cards |
| `Membership` | edits of profiles, coaches and clubs, the lists and reports made of them |
| `Access` | SMS codes, forgotten passwords, login |
| `RankingProofs`, `BracketsProofs`, `RegistrationProofs`, `MembershipProofs`, `AccessProofs` | theorems about those five |
| `MCPayments`, `MCSignup`, `MCRanking`, `MCBrackets`, `MCRegistration`, `MCMembership`, `MCAccess` | instances for TLC |

A *worker* is a server thread serving one request; `req[w]` is its program
counter and local variables. Code between two statements that other requests
can observe is one action. `transaction.atomic()` under a row lock is one action,
except `mark_paid`, whose read and write of the unlocked discount code are two
steps of one transaction that holds the intent's lock (`Locked`).

### Payments

* `CreateIntent`, `CoachRegister`, `CoachRegisterFree` create an intent, a group
  payment with its intent, or the enrollments of a group that owes nothing. `gp` is the
  group that the `GP#id` of an intent's description names: `CoachRegister` writes
  that of its own group, while a client that creates an intent sets the description and may
  name any group, or none.
* `StartBegin` is `_begin` under the lock; `StartFree`, `StartRefused`,
  `StartReady`, `StartRedirect`, `StartInitFails` are the branches of
  `_dispatch_to_gateway`. The lock is released before the bank is called.
* `PayerActs` (external) is the bank's page; `GoToBank` is `go_to_bank_gateway_override`, the
  direct page to the bank, which opens a record again, or makes another of the same
  intent, without looking at the intent; `CallbackVerify` and `BankReturn` are the two ways a payment gets verified.
* `ResultRequest` .. `ResultFail` are `payment_result_redirect`: unlocked reads,
  `mark_paid` under the lock, then `_finalize_group_payment_if_needed` in a
  transaction of its own, which finds the group by the description (`NamesOpen`) and
  whose failure is swallowed.
* `CallbackRequest`, `CallbackPaid`, `CallbackFail` are `GatewayCallbackView`. Its `pid` names
  the intent and its parameters the bank record; the code never compares the two, so the
  action takes any intent and any record.
* `Crash` ends a request anywhere; open transactions are rolled back.

Abstractions: one discount code shared by all intents; `settled` counts how often
`mark_paid` went through and stands for `_apply_success_to_targets`; a group payment made
with an intent has the intent's name; a receipt never
equals the id of a bank row; the `gateway` column is only kept in the request; the
link token `lt` is never checked by the code and does not appear; hand edits of
intents in the admin are left out. `opened` (the pages opened for an intent) and `seen` (how
often the intent had been settled when a request came in) are history. A discounted group
price of 1..9,999 rials creates an intent that `StartRefused` turns away every time, as in
the code.

### Signup

Persons (player, coach, referee) share tables and checks and are one kind.
`licence` stands for `license_number` and `federation_id`, checked in the same
places in the same way. `Register`, `RunCheck` (one step per `exists()` query),
`InsertPending`, `FinishPending` and `FinishFails` are the registration views;
`AdminApprove` and `AdminApproveFails` the admin actions, one transaction over the
selected rows, which raises for an application that has its account already and came back by a
late write; `StaffRead` and `StaffAdmit` the staff views, which read before their
transaction; `RefuseRead` and `Refuse` the refusal with its SMS in between;
`DeleteAccount` the deletion of an account, which leaves the auth user. Hand edits of a
row in Django's generic change form are left out.
`confirmed`, `told`, `refused` and `reported` record what people were told. `met` is history: the
sets of applications that were in hand at the same time, `{a, b}` for requests for two
applications and `{a}` for two requests for one.
Clubs have a board (one without skips the second save). The phone check of
`SendCodeAPIView` is not enforced at registration and is not modelled.

### Ranking

Points are hundredths, and sums are `SumFunction` of the module `Functions`. Persons and
organisations are rows of different tables (`Profiles \cap Orgs = {}`). An award goes to whom the enrollment names or else to the
coach, club and board found on the player's profile; medals pay only whom the
enrollment names. `SaveResult` is `KyorugiResult.save`: rollback from the ledger, new
points, new ledger rows. `EditRead` and `EditSave` are the two halves of the approval
of a profile edit. `awarded` is history: what
enrollments, deleted ones included, have been given. Deleting an enrollment deletes its
`RankingAward` row and takes back no points, so what totals should hold (`Due`) goes
by what was awarded, not by the rows that are left. `ranking_competition` is not kept apart from `ranking_total`.
Coaches, clubs and boards are not deleted. `kyorugi_results_view`
(`competitions/admin.py`) passes an id where `apply_results_and_points` expects a
competition and fails before it changes anything, so `results_service.py` is not
part of the model; the kyorugi self-registration serializer names columns that do
not exist, so an enrollment is only ever committed paid.

### Brackets

One kyorugi competition; a group is a belt group and a weight. A draw seats *enrollments*
(`Entries`), and a player (`PlayerOf`) may have several, as the run `double_enrolled` shows:
places, byes and clubs go by the enrollment, while the history of pairs (`Meetings`,
`Remembered`) and the count that numbering asks for (`Several`) go by the player. `DrawPage` is the
first half of the draw page, which counts the participants and settles size and threshold;
`CreateDraw` and `CreateDrawFails` are `create_draw_for_group` in its transaction, with
the byes of `BYE_ORDER_MAP`, the search for the cheapest pairing (`Cost`,
`BestSeatings`: the 200 shuffles are taken to find the optimum, which small tables
justify), the history of first-round pairs and its deletion at New Year.
`NumberingView` is the numbering page with `NumberMatches`
(`number_matches_for_competition`: finals in a second phase, each mat counted from 1) and
`ClearNumbers`; `Publish`, `Unpublish` and `Shown` are the publication and what the public page
shows. The counters go by the mat a weight is assigned to now (`MatOf`), but a
bout that has a `mat_no` keeps it, and the public page lists by that column (`ListedOn`).
`Enroll`, `Withdraw` and `AssignMats` stand for payments, deletions and the mat form. Tables have
2 to 128 places. `is_locked` is never set and left out.

`NumberMatches` is one step. With reset, its clearing UPDATE locks the rows first and two calls come
one after the other. Two calls without reset at the same moment can both create the later rounds
of a draw (`_ensure_rounds_exist`); that is not modelled.

### Registration

One kyorugi and one poomsae competition and one seminar. `OpenEffective`, `OpenListed` and
`CanRegister` are the three places that decide whether registration is open, `Dashboard`,
`PlayerList`, `RefereeList`, `SeminarListed` and `SeminarSidebar` the lists that use them.
`Approve`, `DrawCode` and `CommitCode` are a coach's acceptance of the terms: the code is tested
against the rows on record and saved later. The unique constraint on codes is
conditional, MySQL does not create it, and two acceptances may draw the same code; `shared`
(history) remembers the codes drawn that way. `EditApproval`, `MoveApproval` and
`DeleteApproval` are the inline form of the administration, which can change the flags and
the coach of a row and delete it. The check and the write of a change by hand are one step.
`ShownCode`, `ShownPoomsae`, `PoomsaePage` are what a coach is shown
and `CoachesFor` whom a code is accepted for. `GroupRegister` is
`CoachRegisterStudentsView` with its checks of each student (`Accepts`); an order is a
sequence of lines and may name a student twice, as the view removes no duplicates.
`GroupPay` makes the enrollments when the order is paid; the payment itself is `Payments`.
`DeleteEnrollment` is a deletion by an administrator.
`PoomsaeRegister`, `PoomsaePay`, `SeminarRegister`, `SeminarPay` are the other two kinds.
`Listed`, `ListedPoomsae`, `EligibleSelf` are the pages that say who may register; `Card`,
`BulkCard`, `OfferedKyo`, `OfferedPoo`, `PageEnrollment` the pages that hand out cards, from two
tables that number their rows independently, to the player, his coach, his club and his
board (`MaySee`). `NextDay`, `SetManual` and `Promote` are the
calendar, the administrator's switch and an approved change of belt.

Two facts of the code shape the model. The self registration for kyorugi names
columns the table lacks (`serializers.py:993`) and always fails, so only the eligibility on its
page is modelled. A poomsae registration with nothing to pay fails after the row was
made and is rolled back, so the poomsae competition has a fee.

### Membership

`FileEdit`, `FinishEdit` and `FinishEditFails` are the edit of a profile: the
serializer saves the row (`Written`; what the form leaves out keeps its value), later statements
attach the clubs and derive the role from the flags, and nothing holds the two together. A form
may name any number of clubs. `ReadEdit` and `WriteEdit` are the approval: it reads edit and
profile without a lock and writes the whole profile later, on the path of the staff view, which keeps
what the edit left empty, or of the admin action, which clears it. `DropEdit` deletes
an edit. `UpdateCoachClubs` checks the limit and reads the clubs, `SetClubs` removes and adds
what differs from them; `UpdateClubCoaches` and `Respond` are the requests of a
club and their answers. The rest are the pages of coaches, clubs and boards and the reports, each
as the set or number it computes: `CoachStudents` .. `RoleCount` for `reports/services.py`,
`CoachPage` .. `Inbox` for the panels.

`confirmed` is the edit a person was told is filed, `crossed` the persons who were filing
while their edit was in an administrator's hands, `mixed` those whose pick met clubs it
had not read; all three are history. A person has one edit and one pick in hand at a time. The
answer to a request and the saving of its status, and the clubs an approval sets, are part of one
step. The page that shows an administrator the changes is left out: the approval reads the rows
again and does not depend on it. Texts copied beside the references (`coach_name`, `club_names`), dates,
belts and medals of the reports are left out.

### Access

`Draw` is what `SendCode` and `ForgotPasswordSendCode` share: clean-up, rate limit and a code
no row has; `Refused` is a request that gets no code, which has cleaned up all the same;
`Write` saves the row, in a later step, and sends the message, which may be lost. A row carries
the worker that wrote it (`by`), which tells two rows of one phone and code apart: they come from
different workers. `VerifyCode` and `ForgotPasswordVerify` are the checks, of three steps: `Enter`
cleans up, `Lookup` finds the row, and `AcceptSignup`, `AcceptReset`, `RejectWrong` and
`RejectLate` act on what it found, with the wrong code that deletes all codes of the
phone and the code found twice that raises. Between them another check of the same code may pass, so
one code may be accepted twice. The three minutes are computed where the code computes them: in
`Clean`, in `Limited` and in `Expired`, each with its own comparison. `Login`, `BoardLogin` and
`RolesOf` are the two login forms, one of which normalises digits. `Tick` is a minute. Tokens
are stateless JWTs and are left out.

## 3. Runs

| Run | Instance | Checks |
|---|---|---|
| `races` | 1 intent, 2 bank records, 2 workers, 1 crash, gateway callback | `TypeOK`, `GroupEnrolledOnce`, `FirstAndLastResolve`, `SettlesUnpaid`, `PaidLostToEarlierOnly` |
| `intents` | 2 intents that share the code and may name one group, 1 bank record, 2 workers, callbacks that name either intent | `PaidIsBacked`, `NeverOvercounts` |
| `gateways` | 2 intents, 1 bank record, 2 workers, prices 0 and 20,000, test gateways, gateway callback | `ImplementsContract` |
| `live` | 1 intent, 2 bank records, 2 workers, gateway callback, fair | `RequestsFinish`, `SuccessSettles` |
| `signup` | 2 applications, of persons and clubs, 3 workers | `TypeOK`, `SharedKeysMet`, `RefusalOvertaken`, `NothingLost`, `ReportTrue` |
| `ranking` | 2 enrollments in 2 results, the coach of one competes in the other, 2 saves, deletions, edits | `TypeOK`, `OrgsNeverShort`, `PointsFollowLedger` |
| `tables` | a group of three enrollments, two of one player who has met the third, and a group of two, in two weights, 2 mats, 2 draws, 1 edit | `TypeOK`, `NoEmptyBout`, `FeedersFirst`, `AllOrNone`, `RoomForAll`, `RepeatsOnlyWhenForced`, `MatListInOrder` |
| `registration` | 2 students, 2 coaches of whom one registers, 2 days, 2 codes, 2 orders of up to 2 lines | `TypeOK`, `CodesNeedOverlap`, `OpenAgrees`, `ListedAreAccepted`, `DoubleNeedsOverlap`, `CardsAgree`, `CodeStable`, `PaidKept` |
| `clubs` | a coach and his player, 2 administrators, 3 clubs of 2 boards, a limit of one club, 2 forms of which one names two clubs and one himself, 2 edits | `ClubsFromOneAct`, `NoEditLost`, `StaffListsAgree` |
| `codes` | 1 phone, 2 workers, 2 codes, 5 kinds of accounts, 1 typo, fair | `TwoCodesOverlap`, `ResetLogsIn`, `EveryoneGetsThrough` |
| `callback_resettles` (violation) | 1 worker | `SettledOnce`: a late failure callback reopens a paid intent |
| `double_enrolled` (violation) | 2 registering coaches, 2 orders of 1 line | `NeverTwice`: two orders with one student are both paid |

What some of them say. `SettlesUnpaid` and `PaidLostToEarlierOnly` are what is left of "settled
once and for good" with concurrent requests and the gateway's callback: `mark_paid` never goes through
for an intent that is paid at that moment, and a paid intent loses its status only to a
request that had read it before it was paid, or to a failure callback. `PaidIsBacked` holds for
the record of the very intent on the result page; the callback settles whatever its `pid`
names, on some verified record. `SharedKeysMet`, `RefusalOvertaken`, `CodesNeedOverlap`,
`DoubleNeedsOverlap` and `TwoCodesOverlap` say which overlap of requests each defect needs: without it,
and over any number of steps of others, it cannot happen. `TwoCodesOverlap` says it by the
worker: one worker serves its requests one after the other and never leaves two live codes.
`ClubsFromOneAct` says that the clubs of a coach whose request he did not accept were all named in
one form, or are within the limit, or were there at the start. `MatListInOrder` is about
the column the public page lists by, for the mats no numbered draw was moved to or from.

Bounds. `MaxSettlements` (1) turns away new requests only for an intent settled more
often, so a second settlement is still seen. `MaxCrashes` (1) is one dying worker;
a crash returns a worker to idle and leaves committed rows alone, so further ones repeat
the same situation. Two workers are enough for every race on one row, since each involves one
request that reads and one that writes in between; sign-up has a third, which approves
or refuses what the other two have filed. Two intents are needed for a callback that names
another intent and for the shared code, two records for a first and a last attempt; both at
once, with two workers and the callback, are beyond the five minutes of a run and left to the
proofs. `MinRial`, `Percent` and `Bases` are chosen so that discounted prices fall on the minimum
and on zero. `MaxSaves` (2) lets one result be saved again and two results be saved.

`MaxDraws` (2) lets a group be drawn again, or two groups be drawn for one mat; tables of four
are the smallest with byes, two rounds and a choice of pairings, and no size is typed in
(`Sizes` is empty), so the size is stale only by payments after the page was served. The
byes of all sizes up to 64 are checked apart from the run's states by the assumption
`ByesSpread` of `MCBrackets`, and proved in `BracketsProofs`. `MaxEdits` (1) is one deletion,
move, clearing or withdrawal in `Brackets`, one administrator's change or promotion in
`Registration`; in `Membership` it is the number of edits filed (2), so that an edit is filed over
another. `MaxOrders` (2) and `MaxLines` (2) let two orders overlap and one name a student twice,
`MaxKyo` (3) is room for their enrollments; `MaxPoo` (1) gives a
poomsae row with the id of a kyorugi row; `LastDay` (1) puts one competition's window on each
day, so that both ends of a window are seen; `Registering` leaves the second coach to the
approvals, where codes can clash. `MaxClubs` is 1 (3 in the code), so that a form that names two
clubs is beyond it. `Minutes` is 2 (3 in the code): a code has a minute in which it is
neither new nor about to expire; two codes allow two overlapping requests to draw the same or
different ones. `MaxTypos` (1) bounds wrong entries, each of which costs the owner his code.

Symmetry sets are used in safety runs only. Deadlock is not checked: with everything
used up and every worker idle the system may rest.

Fairness. `FairSpec` of `Payments` assumes of each worker that it goes on with a request it took
up (a thread runs on, and InnoDB hands a row lock to its waiters in order). Nothing is
assumed of payers, browsers or the bank. `Spec` of `Access` assumes that minutes pass and a
worker writes the code it drew (weak), and of people and the SMS provider, strongly: an owner
who has not got through and may ask goes on asking, one who holds a good code
types it and his check finds it before it expires, and of the messages sent over and over one
arrives whose code no other request drew at the same moment. Without the last no code could be
trusted to arrive; the code itself retries nothing. What a request does after its check found the
code is only assumed to go on (weak fairness of each worker).

### Counterexamples kept out of the runs

The modules also state properties that do not hold. TLC refutes each on an instance as small as
those of the runs, with at most two workers:

* `SettledOnce` with two workers and no gateway callback: `StartPaymentView` writes
  `redirected` over an intent that was paid while it talked to the bank.
* `UsedCountExact`: two payments with one code read the same `used_count`.
* `LimitRespected`: the last use of a code is checked at creation and consumed at payment.
* `PaidGroupIsEnrolled`: a group settled by the gateway callback is never finalised, unless
  someone opens its result page.
* `ReportTrue` for clubs: a batch that is rolled back is reported as approved.
* `CredentialsWork`: an auth user that exists (of a club's founder, or left by a deleted
  account) keeps its password, and the SMS names another.
* `TotalsBalanced`: a deleted result takes its ledger with it and leaves
  its points, and an approved edit writes an old total over new points.
* `EveryoneDrawn`, with a group of five (tables have at least four places): a size typed in, or
  counted before a late payment, is not raised, and whoever finds no slot is left out of the
  table without a word.
* `MatsContiguous`, in two ways: every call counts from 1, so two calls for two weights of one
  mat give a number twice; and a bout keeps its first `mat_no` while the counters go by the mat its
  weight is assigned to now, so after a weight is moved even one call over everything leaves gaps
  and repetitions on the page (`models.py:644` calls the numbers of a mat contiguous).
* `ShownFullyNumbered`: a table of two has only byes until the numbering makes its final, so
  it is published without a number.
* `UniqueCodes`: two acceptances that overlap draw the same code, which the conditional
  constraint would refuse if MySQL created it.
* `NeverTwice` also by one order that names a student twice.
* `PoomsaeEligibleOnly`: the registration looks at the belt and at neither gender nor age.
* `PoomsaeCardShown`: a kyorugi enrollment of the player with the same id hides the card.
* `AtMostMaxClubs`: a coach accepts a request after he picked other clubs, or files an edit
  with more.
* `NobodyOwnCoach`: the edit is refused after the row was saved, and can be approved.
* `RequestsSeen`: someone who is no longer a coach is asked to leave a club and is not shown
  it. `BoardStudentsAgree`: one goes by the club's board, the other by the profile's.
* `OneCode`: two requests for one phone pass the rate limit together; when they also drew
  the same code, every check of it raises `MultipleObjectsReturned` until it expires.

### Other observations

Met while reading the code, stated by no property:

* Two clubs may share a licence when their forms overlap (`SharedKeysMet` allows just that): no
  constraint and no later check looks at the licences of clubs.
* A discounted group price of 1..9,999 rials creates an intent that can never be started.
* The help text of the club threshold says "at least", the draw compares with `>`. The byes
  of a table of 128, which `BYE_ORDER_MAP` lacks, can leave both places of a bout empty.
* White belts of a `yellow_blue` competition are on the coach's list and not eligible on the
  page. The switch that forces registration open is honoured by the group registration and
  not by `can_register` of the kyorugi page. The seminar registration ignores its window.
  The first approval of a coach answers with an empty code. Nothing sets the status
  "canceled".
* An edit form may name any number of clubs. A request of a club that was answered
  once is never made again. The club filter of the board's referees raises `UnboundLocalError`.
  `competitions_report` and `finance_report` call services that do not exist.
* `is_expired` of a code (five minutes) is not used. The roles "referee" and "both" pass the
  serializer of the phone and are then refused by the view.

## 4. Proofs

Every property of section 3 that is not a liveness property is proved by TLAPS, for every
number of intents, attempts, workers, applications, enrollments, players, coaches, clubs and
codes and for every price and date, from the `...Assumption` of the module that declares the
constants. TLC evaluates these assumptions on every run. The exceptions to "every value" are
stated with each theorem below.

`PaymentsProofs`: `TypeCorrect`, `PaidBacked`, `EnrolledOnce` and `Refinement` (`Payments`
implements `PaymentContract`, whatever group a description names). `PaidIsBacked` is not
inductive: a request settles an intent on
the strength of a bank record it read several steps before. `IInv` adds `LinkInv` (token,
ref_id and owner of a bank record agree, so the lookups of the result page cannot lead to another
intent), `RequestInv` (what a request read and relies on is still true at each point: a verified
record stays verified, a settled intent stays settled; for the callback it is `AnyVerified`, a
verified record of whatever intent) and `SettledInv` (only settled intents are paid). One lemma
per action or group of similar actions; `RequestStep` and `DoneIInv` cover those that only
move a request.

`SettlementProofs` sorts the steps of `Payments` into the few kinds that matter for tokens and
settlements (`StepKinds`) and proves on top of `IInv`, for any number of workers and with the gateway's
callback:

* `FirstAndLastResolveCorrect`, through `AttemptInv`: as long as an intent is not settled, its
  `ref_id` is the first page opened for it and its token the last.
* `NeverOvercountsCorrect`, through `CountInv`: also the counter that an open transaction has
  read is at most the number of payments made with the code. The number of those payments is
  the cardinality of a set of pairs (`CodedSettlements`), which a settlement extends by one
  pair.
* `SettlesUnpaidCorrect`, through `LockInv`: at most one transaction has an intent, and the intent
  is unpaid from its check to its commit.
* `PaidLostToEarlierOnlyCorrect`, through `SeenInv`: a request that is about to overwrite the
  status, and since whose arrival the intent was not settled, finds it unpaid.

`SignupProofs`: `TypeCorrect`, `NoApplicationLost`, `SharedKeysMetCorrect`,
`RefusalOvertakenCorrect` and, for persons, `PersonReportsTrue`, all with any number of workers. For
`SharedKeysMet` the invariant (`SharedInv`) records, for each request, which lookups it has passed
and that whoever entered the tables behind a lookup was in hand at the same time; for
`RefusalOvertaken` (`OvertakenInv`), that a row somebody works on is there unless somebody else had
it in hand, and that up to its INSERT a registration has its application for itself.

`RankingProofs` starts with a theory of finite sums. `SumFunctionOnSet` is recursive over
subsets; that the recursion has a solution (`SumExists`), that it is determined (`SumUnique`), that
any element may be summed last (`SumRemove`) and that a sum depends on its summands only
(`SumSame`) are each proved by taking a smallest set for which they fail. From them follow what an
enrollment adds to `Due` and what a new ledger of one result changes in it. `StepMoves` then
says that a step moves every total as it moves what is due, or is the deletion of a
result, which only lowers what is due, or writes persons and nothing else; from this come
`PointsFollowLedgerCorrect` and, by induction, `OrgsNeverShortCorrect`.

`BracketsProofs` proves all seven properties of the run `tables`. `Inv` is the types, distinct ids
of the draws and, for each draw, `RowInv`: its empty places are exactly the byes for its number of
enrollments, it has no numbers or all of them, numbers follow rounds, and its bouts are on one mat
(`OneMat`). The entries of `BYE_ORDER_MAP` and the order made for the other sizes are checked to be permutations
(`ByeOrderPermutes`); that the i-th free place gets the i-th player, so that everybody sits once,
is `SeatingPlaces`. The assumption `NoneIsNoDraw` says that the value for "no draw" is no draw.
`Precedes` is shown to be a strict total order on the bouts of a mat
(`PrecedesTransitive`, `OrderTotal`), which needs the distinct ids, and counting the bouts that do
not come later numbers them without a gap (`NumbersFill`); on a mat no numbered draw was moved to
or from, the bouts the public page lists are those that were counted (`ListedIsCounted`), which gives
`MatListInOrderCorrect`. `NoEmptyBout` says "up to 64 places"
because it is false for 128: `BYE_ORDER_MAP` has no such entry. For `RepeatsOnlyWhenForced` two
exchanges of players turn any seating of a table of four into the other pairings; if the
cheapest repeats a pair, so does each of them (`AllRepeat`, since one repeated pair costs more
than two pairs of one club), and the three pairs found are different. It rests on the search
finding the optimum, which the model takes for granted.

`RegistrationProofs` proves all eight properties of the run `registration`. `EnrollInv` is the
types of the tables, `OrdersInv` (an order was put together when none of its students had a live
enrollment, and an unpaid one has made none), `EnrolledPaid` and `DoubleNeedsOverlap` itself.
`CodesNeedOverlap` rests on `DrawnInv` (a code that is drawn and not yet saved is on no row
and in no other hand, unless it is in `shared`), `LockedInv` (a request draws for a row without a
code and keeps it locked) and `DistinctCodes`, which includes the withdrawn approvals and is
what makes it inductive. `OpenAgrees`, `ListedAreAccepted` and `CardsAgree` relate different
queries over one state. The first two follow from the types, the third also needs
`EnrolledPaid`, case by case over the windows, the switch and the two tables of enrollments.

`MembershipProofs` proves the three properties of the run `clubs`, for any number of
administrators and any forms. Besides the types the invariant has `FilingInv` (what a
half-finished edit shares with its form; the role of a finished one agrees with its flags unless the
person named himself as coach; a confirmed edit that waits is the one on record), `DecidingInv` (an
approval during which nobody was filing holds the last edit, and a complete one), `RolesInv` (role
and flags of a profile agree, except for persons in `crossed` or who are their own coach) and
`ClubsInv` (the clubs of edits, approvals and picks under way come from one act).

`AccessProofs`: `TypeCorrect`, `TwoCodesOverlapCorrect` through `WriterInv` (a worker has written at
most one of the rows of a phone, and none while it is about to write one), and
`ResetLogsInCorrect` by cases over what an account consists of.

Only model-checked: the liveness properties `RequestsFinish`, `SuccessSettles` and
`EveryoneGetsThrough`, which need reasoning about fairness and `ENABLED` that is out of the
provers' reach.

## 5. Not modelled

Content pages, the second discounts app (it only computes a price), the schedule (nothing calls
it), the results entry page (it fails before it changes anything), administration forms and
date conversion, tokens, one-off scripts, settings, HTTP and encryption towards the bank, and
the web client. Of the reports, dashboards and cards only what decides who appears is
modelled. `PROJECT.json` lists each part with its reason.

## 6. Plan

1. *Proofs*: `AtMostMaxClubs` for coaches who neither answer requests nor file edits, and a
   bound for how far `LimitRespected` can be exceeded (by the intents that were open together).
2. *Composition*: payment of a group with the enrollments, the ranking points and the place in
   a table it gives.
3. *Larger instances*: tables of eight, three clubs with the limit of the code.
