# FX deal manager: TLA+ models, checks and proofs

The service keeps foreign-exchange deals in PostgreSQL.  A trader enters and
validates a deal, a positioner decides on it, and an approved deal's two
payments are sent to the position system (POSITIONS-ASUBANK).  This directory
holds specifications of the parts whose correctness depends on orders of events:
the status machine, overlapping requests on one deal, the sending of payments,
the pricing of a deal while its reference data change, and what is read beside
all that: the regulatory report, the audit log and notifications, the positions
overview.

    cd tla
    tlc -workers 2 -config DealLifecycle.cfg MCDealLifecycle.tla
    tlapm DealLifecycleProofs.tla

## 1. Inventory

Paths are relative to `src/src/fx_deal_manager/`.

| component | state | operations | properties that make it correct |
|---|---|---|---|
| deal status machine: `services/deal_service.py`, `services/approval_service.py`, `api/routes/deals.py` | `fx_deal` row (status, verdict, terms, value date, trader, positioner), `payment` rows, `positioner_solution` row | create, update, validate, submit, approve, return, reject, take-for-edit, cancel | only the documented status changes; nothing is queued, approved or executed that is not validated and priced; an EXECUTED deal was delivered; four eyes; decision on record |
| requests and transactions: `core/database.py`, `repositories/deal_repository.py` | one session (identity map, dirty attributes) per request; committed tables | three SELECTs to load, flush, commit, rollback | whatever overlaps, payments come in pairs, a status is one the trail accounts for, EXECUTED means this request's send was accepted |
| position adapter: `integrations/position_client.py` | attempt counter, result list, backoff; bookings at the position system | POST per payment, retry, backoff, give up | success means everything is booked; duplicates come only from unanswered POSTs and are bounded; it returns unless an answer never stops coming |
| pricing: `services/{validation,limit_check,settlement,payment_calculator,nostro_assignment}.py`, `repositories/{nsi,limit}_repository.py` | none of its own: value date, verdict and payments of the row, read-only NSI tables | validate_deal and what it calls | a VALID deal settles on the right business day, its payments balance, use active accounts and respect the limits |
| audit log: `services/audit_log_service.py`, `repositories/audit_repository.py`, `api/routes/audit.py` | `audit_log_entry` rows | append (in the caller's transaction, stamped with its start), list page by page | the STATUS_CHANGE entries chain; paging misses nothing |
| regulatory report: `services/regulatory_report.py`, `api/routes/reports.py` | none; writes an audit entry when it refuses | select, check against NSI, refuse or serialise, answer in JSON or CSV | a report that passes its check can be serialised, has every VALID deal, and names accounts that exist; a refusal has a reason on record |
| notifications: `api/routes/notifications.py` | `user_notification_state` row | list with unread count, read-all | what was marked read stays read; the count is right |
| positions overview: `api/routes/positions.py` | none | sum the payments of open deals, ask the position system | no payment that is due falls between the two reads |
| preferences, quotes, deal list, NSI routes | `user_preference` row | reads; one PATCH | - |
| authentication, settings, start-up, logging | none that a deal depends on | - | - |

Interactions: a route builds one service on one session; services call
repositories (flush) and commit once, except that a refused validation or
submission commits its verdict before the 422; `approve_deal` calls the position
system over HTTP in the middle, before it has written anything; the position
system and the reference data change by themselves.

What is hard here: there are no row locks and no version column, so requests on
one deal overlap at every `await`; a copy loaded at the start is acted on after
an HTTP call of up to a minute; the ORM writes changed *columns* and the rows it
*loaded*; POSTs are lost, repeated and late; a crash or failed COMMIT can fall
between sending and recording; reference data change between validations, between
the SELECTs of one validation and between those of a report; audit entries become visible in another order
than their stamps; money is rounded by columns and by `quantize`.  `PROJECT.json` lists these hazards at
their lines with the properties aimed at each.

## 2. Modules

| module | models | code |
|---|---|---|
| `DealRules` | rows, guards and in-memory effects of every operation, as operators shared by the next two modules | the two services, `require_role`, `domain/models.py` |
| `DealLifecycle` | one action per operation, requests one after the other, with the audit trail and what the position system booked | the routes of one deal |
| `DealStatus` | the abstract promise: which status follows which, by whose decision, and that EXECUTED is delivered and final | - |
| `DealRequests` | the same operations as overlapping requests: SELECT row, payments and solution, send payment by payment, commit or abort; the audit log by commit and by stamp | sessions, repository, `approve_deal` |
| `PositionSend` | `send_deal`: retries, timeouts, backoff, a position system that loses, delays, refuses and fails | `position_client.py` |
| `SendContract` | what a caller of `send_deal` may rely on | - |
| `DealPricing` | checks, limits, calendar, value date, payments and accounts, with edits and NSI that change, also between the SELECTs of a validation | validation and what it calls |
| `PositionsOverview` | the two reads of the overview between the steps of `DealRequests` | `positions.py`, `positions_report` |
| `RegulatoryReport` | the SELECTs of the report, its check and its answers in both formats, beside deals and NSI that change | `regulatory_report.py`, `reports.py`, `list_deals_for_regulatory_report`, `nsi_repository.py` |
| `Notifications` | the audit log as it is written (stamp and commit apart) and read (pages, badge, read-all) | `audit_repository.py`, `notifications.py` |
| `DealRulesProofs` | lemmas about the rules, for the next two | - |
| `DealLifecycleProofs`, `DealRequestsProofs`, `PositionSendProofs` | theorems; the second also about `PositionsOverview` | - |
| `OrderFacts` | lemmas about sets of numbers: least and greatest element, induction up and down, the function a loop computes | - |
| `DealPricingProofs`, `RegulatoryReportProofs`, `NotificationsProofs` | theorems | - |
| `MC...` | values of the constants | - |

`DealRequests` takes its guards and effects from the same `DealRules` operators as
`DealLifecycle`, and it implements `DealLifecycle`
when requests do not overlap (run `requests_serial`, theorem `Refinement` of
`DealRequestsProofs`); `DealLifecycle` implements
`DealStatus`, and `PositionSend` implements `SendContract`.

**State.**  `deal` is the `fx_deal` row as a record with the code's column names
shortened (`state`, `valid`, `terms`, `date`, `trader`, `positioner`),
`payments` the `payment` rows and `solution` the `positioner_solution` row.  In
`DealLifecycle` and `DealRequests` everything a trader types except the value
date is one value `terms`; the calendar is the constant `Settle`, a set of dates
settlement may yield for terms and a stored date, so every calendar is covered;
field, limit and account checks may fail at every call.  `DealPricing` opens these up.
A request of `DealRequests` has a phase, the copy it loaded and the payments it has yet to send;
commit writes the columns that differ from the copy (`Merged`), deletes the payment rows *it loaded* and
inserts its own (`Rows`), and fails on a second `positioner_solution` (`Violates`).
The audit log is known by two of its STATUS_CHANGE entries: the one committed
last, and the one on top for a reader, as `audit_repository.py:46` sorts by
`created_at`, which is the start of the transaction (`models.py:183`).
Transactions start in the order of the requests' identities, since `LoadRow` is
BEGIN and the first SELECT in one.
`Abort` at any point stands for a crash, a lost client, a flush or commit
error and fault injection.  The first use of `LookupCache` runs a SELECT that may
flush the UPDATE early and hold the row lock across the send; the behaviours
this leaves are among those modelled.

**PositionSend.**  One action per outcome of the `try` in the loop: `Accepted`
(2xx with a readable body), `Refused` (4xx: final at once), `Unclear` (5xx,
unreadable answer, timeout: backoff and retry, or give up on the last attempt).  `Book`, `Answer` and `AnswerLate` are the position system and the
network: a POST given up may be booked later.  httpx's `timeout=15.0` is the time it
waits for one connect, read or write, never for a whole request: `Trickle` is an
answer whose bytes come now and again (`arriving`), and such a POST, or the IdP's
answer to the request for a token (`Token`), is not given up.

**DealPricing.**  Amounts are in cents, rates in 1/`Unit`; requests may carry a
digit more and `Column` is the rounding of `NUMERIC(18,2)` and `NUMERIC(18,6)`.
Days are numbers; `trade_date + 30` and the 366-day guard are the constants
`Window` and `Patience`.  `Validated` follows the order of `validate_deal` and its
four ways out: a recorded refusal (issues, limits, accounts), an unrecorded one
(no settlement date), a rollback (a counter amount that does not fit its
column), success.  `validate_deal` reads the counterparty, the currencies, the
limits, the calendar and the accounts one SELECT after the other (lines 194-241)
under READ COMMITTED: `Validate` takes any course of changes between these
(`Courses`, at most `MaxChanges`) and works on what each table held when it was
read (`Found`), which may be no state the NSI ever had.  Two ghosts: `checked`, what the last successful
validation has read, and `given`, whether a trader gave the value date on the row.  The
deal stays a DRAFT: validating outside DRAFT is the subject of `DealLifecycle`.
An account number may be too long for `payment.account_code` (34 against 30
characters): that validation is rolled back like an amount that does not fit.

**PositionsOverview** adds one variable, the overview in progress, to
`DealRequests`: `Read` twice in the order of `positions_overview`.  Sets of
payments stand for sums.  The exposure has no date; the position system is asked
for one (`positions.py:34`), and payments reach it with their value date
(`position_client.py:49`).  What its report of a day takes in is its own affair:
`Due[day]`, any set of value dates for each day.

**RegulatoryReport.**  `read` is what the report has in its session after each
SELECT, one action per SELECT; `Conclude` is everything after the last one, where
nothing is awaited.  An account is looked up by its number, where the last row by
id wins, then by its id (`Resolve`); when both maps are built, the session hands
out the objects it already holds (`ById`).  JSON is the list of items, CSV has a
row for each payment and so nothing of a deal without payments (`Rendered`).  `OPEN` stands for every status but
CANCELLED, since the report looks at none of them.  A deal is an exchange, a
counterparty, a verdict and its payments; the check of `account_code` being empty
is left out, as validation always stores a number.

**Notifications.**  `clock` counts the transactions that write to the log; an
entry's stamp is the start of its transaction (PostgreSQL's `now()`), and it is
visible from the commit on.  `Pages` is every result `ORDER BY created_at DESC
OFFSET .. LIMIT ..` may have, as entries of one stamp come in any order.  The
walker through the pages is the client's; `read_all` is a SELECT, a look at the
clock and a commit.

## 3. Runs

Passing:

| run | shows | bounds |
|---|---|---|
| `lifecycle` | `PaymentsCurrent`, `ValidIsPriced`, `QueuedIsPriced`, `ExecutedDelivered`, `DecisionOnRecord`, `AuditUnbroken`, `KeepsPromise` | a trader, a positioner and an administrator (every role that acts, and one user who may do everything), two terms and two dates, so that an edit, a changed calendar and a stale date can each be told apart; the trail keeps its last entry, so rounds are unbounded |
| `requests` | what survives overlap: `BatchesWhole`, `StatusRecorded`, `DecidedHasSolution`, `ExecutionConfirmed` | two requests at a time (every interleaving hazard listed needs two), five that pass their checks after create (`MaxRequests`: validate, submit and three more, so that two of them race over a queued deal and one follows), slots symmetric |
| `requests_serial` | `ServesSerially`: one request at a time implements `DealLifecycle`, aborts and half-sent payments included; `NothingMissed`: the positions overview beside it | one request at a time, seven in all (`MaxRequests`): a deal is validated, submitted, returned, taken back, submitted again and executed within them, and one more; any number of overviews, of the day the payments are due and of another one |
| `send` | `DuplicatesExplained`, `AtMostRetries`, `BackoffBounded`, `KeepsContract`, `SendEnds` | two payments (all a deal has), three attempts (the default) |
| `pricing` | `SettlesOnTime`, `PaymentsBalance`, `LimitsRespected`, `PositiveAmounts`, `RevalidationStable` | a Friday and a Saturday, amounts and rates that round to nothing, round up and overflow; NSI with a holiday, a worked Saturday, a shut window, missing and closed accounts, all four kinds of limit, a missing currency and an account number that is too long; one change of the NSI within a validation (`MaxChanges`: enough for verdicts that no one state of the NSI would give), any number outside |
| `report` | `ExportResolved`, `CrashExplained`, `ExactWhenQuiet` | two deals (one can spoil the other's report), four states of the NSI: regular, an account known by its id and an incomplete counterparty, two accounts of one number, a currency gone; seven commits of others (`MaxCommits`: both deals created, validated and changed, and the NSI changed) |
| `notifications` | `MarkedStaysRead`, `BadgeExact`, `WalkComplete` | three transactions of one or two entries, pages of two (so that a page is full, half full and cut between equal stamps), four requests of one user, two at a time |

The statements are in the comments above the properties.  Deadlock checking is off
where the system comes to rest: `PositionSend` (`send_deal` has returned and
nothing is in the network), `DealRequests` and `Notifications` (the bounded
requests are served).

`CrashExplained` is the boundary of the crash that `never_crashes` shows: a VALID
deal never causes it, also when its currency is deleted between the SELECTs.
`ExportResolved` and `ExactWhenQuiet` say what a report means with and without
commits in between: in between, a VALID deal may come without payments, in a CSV
(one line per payment) then not at all.  Without, every VALID deal that is not
cancelled is there, in either format, with both its payments.

`StatusRecorded` does not say that the newest entry of the log names the status:
with an approval that was sending while a return was committed, the row is
EXECUTED and the log, sorted by the start of transactions, has REJECTED on top.
The property says which disagreements there can be.  `NothingMissed` is about
payments that the position system counts on the day asked for, `SendEnds` about
answers that end, and `RevalidationStable` about what a validation read; the list
below says what lies outside each.

Violated: five disagreements between the code and its documents, messages or
tests, each with a shortest trace.

| run | what the trace shows |
|---|---|
| `resend_possible` | after a failed send the deal is APPROVED for ever; the user guide speaks of a resend by the administrator |
| `executed_is_closed` | a submit, cancel, return, take-for-edit or second approval that loaded the deal before it was EXECUTED overwrites the status or sends the payments again; the tests forbid each of these, one request after the other |
| `executed_was_sent` | an edit that read the row before a validation committed and the payments after it deletes these and leaves the verdict VALID (it writes only what it changes in its copy, which says NOT_VALIDATED); the deal is submitted and approved as usual and "executed" without sending anything.  An edit that commits between the load and the commit of a submit does the same, in a trace as long |
| `never_crashes` | one draft in a currency the NSI lacks takes the report of the whole period down with a KeyError, where the test plan expects a protocol of errors |
| `forward_date_is_given` | a date computed for SPOT passes for the explicit date of a FORWARD deal |

Seen while modelling, and in no run:

* The change to APPROVED is never logged as STATUS_CHANGE: a successful approval
  logs one from WAITING_FOR_POSITIONER to EXECUTED (`approval_service.py:112`), a
  failed one none.  `docs/ПМИ.md:78` wants «STATUS_CHANGE (WAITING → APPROVED)» and
  «STATUS_CHANGE (APPROVED → EXECUTED)», `docs/Руководство-администратора.md:39` says
  the log is kept «на каждом изменении состояния сделки».  This is a disagreement
  of code and documents; no property restates what the code does here.
* Two requests that overlap leave a log whose newest entry need not name the
  status of the deal, as said above of `StatusRecorded`.
* Validating a queued or executed deal is refused with "Only DRAFT deals can be
  validated" (`validation.py:25`) and sets it INVALID all the same.
* A deal can be VALID with a verdict that no one state of the NSI gives, when the
  tables change between the SELECTs of its validation.
* The regulatory report in CSV leaves out the deals without payments, which JSON
  has: `docs/PMI-недостающий-функционал.md:177` asks for «выгрузка всех сделок с
  НСИ», line 170 for «CSV: одна строка на платёж».
* The overview of a day counts a payment twice while its deal is being sent, and
  for good when a deal stays APPROVED with one payment booked; a payment of an
  executed deal that is due after that day may be in neither sum: EXECUTED deals
  have left the exposure, whatever their value date.
* An answer that keeps coming byte by byte keeps an approval, with its database
  session, open for as long as it comes: there is no limit for a whole request.
* An entry of an approval that was waiting for the position system can be read
  before it is committed, as `read-all` marks by the clock; overlapping read-alls
  can make entries unread again (`MarkedStaysRead` excepts them).

**Fairness.**  `PositionSend` assumes `WF_vars(Client)` only: the event loop runs the
coroutine when it can go on, `asyncio.sleep` returns, and httpx gives up a request of
which it has read nothing for 15 s.  It can not go on while bytes are `arriving`;
whoever is asked decides how often they do, nothing is assumed of it, and
`SendEnds` says that either `send_deal` returns or bytes arrive for ever.
`ResendPossible` is checked under strong fairness of every user's submit,
approve, decide and take-for-edit (`FairSpec`), so its violation is not users
merely being idle.  No other property needs any.

## 4. Proofs

Everything below is for any value of the constants that satisfies the named
assumptions:

* `RulesAssumption`: users have roles, and `Settle` yields dates;
* `OverviewAssumption`: `Due` gives a set of value dates for each day, whichever;
* `RequestsAssumption`, `SendAssumption`, `NotificationsAssumption`: the bounds, the number of
  payments and `position_send_retries` are natural numbers, 0 included; a page has
  at least one entry (`ge=1` in `audit.py`, `max(page_size, 1)` in `notifications.py`);
* `PricingAssumption`: dates, amounts and rates are numbers, those a trader enters
  positive and such that they fit their column; every state of the NSI has the
  shape of its tables (`NsiShape`: ids are keys, accounts and limits refer to
  currencies that exist, a currency has at most the two decimals of the columns,
  a table has finitely many rows); the changes within one validation are a natural number;
* `ReportAssumption`, `ReferenceAssumption`: the same for the tables the report reads.

Every invariant, action property and refinement that a passing run checks is
stated by a theorem.

`DealLifecycleProofs`: `Invariance` proves the inductive invariant; from it
`TypeCorrect`, `PaymentsFollowTerms`, `ValidHasPayments`, `QueueHasPayments`,
`Delivery`, `FourEyesPrinciple`, `AuditTrail` and `Refinement`
(`DealLifecycle` implements `DealStatus`): every property of the run `lifecycle`.  `ExecutedDelivered` alone
is not inductive: that an approval delivers *the payments of the deal* needs
`QueuedIsPriced`, which needs that a VALID deal is priced with its current terms
(`ValidIsPriced`) and that edits drop payments (`PaymentsCurrent`), through any
number of returns and resubmissions.  `DecisionOnRecord` needs that the decision
row and the status move together.

`DealRequestsProofs`: for any number of slots and of requests in all, `Invariance`,
and from it `TypeCorrect`, `WholeBatches`, `StatusOnRecord`, `DecisionKept` and
`Confirmed`: every property of the run `requests`.  What a commit writes depends on
a copy that may be stale, so the invariant adds, for every request in progress,
what stays true of its copy while the deal moves on (`Sound`): the payments it
loaded are whole batches; a solution or a positioner it saw is still there,
since no handler takes them away (`Precedes`); and only an approval sends, having
booked what is no longer on its list (`InOrder`).  Of the log it says (`LogInv`)
that the top entry is the last one or one of a request that began later, and that
the last one names the row's status, APPROVED excepted.  `RowsWhole` is the heart of
`WholeBatches`: deleting the dropped rows of one whole set and inserting those of
another into a third leaves a whole set, because a batch is in each of them
altogether or not at all.

`PositionSendProofs`: the invariant is per payment (`LegInv`): the bookings so
far, the POST in flight and the late POSTs together never exceed the attempts
made, and a finished payment is booked.  From it `Explained`, `Bounded` and
`Refinement` (`PositionSend` implements `SendContract`).

The pauses are counted beside it (`ClockInv`): what has been slept is at most a
full doubling sum for every payment behind, and `TwoTo[attempt - 1] - 1` for the
present one.  `TwoTo` is a recursive function; that there is one for its equation
is `LoopExists` of `OrderFacts`.  From `ClockInvariance`: `TypeCorrect` and
`PausesBounded`.

`DealRequestsProofs`, second part, for a single slot (`OneSlot`): nothing commits
between a request's SELECTs and its own commit, so its copy is the deal
(`Current`).  Then the column-wise `Merged` is what the handler wrote
(`MergedCurrent`), a commit is one handler of `DealLifecycle`
(`CommitIsHandler`, seen through `WithoutBatches`, which forgets which validation
inserted a payment), a payment that is accepted is a step of a send that may yet
be lost, and everything else stutters.  `Refinement` proves `ServesSerially`,
`SerialInvariance` that an EXECUTED deal is delivered here as well.
`OverviewWhole` (`NothingMissed`), for any days and any `Due`, follows from that and
from bookings that only grow: between the reads a payment can move from the exposure to the positions,
never back.

`DealPricingProofs`: the invariant is `ValidStands`: a VALID deal would pass its
validation once more if the tables held what its own validation read of them
(`checked`, which need not be a state of the NSI), and come
out as it is.  What a validation finds has the shape of the tables, row by row
(`FoundFacts`); that the tables fit together is not needed.  Edits drop the verdict, a changed NSI does not touch `checked`, and that the
second validation computes what the first has stored is `SucceedsAgain`.  Everything else is
read off one successful validation: `DatesRight` from what the two loops of
`_add_business_days` find (`RollFacts`, `WalkFacts`, by induction down from the day
the search is given up), `ExchangeBalanced` from the rounding of `quantize`
(`HalfUp`: half a cent at most), `WithinTheLimits` from `CascadeFacts`: the `max` over
specificity and age is the first of the four levels that has a limit, and its
oldest.  Then `AmountsPositive`, `TypeCorrect` and `ValidationIdempotent`.

`RegulatoryReportProofs`: the invariant is in three layers.  `DealsSound`: the
payments of a deal are an exchange or none, two when it is VALID.  `ReadSound`: what each
SELECT has read, whatever is committed afterwards; a deal that was asked for and
is not cancelled is among the rows, as a status never returns from CANCELLED.
`ReadFresh`: without a commit in between, what has been read is what is there.
The answer is proved from these and from how an account is looked up.  Theorems:
`AccountsResolved`, `CrashCause`, `ExactUndisturbed`, `TypeCorrect`.

`NotificationsProofs`: all that a page says of the order is how many entries there
are since a stamp.  `BadgeRight` counts those (a page of the newest has the unread
ones first); for `WalkMissesNothing` the invariant is that an entry with a stamp of its
own that a walk has not seen lies behind the pages it has (`Walking`), since the
log only grows and so pushes entries back; for `MarksLast` that one
read-all is in progress at a time until two overlap (`OneAtATime`), its copy of the
row being the row.

The inductive invariants are written with the actions and predicates of the
modules the runs check and have been run through TLC on the runs' instances.

Only model-checked: liveness (`SendEnds`) and the disagreements of section 3 (a
trace needs no theorem; `ResendPossible` is liveness as well).  Fairness and
ENABLED are outside the prover.

## 5. Not modelled, and why

* User preferences (`me.py`): one row per user without a rule between its columns;
  overlapping first PATCHes both INSERT and one fails, as in `Notifications`.
* Quotes, the deal list and its export (`/reports/deals`), NSI routes: single reads
  of committed rows that nothing else depends on.
* The columns of the regulatory CSV and the amounts in the overview.
* Requests that overlap in `DealPricing`: nobody else writes the row while a
  validation reads the NSI there.  Overlapping writers are in `DealRequests`, where
  a check against the NSI may come out either way at every call.
* BEGIN apart from the first SELECT (`DealRequests`): they are one step, so an entry
  of a transaction that began first but read second is not told apart there;
  `Notifications` has BEGIN, stamp and commit as steps of their own.
* How the position system's report of a day is made up: `Due` stands for it.
* Authentication, settings, start-up, logging, schemas: users and roles are
  constants; no state of a deal.
* The automatic submission at a deadline of the user guide (line 15): there is no
  such code.
* Names, comments, wording, HTTP codes.

## 6. Plan

1. *(done)* `DealRules`, `DealLifecycle`, `DealStatus` with proofs; `DealRequests`;
   `PositionSend`, `SendContract` with proofs; `DealPricing`.
2. *(done)* `RegulatoryReport`, `Notifications`, `PositionsOverview`; the
   invariant of `DealRequests` proved.
3. *(done)* The invariants, refinements and action properties of all runs proved.
4. *Prove more.*  For a single slot, what `DealLifecycleProofs` says of `DealLifecycle` carried
   over to `DealRequests` along its `Refinement`; a bound on the steps `send_deal`
   takes (the measure that makes `SendEnds` true); what `never_crashes` leaves of
   the report when every draft is in a known currency.
5. *Extend.*  `DealPricing` composed with `DealLifecycle`: the calendar of the one as
   `Settle` of the other, limits checked at submit while an edit commits;
   `PositionSend` as the send step of `DealRequests`.
