# A verification project for Annai Illam

Annai Illam is a staffing service: clients post requirements and pay a quote,
admins assign workers to the days of a requirement, workers check in, and
payroll turns attendance into payouts.  This directory holds TLA+ modules that
model the parts of the backend in which money or people can be counted twice,
the sessions of the three applications that call it and the screens from which
they do, TLC configurations that check them on small instances, and proofs,
checked by TLAPS, of the theorems that matter most for every instance.

Paths below are relative to `src/apps/backend/app` unless they start with `src/`.

- [1 The system](#1-the-system)
- [2 How the code is turned into TLA+](#2-how-the-code-is-turned-into-tla)
- [3 Modules](#3-modules)
- [4 Runs](#4-runs)
- [5 Disagreements found](#5-disagreements-found)
- [6 Proofs](#6-proofs)
- [7 What is not modelled](#7-what-is-not-modelled)
- [8 Plan](#8-plan)

Checking: `tlc -workers 2 -config MCOffice_desks.cfg MCOffice.tla` runs one
configuration (PROJECT.json, "runs", lists them all);
`tlapm ClientPaymentsProofs.tla` checks the proofs of a module.

## 1 The system

A FastAPI application (`main.py`, two uvicorn processes per container, see
`src/apps/backend/Dockerfile`) with one PostgreSQL database, one process for
periodic jobs (`scheduler_runner.py`), Redis for rate limits and one-time tokens,
Razorpay as payment gateway, S3, mail, SMS and push services.  A Next.js admin
site and an Expo mobile application are its clients.

| component | state it keeps | operations | hard parts |
|---|---|---|---|
| client payments: `api/client_payments.py`, `api/payment_webhooks.py`, `services/payment_*_service.py`, `api/admin_finance.py` | `client_payments` rows, the gateway's orders and payments | create-order, submit-reference, verify, captured webhook, manual record, status change | the gateway call inside a request; repeated, early and late webhooks; a status read before a lock; orders left pending beside manual payments |
| gateway refunds: `api/admin_finance.py`, `services/payment_refund_service.py` | refund rows bound to a source row and an idempotency key | request, retry, refund webhooks | a lock released for the duration of the call; timeout after the gateway accepted; concurrent approvals; webhooks that overtake the answer |
| staffing: `api/admin_assignments.py`, `api/worker_assignments.py`, `api/admin_requirements.py`, `api/admin_replacements.py` | `assignments`, `requirements.status`, `worker_profiles.is_available` | create, acknowledge, decline, status, replace, complete and cancel the requirement, extend | three tables written by unlocked requests; capacity per day; only creation locks anything |
| attendance: `api/worker_attendance.py`, `api/admin_attendance.py` | `attendance`, one row per assignment and day | check-in, half day, approve, reject, correct | a correction is two transactions |
| payroll and payouts: `api/admin_payroll.py`, `api/admin_finance.py`, `api/admin_worker_payments.py`, `services/payroll_service.py` | runs, items, deductions, payouts | generate, deduct, recalculate, lock, pay one, pay a run, pay a worker directly | attendance changes under computed items; several payout paths; no lock anywhere |
| quotes: `api/admin_requirements.py`, `api/client_requirements.py`, `core/scheduler.py` | `quotes` | draft, send, decide, expire | client, admin and scheduler decide at once; "the quote" is the latest of any status |
| sessions: `api/auth.py`, `services/token_service.py`, `services/otp_service.py` | OTP codes, refresh-token families, revoked tokens | request, verify, refresh, log out | counters incremented in Python; rotation races reuse detection |
| the phone's session: `src/apps/mobile-ui-lab/src/shared/lib/http.ts`, `auth-storage.ts`, `store/auth.store.ts`, the `auth` screens | tokens and onboarding fields in secure storage, a copy of them in a store, a shared renewal | sign in, onboard, renew, sign out, relaunch | the process killed between a write to the server, to storage and to the store; calls that outlive the session |
| the browser's session: `src/apps/admin/src/services/api-client.ts`, `store/auth-store.ts` | two cookies, the store of the page | sign in, renew, reload, sign out | a reload abandons answers, not requests; each renewal replaces two tokens in two answers |
| the screens: `src/apps/admin/src/features`, `src/apps/mobile-ui-lab/src/apps/*/screens` | cached copies of the server's rows, the request under way | some seventy handlers | guards written twice, in two languages; copies fetched at different times; a fetch not made, an answer lost |
| disputes, privacy, invoices, disbursements | one or two tables each | status machines, erasure, numbering | unlocked check-then-write; side effects before the commit |

How they meet.  A requirement with an approved quote accepts payments and
assignments.  Payment endpoints read the requirement's status and quote;
assignment endpoints move that status; a check-in moves both an assignment
(`assigned` or `accepted` to `active`) and the requirement (to `in_progress`);
corrections of attendance mark payroll items; payouts mark items paid.  All of it
happens through rows of one database: there are no locks other than
`SELECT ... FOR UPDATE` in payment reconciliation, refunds, assignment creation
and invoice numbering, and no message queue.  The applications call it over HTTPS
and keep what they show until they fetch it again: the admin's pages through a query
cache that a handler invalidates by name, the phones through a load on focus and
after most handlers.

What makes each correct, in a sentence: a captured payment is credited once, to
the order it was made on, and no more is collected than quoted; a refund the
gateway may perform stays reserved, and its final state is the gateway's; no day
has more workers than asked for, no worker is due twice on a day, and statuses
move along their tables; a computed payroll item either matches the attendance
it was computed from or is marked, and what was paid stays on record; a session that
ended leaves nothing to come back with, nobody passes a gate by a kill at the
right moment; a screen offers what the server takes, and shows what it changed or says
that it failed.
PROJECT.json lists the hazards line by line.

## 2 How the code is turned into TLA+

**Transactions.**  `db/session.py` creates sessions with autoflush off over
PostgreSQL's default isolation, READ COMMITTED.  An endpoint reads, decides, and
commits at its end.  A request is therefore (at least) two actions of a session
`s`: one that reads the tables, takes every early return of the handler as a
guard, and keeps in `sess[s]` what it decided; and one that applies it to the
tables *as they then are*.  Anything may happen in between, including `Abort`: the
process dies, the gateway call fails, a constraint is violated.

**What is written.**  SQLAlchemy's UPDATE carries only the columns whose value
differs from the one loaded.  Where two requests may write one row this
decides who wins, so the modules keep it: `Flush` in GatewayRefunds, the write
sets (`Changes`, `Changed`) of Staffing and Payroll.

**Locks and the identity map.**  `SELECT ... FOR UPDATE` without
`populate_existing` takes the row's lock but does not refresh attributes that
the session has already loaded.  ClientPayments and GatewayRefunds keep the row as
first loaded (`val`) and decide on it, as the code does, and a renewal of AdminSession
that has read its token (`ReadRefresh`) rotates it whatever became of it since (`ServeRotate`).
What follows from it is in section 5 (late_refresh, stale_credit, refund_demoted).

**Identifiers.**  A gateway order is identified with the row that records it and a
refund row with its idempotency key: both are unique by construction in the code.

**Granularity.**  All reads of one transaction are one action.  The code's reads are
separate statements, but no handler modelled here combines two reads
in a way that only their separation could break, other than those after an
explicit lock, a gateway call or a commit, and these are separate actions.

**Who does what.**  `Serves[s]` names the endpoints a session runs.  It is a constant,
so that a run can say "one administrator" (one session with all the admin
endpoints: requests one after the other) or "two administrators at once", and
theorems hold for every choice of it.

**Applications.**  The two sessions are modelled write by write: a kill or a reload may
fall between any two.  A screen is modelled by four tables of its desk: what it offers
for the copy it shows, with the queries its handler fetches again; what the server
accepts of that; what the server then does; and how the row moves by others' hands.  One
machine (Screens) runs them all.  Where a handler only sends one request, whose endpoint
is a short check and write, that is its whole meaning here; the races
inside an endpoint are the subject of the machines of payments, refunds, staffing, payroll,
quotes and invoices.

**Left out throughout.**  Authentication and role checks, notifications, audit
events, wording, listings and time of day.  A timeout is a nondeterministic
outcome of a call.

## 3 Modules

| module | what it is |
|---|---|
| LedgerRules | the pure rules of `services/payment_ledger_service.py`: totals, derived intents, manual and refund validation |
| LedgerRulesProofs | lemmas about sums over a ledger, and what an intent is |
| ClientPayments | the ledger of one requirement under the payment endpoints, the gateway and crashes |
| SettleOnce | the abstract promise of the capture path |
| ClientPaymentsProofs | theorems about ClientPayments |
| GatewayRefunds | refunds to the source of a payment, with row locks, the gateway and webhooks |
| ReservedRefunds | the abstract promise of refunds to the source |
| GatewayRefundsProofs | theorems about GatewayRefunds |
| Staffing | assignments, requirement status and availability |
| StaffingProofs | theorems about Staffing |
| Payroll | attendance, payroll runs and items, deductions, payouts |
| PayrollProofs | theorems about Payroll |
| Quotes | a requirement and its quotes from submission to completion, under its admin, its client and the expiry job |
| Invoices | the GST invoices of completed requirements and their numbers, over Quotes |
| InvoiceBook | the abstract promise of the invoices of a financial year |
| BillingProofs | theorems about Quotes and Invoices |
| MobileSession | tokens, storage, store, calls and renewal of a phone, and the legal gate |
| PhoneSignIn | signing in with a code sent by SMS, in both mobile applications |
| WorkerOnboarding | the worker's way from sign-in through review and the biometric lock to the application |
| ClientOnboarding | the client's way from sign-in with a code or a provider to a profile |
| MobileApps | the two applications over one phone: the four modules above composed |
| MobileProofs | theorems about MobileApps |
| AdminSession | cookies, store and renewals of a browser tab, and the server's families of refresh tokens |
| ScreenHandlers | what a handler of a screen is |
| RequirementDesk, StaffingDesk, MoneyDesk, PeopleDesk, CareDesk | the admin's pages |
| WorkerDesk, ClientDesk | the phones' screens |
| Screens | one screen at work over the tables of its desk |
| ScreensProofs | theorems about Screens, every desk, and AdminSession |
| MC* | the instances TLC checks |

ClientPayments and GatewayRefunds share LedgerRules; a refund of GatewayRefunds
starts where ClientPayments ends, from rows that were captured.  Quotes, Staffing and
ClientPayments meet in the requirement's status: each has the moves of the others as an
action of its own, or starts where the others end (`StaffingMoves`, `MoveRequirement`, `Init` of Staffing).  Invoices
extends Quotes.

### ClientPayments

`rows` is `client_payments` for the requirement, `payOrder` and `captured` the
gateway's side.  `CreateOrder`, `SubmitReference` and `RecordManual` derive or
validate an amount and prepare a row, `Insert` commits it; `ReadForStatus` and
`WriteStatus` are the admin's status change; `ReceiveCaptured` and
`ReceiveCheckout` are the first, unlocked read of the webhook and of `/verify`, and
`ReconcileWebhook` and `ReconcileCheckout` the rest, through
`reconcile_captured_gateway_payment` (`Reconcile`).  A checkout callback
whose row had no payment id fetches the payment from the gateway and requires it
to be captured.  `MoveRequirement` stands for the staffing endpoints.

Assumed of the gateway: it captures a payment only for an order it was given, and
(when `SingleCapture`) at most one per order.

### GatewayRefunds

`Lookup`, `Approve`, `Insert`, `Refresh`, `LookupAgain` are the endpoint up to the call,
`Answered`, `TimedOut` and `Refused` the outcomes of the call, `ReconcileAnswer` and
`RecordRefusal` what it does with them, `RefundWebhook` the other way in.  `lock` holds
row locks explicitly, because the correctness of the endpoint rests on the lock of
the *source* row while a new refund is validated and inserted.  `HttpErrors` says
which HTTP errors the gateway may answer ("rejected": nothing was created;
"late": the refund exists all the same), `Reordered` whether an old webhook may
follow a newer one.

ReservedRefunds keeps of all this what is left of each payment, and for each refund where its money
is and what the ledger says of it.  In the refinement (`RefundsAreKept`) the row of a refund reserves its amount until
the gateway fails the refund, the gateway's status is where the money is, and the row's status is
the ledger's word.

### Staffing

`CreateAssignment` locks the requirement until its commit and checks the number of
workers on each day, the worker's own days on the requirement, conflicts with
other requirements and `is_available`; every other endpoint is unlocked.  Dates may be
unset, which means the requirement's own.  The handlers write assignments, the
requirement's status and availability in one commit, and the commit (`Commit`)
applies only the columns they changed.  The advance-payment gate of creation
is left out because `skip_payment_check` lets an admin pass it; the refusal to
complete a requirement with attendance pending review only removes behaviours.

### Payroll

`att`, `runs`, `items`, `deducted`, `payouts` are the tables.  An item keeps the
records it tallied (`basis`) in place of their three counts, so that a property
can say which record it no longer agrees with.  `Correct` is followed by
`MarkStale`, the second transaction of the endpoint.  `Commit` refuses a second row
for a unique key (`uq_attendance_assignment_date`,
`uq_payroll_item_run_assignment`).  Assignments are fixed and active; a crash
between the two transactions of a correction is not taken (one step would
break the property, and nothing in the code repairs it).  Its sessions are called
`Callers`, what they serve `Calls`, and a unit of work in flight is `unit`: the names differ
from those of Quotes because one instance (MCOffice) holds both.

### Quotes and Invoices

`status` is `requirements.status`, `quotes` the rows of each requirement in the order of
`created_at`, because "the quote" of every endpoint is the latest of any kind and status
(`repositories/quote_repository.py:18`, `Latest`).  Each endpoint is one action that reads and
leaves what it decided in `sess`, and `Commit`, which writes it whatever happened in
between: a status, a verdict on a quote, a new quote.  Two handlers write on a refusal: an
approval that comes too late expires the quote and answers 400 (`ApproveTooLate`).
The expiry job (`core/scheduler.py:55`) first reads all stale quotes (`FindStale`), then writes them
one by one and commits at the end; a requirement is read just before its rows
are written, and from then on others wait for the commit, so that all its
writes are one step, `ExpireStale`, on the requirements as they are then and the quotes as they were
found.  `StaffingMoves` stands for Staffing.  `SpansMidnight` says whether the day may
turn while a decision or the job is under way.

An invoice is a record per requirement, since the partial unique index
allows one that is not cancelled and nothing cancels one; a second insertion is refused
(`InsertDraft`).  `clerk` holds the finance requests; the locks of the invoice and of the year's
counter follow from where each request is.  The number is read and incremented under
the counter's lock (`AllocateNumber`) and committed with the invoice
(`IssueInvoice`); `DropTask` is a failure anywhere on the way.
InvoiceBook keeps of this the requirements with a draft and, for each year, the sequence of those
invoiced: `Entries(y)` puts the holder of number n at place n.  An insertion is its `Draft`, an issue
its `Issue`, everything else leaves the book alone.

### MobileSession and the onboarding modules

`disk` is the secure storage, `auth` the store from which the navigator picks a
screen, `calls` the requests under way, `swap` the renewal they share, `srv` what the
server knows of the account, `form` the handler under way.  `Kill` forgets
everything but `disk` and `srv`.  A handler is one action per write: `SubmitProfile`
reaches the server, `ProfileStored` the storage, `ProfileShown` the store.  `Refuse` and
`RefreshAnswered` are the response interceptor of `http.ts`: the calls refused with
401 wait for one renewal, and when it brings nothing each of them clears the
storage (`ClearAfterRefusal`) and then the store (`LeaveAfterRefusal`).  The server
answers a renewal with an envelope the phone does not open (section 5), so a
renewal never succeeds; `RefreshStored` is what would happen if it did.  `Route` and
`Shown` are the navigators.  PhoneSignIn, WorkerOnboarding and ClientOnboarding add their
handlers to the same variables and MobileApps runs both applications.

### AdminSession

`tab` is the page's store, `jar` the cookies, `flow` the renewal under way, `form` the sign-in,
`out` the sign-out, `late` a request whose page was reloaded: the answer is gone, the
request is not.  The three overlap, as the page lets them: the sign-in form waits for its own answer only,
so that it may be sent while a renewal begun before the sign-out goes on (`SubmitLogin`).  `ServeLogin`,
`ServeCsrf`, `ServeLogout` and `DetectReplay` are the endpoints; every answer may be lost.

A renewal is two actions of the server.  `ReadRefresh` is the unlocked read of the token's row
for the CSRF check (`api/auth.py:311`), `ServeRotate` the exchange: its `FOR UPDATE` select
(`services/token_service.py:106`, `repositories/auth_repository.py:123`) returns the object
already loaded, so that a renewal which found its token live rotates it, spent or revoked meanwhile or not.
Two renewals of one token can therefore both rotate, and a sign-out or a detected replay between the two actions is
outlived by a new token.  What a family still keeps is `EndedStaysEnded`: once all its tokens are spent,
signed out or revoked and no exchange is between its two actions, nothing makes one live again.

`SignOutHeeded` says of a workspace that the CSRF token in its store is the cookie's, but leaves out the time from
the first answer of a renewal (which sets the cookie) until the page has heard of the end of the renewal: a sign-out sent in
between is refused by the server, in the model as in the code (`api-client.ts:24`).  A renewal's answer
that arrives after a sign-out opens the workspace again, and the answer to a sign-out clears whatever session was
opened meanwhile: both are behaviours of the model and no property excludes them.

### Screens and the desks

A desk is a set of records (`WorkerRows`, one kind per screen), its initial ones
(`WorkerStarts`), the queries of a screen with the fields each loads (`WorkerQueries`),
those it shows (`WorkerShows`), its handlers (`WorkerOffers`), the server's side
(`WorkerAccepts`, `WorkerAfter`) and everybody else's (`WorkerMoves`).  Screens keeps the
server's row (`rows`) and the page: the copy `seen`, the queries `due`, the request `ask`, and
`behind`, the queries whose content the page itself changed without having told of a failure or
fetched them since.  A request is submitted, served, refused or lost, and its
answer arrives or not; others move the row, or use the same screen elsewhere.  A query that is due is fetched,
or its load fails for good (`LoseFetch`): the console tries twice (`src/apps/admin/src/components/shared/providers.tsx:14`),
`invalidateQueries` does not report it, and returning to the window fetches nothing; a phone tries once.  `GivesUp` names the queries
whose load can fail: on the console all that the page shows, on the phones those that are loaded apart from the
handler's own answer.  What the user then sees depends on the query: most replace their content, or on the console the whole
page (`WholePage`), by an error; those in `Quiet` go on showing the old copy, or an empty one (`Blank`), without a word.
These are the payments, invoices and workers' cards of a requirement, the coverage calendar (`coverage-calendar.tsx:47`, whose
panel is closed by line 141 all the same) and its matches, a complaint's replacement list, a client's bars and an
administrator's scope; on the phones, the payments of a request, the client's profile, a shift's attendance and the
home screen's assignments.

`OffersAccepted` and `ToldOrShown` hold but for operations that each desk names in
`Loose`, `Missed`, `Silent` and `Quiet`, each with its reason: these are the places
where the application is known to be wrong or to leave the decision to the server (section 5).
Every name in them is needed: without it the run fails.

## 4 Runs

Deadlock is not checked: with its tables full and everybody idle an instance has nothing left to do.

| run | instance | shows |
|---|---|---|
| payment_desks | 2 rows, 2 payments, an admin with order creation beside webhook/verify; or 3 rows, references and manual records of 1 or 2 with every purpose but refund, one request at a time | a credit belongs to a captured payment (`CreditMatchesCapture`), is never exchanged (`PaymentIdKept`), and the capture path implements SettleOnce (`SettlesOnce`); any sequence of records and status changes keeps what is paid within the quote (`PaidOneAtATime`) |
| capture_serial_creation | 3 rows, 3 payments, 2 deliveries at once, orders created one at a time | `PaidWithinQuote`, `PendingIntentsDistinct`, and under fairness `CaptureIsRecorded` |
| refund_requests | 2 admins, 2 keys, a source of 2, a manual refund, no HTTP errors | `SourceNotOverRefunded`, `AcceptedStaysReserved`, the refinement of ReservedRefunds (`RefundsAreKept`), and under fairness `SettledRefundIsRecorded` |
| refund_errors | the same with both HTTP errors and reordered webhooks | `PaidRefundIsProcessed` |
| staffing_concurrent | 1 requirement of 2 days and 2 workers a day, 3 workers, 3 assignments, two admins | `DayCapacity`, `WorkerOncePerDay`, `OccupiedUnavailable`, `RequirementMoves` |
| staffing_serial | all endpoints one at a time, 2 workers, 2 assignments, an extension day | `DeclinedReverts`, `ClosedStaysClosed`, `ExtensionReachesAll` |
| office | billing: a requirement from its submission with up to 4 quotes over 3 days, or 3 completed ones; one admin, one device of the client, the expiry job, 3 finance requests at once; or payroll: 1 assignment, 1 run, 1 day, 2 payouts, a finance administrator beside workers and a reviewer | `ApprovedStands`, `WorkIsAgreed`, `BilledIsCompleted`, the refinement of InvoiceBook (`BookIsKept`); `CorrectionReachesItems`, `NetFollowsDeductions`, `PaidItemHasPayout`, `PaidGrossStands` |
| mobile_onboarding | both mobile applications, one call beside the handlers, 2 pairs of tokens, 2 codes | `SignedOutForgets`, `TokensAgree`, `NeverAheadOfReview`, `LockedUntilChecked`, `NoAppWithoutProfile`, and under fairness `ApprovedLeavesReview` |
| screens | 3 refresh tokens, 5 CSRF tokens and 3 loads of the admin's page; each desk with 3 requests or moves of others | `EndedStaysEnded`, `SignOutHeeded`, under fairness `LoaderEnds`; `OffersAccepted`, `ToldOrShown` |
| double_booking, refresh_signs_out, late_refresh | the smallest instances that show them | the disagreements of section 5 |

**Bounds and why they are enough.**  A quote of 2 with an advance of 1 is the
smallest in which advance, balance and the whole differ; two rows suffice for every
race between two payments of one quote, and the third lets a manual payment sit
beside both.  Two sessions make every pair of requests meet; a third one is
there where two deliveries race a creation.  A source of 2 with refunds of 1 and 2
distinguishes "fits once", "fits twice" and "does not fit".  Two days, two
workers a day and three workers make a day full while another is not.  Two
payouts per item are one more than it should need.  A daily rate of 3 makes a half day
worth 1.5, so that the rounding of `payroll_service.py` matters.  `MaxAmount`, `MaxDay`, `LastDay`,
`MaxDeducted`, `MaxQuotes` and the sizes of `Rows`, `Slots`, `Runs`, `Payouts` bound what would
otherwise grow; no property mentions them.  Three days and an extension to be decided within one
(seven in the code) let a quote be decided early, on its last day and late, and the job run before and after;
four quotes are a rejected or expired one, the agreed one, and two extensions.  The last day lies
in another financial year, and three clerks let two wait for the counter a third holds.

The two instances of payment_desks share one state space;
a behaviour is in one or the other from its start (`alone`).  So it is in office, where billing and payroll
share no row (`office`).  In capture_serial_creation the office
does not act, and `GatewayNext` is what is left of `Next`.

Three refresh tokens are a sign-in and two renewals, so that a token can come back after
its successor was spent; five CSRF tokens let each of them be fetched and exchanged; three loads
leave two abandoned requests in one behaviour.  Two pairs of a phone's tokens are two
sessions one after the other.  On a desk, three turns are a request with two moves around it,
or a request, its repetition and a move: every exemption of section 3 was found
within two.  A row of a desk has two of whatever there are many of (days, workers, payouts,
amounts).

**Fairness.**  `Fairness` of ClientPayments assumes that the gateway redelivers a captured
event until it is acknowledged (strong fairness of `ReceiveCaptured`: it is refused now
and then, as sessions are busy or the rate limiter answers 429) and that not every
delivery dies before its commit (strong fairness of `ReconcileWebhook`).
`FairSpec` of GatewayRefunds assumes that the gateway settles a pending refund and
redelivers its last word, and that a request that waits on nothing ends (commits or
dies), which is how its row locks get released.  `FairSpec` of MobileApps assumes that the
review screen goes on polling and that a poll is answered now and then
(`PollFairness`); the specification of MCScreens that a request of the browser ends, answered or timed
out by axios.  Clients, workers and admins are never assumed to act.

**One at a time.**  Several properties are checked with the requests of one actor
serialised, because they are false otherwise and the code does not claim more.
`PaidWithinQuote` fails for two orders created at once, `DeclinedReverts` for two last
workers declining at once, `NetFollowsDeductions` for two deductions of one item at once,
`CorrectionReachesItems` for a correction beside a recalculation or a generation,
`PaidGrossStands` for a recalculation beside mark-paid, `ClosedStaysClosed` for an
acknowledgement beside a cancellation, `WorkIsAgreed` for two admins quoting at once,
`ApprovedStands` for a client deciding on two devices at once or a decision that spans midnight,
`BilledIsCompleted` for a completion beside a cancellation.  None of these has a lock in
the code.

## 5 Disagreements found

Three are runs that TLC must find violated; PROJECT.json quotes the lines.

1. **double_booking** (`NotDoubleBooked`).  The lock on the requirement is meant to "prevent concurrent
   double-assignment" (`api/admin_assignments.py:107`), but two requirements have two locks and
   the worker has none.  One admin breaks it too, by an approved extension that reaches into
   the worker's next job.
2. **refresh_signs_out** (`RefreshContinues`).  The phone reads the renewed tokens from `res.data`
   (`src/apps/mobile-ui-lab/src/shared/lib/http.ts:79`) while `/auth/refresh` answers with an envelope
   (`api/auth.py:431`): the first expiry signs the user out, where
   `src/docs/MANUAL_QA_CHECKLIST.md:1940` has the application continue.
3. **late_refresh** (`ReplayRevokesFamily`).  "Refresh-token replay revokes every live token in its family"
   (`src/docs/PRODUCTION_HARDENING_TRACKER.md:357`), but an exchange decides on the row as read before the lock
   (`api/auth.py:311`).  A page is reloaded while its renewal is between read and exchange; the new page renews with the same
   cookie; the first renewal then exchanges the spent token, and the family has two live ones.

Met while modelling and not a run of their own:

*Money*

- overpayment: "New overpayments are rejected" (`src/docs/PAYMENT_LEDGER.md:38`), but a manual
  payment is not held against pending gateway orders, nor a capture against anything.
- stale_credit: "The order row is locked before its status is inspected"
  (`services/payment_reconciliation_service.py:77`), but callers have loaded the row before, and the
  lock does not reload it: a row an admin meanwhile moved to `refunded` or `paid` is credited.
- refund_demoted: a pending refund's final state is to come from a signed webhook
  (`src/docs/PAYMENT_LEDGER.md:57`), but the handler of an HTTP error writes `failed` over the `paid` a
  webhook wrote in the meantime.
- A failed refund retried with its key skips the validation a new one gets
  (`api/admin_finance.py:174`), against `src/docs/PAYMENT_LEDGER.md:51`.  It matters only with
  HTTP errors, where a failed row does not mean a failed refund.
- `RequirementNotOverRefunded` (GatewayRefunds) does not hold: a manual refund ignores pending
  gateway refunds (`services/payment_ledger_service.py:196`).
- A payout entered by hand and mark-paid together pay an item twice
  (`api/admin_finance.py:558`, `:771`); overlapping runs pay a day twice; two direct payments of a worker
  at once both pay (`api/admin_worker_payments.py:233`).
- Mark-paid sets a locked run to `paid`, which unlocks it (`api/admin_finance.py:787`).
- An attendance record is billable whether or not it was approved or even when it was rejected
  (`services/payroll_service.py:49`, against the comment in `models/attendance.py`).
- An invoice generated after an extension was offered bills the extension's amount only, whatever the client
  decided on it: it takes the latest quote (`api/admin_invoice.py:56`).
- The date of an invoice is taken before the counter's lock, so that around midnight numbers need
  not follow dates.

*Quotes and staffing*

- The expiry job returns a requirement to review "so admin can re-quote"
  (`core/scheduler.py:60`).  If the client rejects and the admin quotes again
  between its two reads, the requirement is under review with an open quote, which blocks the next.
  Marking a quoted requirement for review does the same at once (`api/admin_requirements.py:192`), for ever
  when the quote has no last day.
- An extension can be approved after the requirement was completed.  Its rate is "in paise"
  (`api/admin_requirements.py:544`) where every other amount is in rupees.
- A completion beside a cancellation leaves whichever commits last; an invoice of a cancelled requirement is
  possible (against `src/docs/BUSINESS_RULES.md:56`).
- A worker who declines, and the workers of a completed requirement, are not made
  available again, although the comment at `api/admin_assignments.py:243` says so; marking a
  later day as available makes the worker available now (`api/worker_availability.py:63`).
- A replacement for a complaint (`api/admin_replacements.py:66`) tests neither the old
  assignment, the requirement, capacity nor conflicts, and its form may be sent again.
- The server takes a check-in from an assignment that was not accepted, which
  `src/docs/BUSINESS_RULES.md` excludes.

*Admin site*

- Assigning a worker to several days from the coverage calendar
  (`src/apps/admin/src/features/assignments/coverage-calendar.tsx:210`) succeeds for the first day only, which
  makes the worker unavailable (`api/admin_assignments.py:245`); the calendar and the status buttons do not refetch the page's detail.
- A requirement called back for review with an open quote has no way on from its page.
- The finance page cannot confirm a balance, and its Reject on a stale page fails a confirmed payment.
  A part payment opens the assignment panel while the server asks for the whole advance.
- The credit of a dispute is "entered in rupees — stored as paise internally" (`disputes/[id]/page.tsx:209`), but
  sent as entered and shown divided by 100 (line 137).
- Failures of review, completion, worker approval and rejection, lifting a bar and unscoping are not shown.
- A sign-out sent between the two answers of a renewal is refused for its CSRF token (`api-client.ts:24`), and a
  renewal's answer that arrives after a sign-out opens the workspace again.
- A load that fails twice leaves the coverage calendar, its matches, payments, invoices and cards of a requirement, bars and
  scopes as they were, with no message.
- A lost answer to a sign-out leaves the cookies; two tabs replay each other's token
  (`src/docs/ADMIN_XSS_AUDIT.md:30`).

*Phones*

- A check-in on the second day of a job is not offered
  (`src/apps/mobile-ui-lab/src/apps/worker/screens/HomeScreen.tsx:726`, against
  `src/docs/MANUAL_UI_TESTING_GUIDE.md:584`); the one on the home screen sends no selfie; a day marked as a
  no-show blocks a late check-in; a check-out is offered, and refused, after the worker was taken off the job.
- Refunds count as payments on the client's request (`RequestDetailScreen.tsx:369`), payments that failed to
  load show as nothing paid, and paying is offered when the advance is covered.
- Between midnight in India and midnight UTC an approval is offered for a quote that is past,
  is refused, and expires it; a quote can be decided on a cancelled request's screen.
- The request form has no upper bounds, and a retry after a lost answer posts twice.
- A failed status call at sign-in shows the identity form to an approved worker
  (`src/apps/mobile-ui-lab/src/apps/worker/screens/auth/VerifyOtpScreen.tsx:75`); the renewal of a token has no timeout (`http.ts:70`).

## 6 Proofs

TLC checks instances; the theorems hold for every set of rows, payments, sessions, keys, workers,
amounts, days and tokens, under the named assumptions on constants and the hypotheses below.  Every
safety property of the passing runs is a theorem; what remains is listed at the end of this section.

**How the hypotheses are written.**  A theorem that needs the requests of one role to be serialised says which
session plays it (`OneCreator(c)`, `OneDesk(desk)`, `OneKeeper(keeper)`...) and what the others do *not* serve: all other
endpoints remain open to any number of sessions, and the theorem covers every `Serves` that fits.  Each
hypothesis is there because requests of that role at once break the property: section 4, "One at a time", names
them.  The instances of section 4 serve their sessions by the same roles, so no theorem is about an empty set of systems.

**LedgerRulesProofs.**  A sum over a ledger (`SumOf`) is a fold, a recursive function over the subsets of a finite set that takes
rows out in an order nobody knows.  The library's induction theorems cannot be used here (their predicate is an operator
parameter), so `SubsetInduction` takes the predicate as a *set* of subsets: strict inclusion among the subsets of a
finite set is well-founded, hence a nonempty set of counterexamples has a least one.  With it, the recursive function exists and is
unique (`SumExists`, `SumUnique`), and then `SumNat`, `SumPutIn`, `SumTakeOut`, `SumAgrees`, `SumMonotonic` and
`SumDisjoint` say that the order does not matter and how a sum moves with a row.  `OneIntent` is
about `PaymentIntents`: at most one is on offer, for a positive amount that takes the paid sum exactly to
the advance or to the total.

**ClientPaymentsProofs.**  `CreditMatchesCapture` is not inductive: a reconciliation acts on
what its session read earlier.  `IInv` adds what the requests in flight guarantee
(`RequestsOK`): a webhook or checkout callback in flight carries a payment made on its
row (for a webhook, a captured one), and a payment id it saw on that row was captured on it,
so that the snapshot, however old, never lies about the gateway; a row to be
inserted has no payment id; the row of a status change exists.  `GatewayOK` says that payments are made on existing rows and, if
the gateway captures once per order, that two captured payments have two orders.
There is one lemma per group of actions, then

- `TypeCorrect`: `Spec => []TypeOK`;
- `CreditsAreCaptures`: `Spec => []CreditMatchesCapture`, with no assumption on the gateway's
  captures;
- `CaptureImplementsSettleOnce`: assuming `SingleCapture`, `Spec => SettlesOnce`: every step
  either leaves credits and the gateway alone (`Quiet`) or is a step of SettleOnce.  A stale
  reconciliation may write a payment id over one it has not seen; with one capture per
  order it is the same id;
- `PaymentIdNeverExchanged`: assuming `SingleCapture`, `Spec => PaymentIdKept`, from the
  refinement;
- `OneCreatorPaysWithinQuote` and `OneCreatorHoldsOneIntent`: `[]PaidWithinQuote` and
  `[]PendingIntentsDistinct` under `OneCreator(c)`: one session creates orders and references, any number reconciles.
  The invariant `OneOpen` says that one payment is open at a time, in the table or about to be inserted, and that it
  `Fits`: made, it takes what is paid exactly to the advance or the quote.  What is paid does not move while it is open;
- `OneAtATimePaysWithinQuote`: `[]PaidWithinQuote` under `OnePerson(s)`, the office without gateway deliveries:
  one session acts, but never for the gateway, and no refund is recorded by hand: `OneAtDesk` says that what a status change or a record in
  flight would make the total is within the quote.  It is the
  general form of `PaidOneAtATime`;
- `DeskPaysWithinQuote`: `DeskSpec => []PaidOneAtATime`, for the specification the run checks.  It chooses once between one
  person at a time and deliveries beside an admin; where it fell on the one person, the invariant is that of
  `OneAtATimePaysWithinQuote` with `OthersIdle(s)`, since a turn is only taken while all others are idle.

That the table is finite (`FiniteTable`) is the one assumption sums add.

**GatewayRefundsProofs.**  `IInv` adds to the types that a refund the gateway has is in the ledger,
that webhooks were sent only with statuses the refund had, and what a request in flight
has read and heard.  Then

- `TypeCorrect`;
- `PaidRefundsAreProcessed`: the ledger says paid only of a processed refund, under HTTP
  errors, timeouts, crashes and reordered webhooks;
- `PaidRefundNeverReverts` and `AcceptedRefundStaysReserved`: assuming `HttpErrors = {}`, with
  a second invariant, `FailedIsFinal` (a row is failed only if the gateway failed the
  refund).  The assumption is needed: refund_demoted (section 5) is a counterexample without it;
- `PaymentNotOverRefunded`: `[]SourceNotOverRefunded` under the same assumption.  `Headroom` says that the refunds of a source which the
  gateway has not failed leave room for the one about to be inserted; it is the only one, since its request
  holds the source's lock;
- `RefundsImplementReserved`: `Spec => RefundsAreKept` under the same assumption, the refinement of
  ReservedRefunds: an insertion is `Reserve`, the gateway's decision `Return` or `Refuse`, a row's new status `Say`, and
  every other step stutters.  It needs all the invariants above, and `Answers`: a request that had seen
  its refund failed hears that it failed, so that nobody takes the word back.

**StaffingProofs.**  `TypeCorrect` needs no assumption.  Three are proved under
`OneDesk(desk)`: any number of sessions that only create assignments, and one that serves everything else
but replacements (which check nothing) and extensions.  The invariant `DeskInv` says
that an assignment in flight holds its requirement's lock and still fits, and that
the desk's requirement stands as it was read or has moved to `workers_assigned`.

- `DayNeverOverfull`: `[]DayCapacity`;
- `WorkerCoversDayOnce`: `[]WorkerOncePerDay`;
- `RequirementsFollowTheirMachine`: `RequirementMoves`.

`AssignedIsOccupied` (`[]OccupiedUnavailable`) adds `OneAtWork`: nobody marks availability, and either one session creates or all
create for one requirement, whose lock serialises them.  `OccInv` says that a worker has one open assignment at most, that
a commit in flight which frees a worker closes what the worker has (`Frees`), and that one which books a worker found
them free and still does (`Books`).

`DeclinedIsReverted` (`[]DeclinedReverts`) and `ClosedIsFinal` (`ClosedStaysClosed`) hold under `OneCloser(closer)`: others only
create, extend and mark availability, as many as there are.  `CloserInv` says that the closer opens nothing that is closed, and declines an
assignment only together with its requirement or beside another that stands.  `ExtensionReaches`
(`ExtensionReachesAll`) adds `OneExtender`: one session, the closer or another, adds assignments and extends; `ExtenderInv`
says that the extension it holds moves every dated assignment still open when it commits.

**PayrollProofs.**  `IInv` is the types of the tables and of the requests in flight (`TablesOK`,
`SessOK`), that two of them do not make one row twice (`FreshApart`), and the property.  For every `Calls`:
`TypeCorrect`, and `PaidWorkersHavePayouts`, that a paid item has a payout.  The others are each about
one role:

- `NetIsRight`: `[]NetFollowsDeductions` under `OneBook(book)`.  `BookInv` says of the book's unit of work that each item it
  writes balances once committed, whoever commits first, and of the others' that they leave amounts alone; `PeriodInv`
  that the period of a run stays what it was created with;
- `PaidStands`: `PaidGrossStands` under `OnePayer(payer)`.  `PayInv`: only the payer's
  unit of work pays or rewrites an item there is, and one it rewrites is still unpaid;
- `CorrectionReaches`: `[]CorrectionReachesItems` under `OneKeeper(keeper)`.  `KeepInv` follows a record through the two
  transactions of a correction.  Before the first, whatever is about to be inserted agrees with the attendance there is; when the second
  commits, it marks every item that covers the record and is not marked yet.

**BillingProofs.**  About Quotes: `TypeCorrect` needs no assumption.  `ApprovalIsFinal` is proved for one deciding
session, `OneClient(client)`, and `~SpansMidnight`.  `ApprovedStands` is not about one step but about what a
request read: `DecidedInv(client)` says that a verdict under way is the client's, on a quote nobody approved, in
time if it approves, and that every quote the job is about to expire is past and not approved.  An approval in flight
and an expiry in flight can therefore not be about one quote.  Any number of admins and jobs may act.
`WorkStaysAgreed` (`[]WorkIsAgreed`) needs one admin too, `OneDesk(desk, client)`: `DealInv` says, for each status a
requirement may be in, which standard quotes it has, and that the requests of desk and client, whichever
commits first, keep that.

About Invoices: `ClerksOK` says that two requests hold neither one invoice nor one counter, that a number in
flight is the counter's next, and that an invoice being issued is a draft.  Hence `InvoicesTypeCorrect` and
`NumbersHaveNoGap` (`[]NumbersConsecutive`), for any number of requests, invoices and years and with no assumption about Quotes.
`IssuesAreEntries` is the refinement: by `NumbersConsecutive` before and after a step the entries of a year are a
sequence as long as its counter (`EntriesAre`, `EntriesNext`), so that an issue, which alone moves the counter, appends to it
(`IssueEnters`); `NumbersConsecutive` itself is what the run checks through it: two holders of a number, or a number
without one, and the book is no such sequence.  `OnlyCompletedIsBilled`
(`[]BilledIsCompleted`) joins the two machines, under the hypotheses of `WorkStaysAgreed`: `BilledInv` says that
nothing in flight moves a requirement on from `completed`, and that an invoice in flight is of one that is.

**ScreensProofs.**  Of the session, `IInv` is the types of tab, cookies and requests, what the server knows of its
tokens (`KeysInv`: a live one was issued, and the family of an issued one is named after an issued one), that a request
exchanges only a token that was issued (`ReadInv`), and `SignOutHeeded`.  A step of the server is one of a request `r` that
`Inherits`: families are never renamed, and a token that becomes live is of a new family, or of the family `r` was already exchanging for.
Hence `EndedSessionsStayEnded` (`EndedStaysEnded`), with `SignOutIsHeeded` (`SignOutHeeded`) for every
number of loads, tokens and lost answers; `SessionStaysSound` says both of the specification the run checks.
That a family has one live token cannot be proved, as it is false (late_refresh).

Of the screens, three theorems hold of every desk, for any number of requests of a page and of moves of others, and where
a row counts rupees or records, for any count: `ScreensTyped` (`TypeOK`), `OffersAreAccepted` (`OffersAccepted`) and
`PagesTellOrShow` (`ToldOrShown`).  Each desk has the same lemmas: what its handlers are (`JobHandlers`, with `JobHandler` as
the description), that a request served, a refusal and the moves of others leave a row of its kind (`JobServes`, `JobMoved`), that a request served leaves
alone every query its handler does not refetch (but for the names in `Missed`), that patching a copy keeps it a copy (`JobPatched`), and
that the server accepts what a current copy offers (`JobOffered`).  `JobTable` and its like join them to the machine.
`ToldOrShown` speaks of the moment when all is over; the invariant, `ScreenInv`, says of every query the page is behind on, at any moment, why it will not be
when all is over: it is still to be fetched, because it is due or the answer under way will make it due (`Coming`); or it is one of
the named exceptions (`Excused`), among them a load that failed quietly; or it is the payment cards of a requirement that the page itself cancelled (`Gone`), which
nobody refetches, and which leave the page when its detail arrives.  It also says that the copy and the row
are of one kind and on one screen (`KinTo`), that the request under way is a handler's, and that a job without a quote is in a status in which none is needed (`QuoteMade`).

**MobileProofs.**  No hypothesis: any number of calls, tokens and codes, kills anywhere.  `Types` gives `TypeCorrect`.
`SessionInv` describes the storage and the store at every program counter of the form and of each call:
a sign-in writes storage first and a sign-out clears it first, and no call is under way while a sign-in is between the
two (`Steady` is what all other steps leave alone).  Hence `SignedOutIsForgotten` and `TokensStayTogether`.  `EarnedInv` says of every field of the onboarding, on the server, in storage, in the store
or in an answer under way, what the server had granted before it could be there; `ReviewComesFirst`, `LaunchesAreLocked` and `AppNeedsProfile`
follow with what the navigators make of these fields (`RouteIs`, `ShownIs`).

**Only model-checked.**  Liveness (`CaptureIsRecorded`, `SettledRefundIsRecorded`,
`ApprovedLeavesReview`, `LoaderEnds`), which needs ENABLED.  The three disagreements are
counterexamples.

## 7 What is not modelled

Attempts at a login code that race (`api/auth.py:124`), the change of a client's phone number, and passwords beyond
accepted and refused.  The erasure of a privacy request as the deletions it consists of
(`services/privacy_service.py:260`).  Disbursements: a third payout path over a table of its own, whose form is
mounted on no page.  Two admins at once over a dispute, a complaint or a profile, whose screens are checked one
request at a time.  Amounts, taxes and the document of an invoice.  The amounts of an extension in the
payment endpoints: the quote is a constant of ClientPayments.  Editing a requirement before it is approved, half-day
reports on the phone, worker issues, earnings, bank details, import, push tokens.  Rate limits fail open
and meet the screens as a lost request.  Notifications, mail, SMS and storage are best effort and change no
row.  Dashboards, reports, the audit log and all lists only read.  `platform_margin` is read only by reports.

## 8 Plan

Done, in this order: LedgerRules, ClientPayments with SettleOnce, GatewayRefunds, Staffing,
Payroll; the sessions of the browser and of the phones with onboarding; the screens and their desks; Quotes and
Invoices; the proofs: each safety property that a passing run checks is a theorem.

Next:

1. **Codes**: attempts and verifications of a login code at once, the number change, the rate limiter as
   a Redis counter.
2. **Ledgers of record**: disputes with credit notes beside the payment ledger, disbursements.
3. **Privacy**: erasure of objects and rows around one commit.
4. **Amounts of extensions**: ClientPayments over Quotes in place of a constant quote.

Theorems: `OccupiedUnavailable` beside a session that marks availability, once the property says which
mark it forgives; the hypotheses on sessions replaced by the exact pairs of endpoints that must not overlap; a
refinement of Staffing to a requirement alone, as SettleOnce is one of the payments, ReservedRefunds of the refunds and InvoiceBook
of the invoices.
