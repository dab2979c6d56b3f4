# Verification of Maia Front Desk

Maia Front Desk is a receptionist for tattoo studios: clients write by SMS or
social message, an AI agent answers, books appointments and asks for deposits,
and the studio's staff can take any conversation over.  It is a Next.js
application over PostgreSQL.  Nothing in it keeps state in memory between
requests: what can go wrong is in the order of the database statements of
concurrent requests, of the cron worker and of the webhooks of Twilio, Stripe and
Square, and in what a crash between two of them leaves behind.

This directory holds TLA+ modules of that behaviour, the TLC runs that check them
and the TLAPS proofs of their central invariants.  `PROJECT.json` maps every
definition to the lines it models.

## 1. Inventory

### Parts, state, operations

| part | state | operations | what makes it correct |
|---|---|---|---|
| Conversation control (`packages/inbox/state.ts`, `app/api/inbox/[id]`) | status, AI switch, reply mode, unread count, control events | take over, pause, return, close, reopen, mark read, reply mode, staff reply, client message, escalation, quote handoff | the receptionist answers only when nobody took the conversation over; a close outlives what was said before it |
| Reply queue (`packages/automations/queue.server.ts`, `processor.server.ts`) | one job row per conversation: status, version, attempts, lease, lock token, saved reply | enqueue (debounced), claim, renew, save, mark sending, send, finish, fail, sweep, cancel | one reply per version reaches the provider, newer messages are answered, every job settles |
| AI agent (`packages/ai`) | none of its own; writes messages, appointments, events | answer, escalate, check availability, book, request a deposit, accept a quote | a turn yields to people and to approval; its tools leave the rows of the other parts consistent |
| SMS inbound and consent (`app/api/twilio/inbound`, `packages/consent`) | messages, consent grants, inbound version | record, dedupe, STOP/START/HELP, web opt-in, reopen, enqueue | nothing is sent after a STOP; no message is lost |
| Native calendar (`app/api/calendar`, `app/api/booking`, `packages/booking`) | appointments, schedule revision, holds, hours, time off | hold, confirm, book, reschedule, extend, cancel, complete, time off, hours, search | blocking periods of an artist never overlap; searches offer exactly what is free |
| Deposits (`packages/booking/src/studio-*.ts`, `deposit-confirmation.server.ts`, payment webhooks) | payment rows, provider sessions | reserve, open checkout, confirm, expire | money received is visible; it never takes a slot that is gone |
| Balance, terminal, refunds | payment rows with refund states, the studio's Stripe account | reserve balance, terminal intent, refund, reconcile, connect the account | no more than the price is collected; refunds survive replays |
| Square scheduling and deposits (`packages/scheduling`, `app/api/payments/square/webhook`) | bookings at Square, payment links and orders, connection, mappings | offer, request link, book, webhook, sign in, refresh, map, import, disconnect | of the clients who pay for one time one is confirmed, the others are kept visible |
| Lifecycle jobs (`packages/automations/lifecycle.server.ts`, `appointment-processor.server.ts`) | job rows per appointment and revision, waiver assignments | schedule, lease, check, deliver, cancel | no reminder for an obsolete revision; nothing is sent twice |
| Drafts, quotes (`packages/inbox/drafts.server.ts`, `packages/inbox/quote-*.ts`) | drafts; a log of quote events | prepare, edit, approve, deliver; approve a price, present, agree, book | one draft is sent once; a booking and its deposit follow an approved quote |
| Counter, invoices (`packages/checkout`, `packages/invoices`) | sales, card sessions, invoices | sell for cash or card, cancel, reconcile; issue, text | one sale is paid once, one invoice is issued once |
| Telephone (`app/api/twilio`, `packages/compliance`) | accounts, services, numbers, ports, registration | create, buy, review, port, submit, sync, adopt, receipts | nothing is bought twice and forgotten; approved means approved |
| Accounts (`packages/auth`, `app/api/auth`) | users, sessions, invitations, reset tokens, rate counters | sign up, invite, accept, sign in, reset | a one-time token works once, a withdrawn one never |
| Social messaging (`packages/channels`) | connected accounts, identities, threads | connect, disconnect, check, receive | a message is kept with the artist its account belongs to |
| Forms (`packages/waivers`, `app/api/public/waivers`) | templates, assignments, signatures | choose, issue, sign, review, void, edit | the right form, signed once |
| Settings (`app/api/services`, `app/api/studio`, `app/api/onboarding`) | services, locations, hours, rules, activation | edit, review answers, activate, pause | what is shown as ready is; clients are told what is in force |
| Google credentials (`packages/integrations/google-credentials.ts`) | sealed tokens | sign in, refresh, convert | the newest token is kept |
| Reports, banking views, UI, iOS, scripts | none of their own | reads | see "Not modelled" |

### How they interact

```
 client SMS ──> twilio/inbound ──> messages, inbound version ──> reply job
                     │                   │                          │
                     └─ keyword ─> consent, cancel job      cron: automations/run
                                         │                          │
 staff ──> inbox/[id], messages ─> status, AI switch  <── read ──  worker ──> agent ──> provider
                                                                    │
 staff ──> calendar, booking/* ──> appointments <── tools ──────────┘
                                      ▲
 client ──> Stripe session ──> payments webhooks ──> payments
```

The shared state is the database.  Rows are protected in four ways: conditional
updates (`WHERE status = ...`), the lock token of a job, `SELECT ... FOR UPDATE`
on one row, and the row lock of the artist that all native calendar
transactions take.  A request that reads *before* any of these works on a copy.

### What is hard

* **Copies.** Staff requests, deposit and hold confirmations and the worker read,
  wait (for a provider, for a lock) and write.
* **Leases.** A worker that is slow rather than dead works beside the one that
  took its job over.
* **The provider call.** Its answer may be lost after it took effect.
* **Crashes** between the commits that together make up one operation.
* **Webhooks** are repeated, late and out of order.
* **Time**: holds, sessions and leases run out while requests are under way.

`PROJECT.json` lists the hazards at their lines, with the properties that cover
them.

## 2. Modules

| module | models | proofs |
|---|---|---|
| `ConversationControl` | the control columns of one conversation and every request that writes them | `AiResponseProofs` |
| `AiResponse` | the reply job of one conversation, its workers, the agent, the provider, consent, staff in flight | `AiResponseProofs` |
| `ReplyContract` | what the queue promises, as three sets of versions | refined by `AiResponse` |
| `AgentTurn` | turns that answer at once, without a job, and drafts prepared meanwhile | `FrontDeskProofs` |
| `ReplyDrafts` | the life of a draft reply | `FrontDeskProofs` |
| `QuoteTerms` | approved prices, their presentation, agreement, booking and deposit | `SquareDepositsProofs` |
| `SmsConsent` | keywords, consent grants and the public opt-in forms | `FrontDeskProofs` |
| `ArtistCalendar` | one artist's appointments, deposits, time off and hours | `ArtistCalendarProofs` |
| `SlotSearch` | the searches for free times, native and at Square | `SalesProofs` |
| `LifecycleJobs` | reminders, waiver links, payment confirmations and follow-ups of one appointment | `LifecycleJobsProofs` |
| `StudioPayments` | all payments of one appointment on the studio's Stripe account, and their refunds | `StudioPaymentsProofs` |
| `PaymentContract` | what collecting money promises the client | refined by `StudioPayments` |
| `StripeConnect` | the studio's Stripe account | `SetupProofs` |
| `SquareDeposits` | one artist's appointments whose deposit is paid at Square, and the webhook that confirms them | `SquareDepositsProofs` |
| `SquareConnection` | one artist's Square sign-in, mappings and import | `SalesProofs` |
| `CounterSales`, `StudioInvoices` | a sale at the counter; an invoice and its text | `SalesProofs` |
| `ConsentForms` | the forms of one appointment | `SalesProofs` |
| `ServiceCatalog` | services, readiness, and what the receptionist books of them | `SalesProofs` |
| `StudioLocations`, `StudioKnowledge` | locations and hours; rules, questions and reviewed answers, and what clients are told | `FrontDeskProofs` |
| `StudioFacts` | the two together: what is true of a studio | `FrontDeskProofs` |
| `StudioAccounts` | people, invitations, sign-in and reset | `FrontDeskProofs` |
| `StudioActivation` | the activation page | `SetupProofs` |
| `SocialInbox` | connected social accounts and their messages | `SetupProofs` |
| `PhoneNumbers`, `CampaignRegistration`, `DeliveryReceipts` | numbers and ports; the carriers' registration; delivery callbacks | `SetupProofs` |
| `GoogleCredentials` | the tokens of one Google calendar | `SetupProofs` |
| `MC*` | constants for TLC, and the runs that look at several parts | |

Modules are composed where the code shares rows.  `AiResponse` holds the reply job
together with the staff requests that cancel it, `ArtistCalendar` the
appointments together with the payments that confirm them, `LifecycleJobs` the
appointment's revisions together with the jobs keyed to them, `ServiceCatalog` the
services together with the readiness page and the agent's tools.  Where one
module stands in for another by a choice (whether a slot is free, whether a
campaign is approved), its section says so.

In every module a request is a process that takes one database statement, one
transaction under a lock, or one call to a provider at a time, and a process that
stops is one that never takes another step.  So a crash needs no action of its
own unless a lock or a lease must be given back.

### Conversations

**ConversationControl.**  `conv` is the row: status, AI switch, reply mode (`draft`)
and inbound version; `closeEvent` is the last CLOSE event with the version it was
written at, which orders it against the client messages.  `handler` follows the
webhook request of each message and `req` the staff requests in flight.
`ApplyInboxAction`, `ConversationMode` and `ShouldRunAi` are the pure functions of
`packages/inbox/state.ts`.  A staff request is `StaffRead` followed by
`StaffWrite` (the update, computed from the copy); `StaffCancel` and `StaffEvent`
come after it, because they are separate commits.  A message is `RecordInbound`,
then `DecideInbound`, which reopens a closed conversation when the last close
precedes the message.  `Escalate` and `FinalizeQuoteHandoff` are the writes of the agent.

*Checked* (`front_desk`): the switch goes on again only by Return to AI, a message
that reopens, or a stale request (`ResumeNeedsWarrant`); a close outlives the messages
it follows (`CloseOutlivesOlderMessages`).  *Refuted* (`takeover_undone`): a
takeover holds until the conversation is returned.  A *Mark read* that read the
row earlier writes the old switch back.

**AiResponse.**  `job` is the row of `automation_jobs` for the conversation: its
status, the version it answers, attempts, lock token and saved reply.  Every
statement the worker commits is an action: `Claim`, `Check`, `Lookup`, `Renew`, the
agent's outcome (`AgentReplies`, `AgentEscalates`, `AgentStops`, `AgentThrows`),
`SaveReply`, `AttachReply`, `Guard`, `MarkSending`, `StartSend`, `CheckConsent`,
`CallProvider`, `RecordSent`, `FinishAiResponse`, `HandOffQuote`, `Fail`, `Discard`,
`Settle`.  `Sweep` and `Claim` take over when a worker's lease is over.
`ReceiveMessage`, the keyword actions and `ReceiveKeyword` are the inbound webhook;
`StaffCancels` and `ChangeReplyMode` the inbox.

`ReplyContract` is the promise: versions are received, at most one reply to a version
is handed over, and a reply goes to a version that was received.
`ImplementsContract` checks it under the mapping `Contract`.

*Checked* (`ai_response`): the provider is handed at most one reply per version that
it may have delivered (`NeverSentTwice`); no saved reply is handed over twice, a
completed job answered its version, a delivered reply keeps its row, attempts stay in
their limit (`QueueSafe`); replies do not overtake each other unless a lease ran out
in the middle of a send (`InOrderUnlessOverrun`); every job settles (`JobSettles`).
*Refuted*: the reply that is sent answers the version of the job (`stale_reply`).

Left out: `Guard` merges the lease renewal with the read that follows it, and `Check`
the three reads at the entry (nothing is written between them); the agent reads the
reply mode at its start, which is equivalent because a mode change bumps the version;
the insert of a message and the version bump are one action.  `run_at` is abstracted:
a queued job may become due at any time.  The quote-date job and the batch limit of
the claim are not modelled.  A crash after the message is stored is
`HandlerDies`: the retry is deduplicated, so the message's keyword or reply is lost,
which no document rules out and no property claims.

**AgentTurn** is the path without a job: the webhook runs the model at once.  A turn
reads the artist's row, then the conversation's, lets the model call tools, each
behind a guard, stores what it would say, looks once more and sends.  *Checked*
(`front_desk`, `TurnsSafe`): once replies need approval only a turn that had taken its
last look sends by itself; after a takeover a turn finishes at most the step it had
been cleared for.

**ReplyDrafts.**  A draft answers one client message under one inbound version, and
both change while it is composed, approved and delivered.  *Checked* (`DraftsSafe`):
under one version the client gets the draft once at most, and it is
approved only as the answer to the last message, under the mode and version it
was prepared for.

**QuoteTerms.**  The quote is a log of events whose newest entry counts.  The artist
approves a price, leaves the scheduling to the receptionist or links a Square booking;
the receptionist presents the terms, the client agrees, a deposit is asked.  Only
saving a quote and booking an approved one hold the conversation's lock.  *Checked*
(`QuotesSafe`): appointments are booked under the price in force; a deposit is asked
only after a reply presented price and time and the client agreed to that reply.

**SmsConsent.**  One client's number, the studio's numbers, the keywords and the
public forms.  A webhook reads the client, corrects the status, records the message
and then revokes or grants, with other handlers in between.  *Checked*
(`ConsentSafe`): after a stored STOP a number of the studio may text the client only
once the client has texted START or YES to that same number; no other artist's START,
no form and no handler that stopped half-way is enough.

### Appointments

**ArtistCalendar.**  `appt` holds the appointment rows of one artist: status, period,
hold, deposit, provider, scheduling provider, schedule revision.  `payment` and
`session` are the deposit payment and the provider's session behind it, `request` the
copy of a request between its read and its transaction, `view` what a staff browser
shows.  `unchecked` is history: the appointments the legacy webhook confirmed.

All transactions under the artist lock are single actions (`Hold`, `Book`,
`ConfirmHold`, `Reschedule`, `AddTimeOff`, `RemoveTimeOff`, `SetHours`, `Reserve`,
`ConnectCompleted`, `SessionExpiredEvent`, `DepositCommit`): they exclude each other, and
each of their statements sees what the previous holder of the lock committed.  What reads
first is two actions: `ConfirmRead`/`ConfirmHold`, `DepositRead`/`DepositCommit`,
`LegacyRead`/`LegacyConfirm`; `RequestDies` stops it in between.  `Cancel` and `Complete`
take no artist lock, as in the code.  `SlotAvailable` is `nativeSlotAvailable`: the
period lies in the bookable hours and apart from every blocking appointment and time off.

*Checked* (`calendar`): blocking periods stay apart (`BlocksApart`), also from time off;
copies taken by confirmations stay inside the period of the row; firm appointments have
settled deposits; money in the ledger shows on the appointment (`CalendarSafe`);
cancelled stays cancelled, a paid deposit is not collected again, stale browsers do not
edit (`HistoryKept`).  *Refuted*: no double booking (`double_booking`).

Simplifications: time is a few units, all in the future; an appointment has one payment
at a time; one request per appointment is between read and write; externally scheduled
artists, Square payments, the status `AI_HOLD` (which nothing writes), the request-id
deduplication and a late `payment_failed` are left out.  A hold may run out at
any moment, except while the Connect session opened under it is open: the code gives
the hold 32 minutes and the session 31.

**SlotSearch.**  Instants are numbers; the studio's clock runs ahead by a shift that
changes at some instant, as at daylight saving time.  *Checked* (`sales`, `SlotsSafe`):
the native walk over the weekly hours finds exactly the free times of a reference
definition, each once; the windows asked of Square leave no gap, do not overlap and keep
Square's limits, and the answers kept are those inside the request.  The hours come in the
order in which the database returns them (the query has no `ORDER BY`), and what is found
before the list is cut after twenty times is what the property is about.  Two hours of one day do not
overlap, which the policy that saves them checks.  Of a time that the clock shows twice the code
finds the first where the clock is behind UTC and the second where it is ahead, because its
iteration begins at that time in UTC; of a midnight that the clock skips the search at Square
is refused.  A change of the clock never leads from one date to the date before (`ZoneFits`).

**LifecycleJobs.**  Requests change the appointment in one commit and schedule or withdraw
jobs in later ones; workers lease jobs, check them and hand texts over.  *Checked*
(`lifecycle`): no job's text is sent twice, nor the assigned waiver link by the jobs of two
revisions (`JobsSafe`); a text whose appointment was over or moved when its job became
`SENDING` is not sent (`ObsoleteNotSent`); a confirmed appointment of an artist with
waivers enabled has a waiver job of its current revision once all requests have finished,
none having died (`RevisionCovered`).

**ConsentForms.**  Choosing a form, issuing a link, the client's signature, Jotform's
webhook, staff decisions and edits of the forms while links are out.  *Checked*
(`sales`, `FormsSafe`): a hosted form is signed once (unless a sender's late write reopened
its link), what shows as completed was signed, and of the forms that fit the most
specific one is chosen.

### Money

**StudioPayments.**  `payment` holds the rows of one appointment, `session` the checkout
session or payment intent behind each of them at Stripe, `saved` the rows that have its
id, `refund` Stripe's refunds by who issued them, `news` the rows with a refund event on
its way.  `request` is what each request does next; `missed` is history.  A
transaction under the appointment's locks is one action: `Reserve` and `Resume` (a
pending payment of the same purpose and provider is taken up again, one of the other
provider stands in the way, a refund in any state blocks), `ConnectCompleted`,
`ConnectExpired`, `TerminalEvent`, `RefundRequest`, `Reconcile`, `RefundEvent`.  The calls
to Stripe outside of one are actions of their own, `CreateSession` then `SaveSession`, and
`RefundCreate` then `Reconcile`; `RequestDies` stops a request before any of them.
Stripe's own steps and its idempotency keys are modelled from how the code uses them.

*Checked* (`studio_payments`): one payment can be paid at a time (`OneOpenCollection`);
Stripe never collects more than the price (or a fixed deposit that is larger), the appointment shows what became of its
deposit, with all events handled the ledger says what Stripe's refunds say
(`LedgerAgrees`); nothing takes a refund back and the app issues one refund
(`RefundsStand`); collected money is recorded (`PaidIsRecorded`).  The whole refines
`PaymentContract`: the client is asked for the deposit or for exactly what is left.
*Refuted*: refund events may come in any order (`refund_lost`: one that comes before the
completion is acknowledged and dropped).

Simplifications: whether the slot is still free is decided by the calendar, so either
answer may come; price and deposit stay as they are, because no code changes them after
creation; tips are a small set; each refunder issues one refund of a payment.  A payment
whose request died before creating a session and is not taken up in time (`Lapse`)
stays `PENDING` and blocks the appointment's collection for good.

**StripeConnect.**  One row holds the account, whether it is live, and whether it may
charge.  *Checked* (`setup`, `StripeConnectSafe`): the row says ready only of an account
that Stripe declared ready, and live of exactly the live one, though visits overlap with
the change from the sandbox.

**SquareDeposits.**  `appt` holds the rows of one artist whose deposits are paid at Square,
`ledger` the payment rows of each, `link` the one link and order that Square keeps per
appointment, `held` the appointments it has a booking for, `connection` the artist's
connection, `hook` the webhook handlers that run.  `answered` is which completed payments
Square repeats no longer; `unasked` and `confirmations` are history.  An offer reserves
nothing (`Offer`), except for an approved quote, which is booked at once
(`OfferBooked`).  A handler is `Begin`, for Square `Search` and `Book` (the answer of the
second may be lost), for appointments that Maia schedules `Claim` (advisory lock, conflict
check), then `Commit` or `Ledger` and `Mark`, and for a winner `SelectLosers`, `DeleteLink`,
`CancelPayment`, `CancelLoser` one client after the other, and `Confirm`.  `HookDies` stops
it before any of them; `ReceiveAgain` is an event that was answered before.

*Checked* (`square_deposits`): two confirmed appointments that Square schedules are apart
(`SquareRowsApart`); of those that Maia schedules for one start one is confirmed
(`SameStartOnce`); a client is told once, what is answered is visible, nothing cancelled
comes back (`DepositsDecided`).  A service and a client exist, the artist's other
appointments are not there, and availability is not looked up again by the model.

**SquareConnection.**  Sign-in, callback, location, mappings, import, refresh, disconnect.
*Checked* (`sales`, `SquareLinkSafe`): a click at Square's page is used once, and
imports that run at once or one after the other create one Maia service for a Square
service.

**CounterSales** and **StudioInvoices.**  The till repeats its request as cash, as card, to
resume, cancel or check; issuing an invoice is repeated after lost answers and after
Stripe forgot its keys.  *Checked* (`sales`): the client pays by one tender, the recorded
sale is what was charged (`CounterSafe`); one invoice can be charged, with every line once,
and the link is texted at most once (`InvoicesSafe`).

### The studio

**ServiceCatalog** (`CatalogSafe`): if the readiness page says that clients can book or
pay deposits, the agent's tools can do so in that state; no appointment of no length
is booked.  **StudioLocations** and **StudioKnowledge**, which `StudioFacts` puts
together (`StudioFactsSafe`): the hours of a
location are those of one save, also as told to clients; no source is reviewed twice and
no approved statement is added twice; transactions never wait for each other in a
circle; what a client is told was in force since the reading began, and of one
place; the most specific aftercare text is chosen.  **StudioActivation**
(`ActivationSafe`): a studio shown as live was activated after its latest pause and its
latest change of number strategy, and tested a call after that.

**StudioAccounts** (`AccountsSafe`): one open invitation per email and per profile; the
last mailed link works until it is used or expires; an invitation that was withdrawn is
never accepted.  **SocialInbox**
(`SocialSafe`): credentials and subscription in a row belong to the artist it routes to;
a message is kept with that artist; redeliveries are ignored.  **GoogleCredentials**
(`GoogleSafe`): a token that Google replaced is not presented again unless the
replacement was lost, and a later sign-in is not overwritten by an earlier one.

**PhoneNumbers** (`PhonesSafe`): what was bought is on record or its intent is open; every
sender is approved and in the messaging service, whichever is primary; the known number is not retired before
the ported one can take over.  **CampaignRegistration** (`CampaignSafe`): what shows as
approved was approved by the carriers; the background check never overwrites an edit.
**DeliveryReceipts** (`ReceiptsSafe`): a status never goes back, and the last report is
recorded.

## 3. Runs

| run | looks at | states | shows |
|---|---|---|---|
| `front_desk` | two staff sessions and two messages on the control columns; five texts and forms over two numbers; draft requests; a quote with two runs; three turns | 2,054,376 | control, consent, drafts, quotes, turns |
| `ai_response` | two workers and two messages with keywords, crashes and leases; or one worker with staff | 689,544 | queue safety, the refinement of `ReplyContract`, every job settles |
| `calendar` | two appointments, two starts, extra time, time off, two revisions; the same without Connect, with two revisions too | 464,301 | calendar safety, stale edits |
| `lifecycle` | two workers, three requests, two revisions | about 2,660,000 | deliveries, obsolete messages, coverage of revisions |
| `studio_payments` | three attempts and two requests for a deposit and a balance with a tip; two attempts and refunds from app and dashboard | 223,721 | one collection, the price, refunds, the refinement of `PaymentContract`, `PaidIsRecorded` |
| `square_deposits` | two clients, one start time, two handlers | 2,167,440 | the deposit race, retries and stops |
| `sales` | four till requests; an invoice; two edits of a service; searches; four clicks on the Square page; forms | 1,012,981 | counter, invoices, catalog, searches, the Square connection, forms |
| `setup` | three to six requests on each part of setting a studio up | 812,517 | accounts, social, numbers, registration, receipts, credentials, locations, knowledge, activation, the Stripe account |
| `takeover_undone`, `stale_reply`, `double_booking`, `refund_lost` | smaller | - | the counterexamples of section 2 |

*One part at a time.*  `front_desk`, `sales` and `setup` check several modules in one
run, and `ai_response` and `studio_payments` two configurations of one module.  The variable
`focus` names the part that runs; the variables of the others stay where they begin,
and a `VIEW` leaves them out of the state that TLC compares.  That is sound because
every property is about one part, whose variables are all in the view while it runs.
Nothing is claimed about interference between the parts of such a run: they write
different rows.

*Scenarios.*  Where a module has many kinds of requests, a run lists the sets of requests
that may overlap (the `...Scenarios` of the MC modules), chosen so that every action
fires and every pair that writes the same row meets.

*Why the bounds are enough.*  Every property relates at most two appointments, two workers,
two requests and a provider, or two versions, so two of each show a violation if one exists
with the same number of interleaved operations; a third adds only repetitions.  Two
revisions allow one edit between another request's read and write.  Attempts are bounded
by the code itself (`max_attempts`); the bound in the cfg is smaller but reached.  In
`ai_response` two workers and staff at once are left to the proofs: in the staff focus
there is one worker, and a job is claimed at most twice.  `square_deposits` offers one
start time, where every race is for the same slot; with two start times the same properties
hold over 8.5 million states.  Events outside (days that pass, decisions of
carriers, failed calls) have a limit of one to three each, named in the cfg.
Symmetry is used in runs without liveness only; the attempts of `studio_payments` are taken
in their order instead.  Every deadlock check is off because the system may stop:
appointments end cancelled or completed, requests and messages are finite in number.

*Fairness.*  `AiResponse` assumes weak fairness of the worker's steps, of the claim and of
the sweep: Railway's cron calls `POST /api/automations/run` every five minutes, and the
claim takes the oldest due jobs.  Nothing is assumed about clients, staff, or crashes
(whose number TLC bounds).  `StudioPayments` assumes weak fairness of `ConnectCompleted`
(Stripe repeats a webhook until it is answered with a 2xx, and the route answers 409 until it
can match the session) and of `TerminalEvent` (503 until the intent is saved), and
nothing about clients, staff, banks or the requests themselves.  The other modules
have no liveness property: nothing in the code retries their requests.

### Known deviations

Each run that expects a violation is a finding in `PROJECT.json`.  The models contain
more behaviours that differ from what the repository says, or that a reader would not
expect; they are compatible with the properties above, or excepted in them by name, and
have no run of their own.

**Replies, drafts, quotes**

* A message merged into a `SENDING` job just before the last guard is settled with it: the
  guard fails on the version, and `completeJob` drops the newer version
  (`processor.server.ts:188`; `Settle`).
* A takeover between the last check and the provider's call does not stop the reply.
* A START whose grant is delayed past a later STOP reverses it.  `AmendClient` writes
  `INBOUND_ONLY` from a stale copy.  After a crash behind a stored STOP the status stays
  `OPTED_IN`, and the STOP's row blocks consent all the same.
* A discard that races an approval is overwritten; a crash leaves a draft `SENDING` for
  ever; a mode switched twice while a delivery is uncertain allows a second draft for the
  same message; a reply written by hand is not excluded during a draft's delivery.
* Linking an already recorded booking keeps its old price and deposit; a late agreement may
  supersede a newer approved quote; two attempts with different starts, the first of which
  died behind Square's booking, make two bookings; an agreement accepts the terms of a
  reply that was stored though not delivered.
* A stored reply that is then not sent stays in the history as the assistant's message.

**Appointments and forms**

* A deposit confirmation writes back the period that it read before its transaction, so
  extra time added in between is lost without a new revision
  (`deposit-confirmation.server.ts:84`; `DepositCommit`); the rejection of stale edits
  (`HistoryKept`) excepts the appointments it happened to, `TakenBack`.
* A reschedule, a crash or a lost lease between creating a waiver assignment and sending it
  leaves it `PENDING`, and the next job is cancelled as `WAIVER_ALREADY_ISSUED`; a failed
  first send leaves it `PENDING` too.  Completing a waiver cancels the appointment reminder.
  `WAIVER_TIMING_CHANGED` retries count as attempts.  A message that shows `sent` returns
  without updating the job.  The payment confirmation is keyed by appointment only, so that a
  move before it is sent cancels it for good.  Recording the waiver as `SENT` can overwrite
  `COMPLETED` or `VOID`.  Enabling reminders schedules none for confirmed appointments.
* A staff sender's late `SENT` or `DELIVERY_FAILED` replaces `COMPLETED`, `REVIEWED` or `VOID`,
  so that a voided link works again or a form can be signed twice (excepted in
  `SignedOnce`); a repeated Jotform webhook turns `REVIEWED` back into `COMPLETED` and
  overrides `VOID`; a third template of a name gets version 2 again.
* Across a change of the clock a slot's end may lie past the day's hours; of a time
  shown twice only one instant is offered.  Where the clock goes back from just after midnight
  to the day before (as St. John's did until 2011), the search ends a date early and misses times
  at the end of the range; `ZoneFits` excludes such zones.
* The rules of a native search come without an order and the times found are cut after
  twenty, so that the twenty are not always the first.

**Payments**

* After an expired deposit checkout a new one can be opened for the same appointment,
  because an `EXPIRED` row is not looked at (`studio-payment-attempt.server.ts:30`), where
  `docs/STUDIO_PAYMENTS.md:13` asks for a new appointment request; `Reserve` does it.
* A request that reserved its payment before a refund was asked for still opens its checkout
  (`studio-checkout.server.ts:20`), where `docs/STUDIO_PAYMENTS.md:50` says that any refund
  state blocks collection; `CreateSession` does it.
* If a request of the sandbox deployment is still running when the live account replaces the
  sandbox one, its `NoteFlags` (`connect/route.ts:52`) marks the live account with the
  sandbox account's flags.  `StripeConnect` therefore assumes that a deployment waits for
  running requests.  An older answer of a refresh can overwrite a newer one.
* Appointments that Maia schedules and that overlap without starting together are both
  confirmed when their deposits arrive together: the advisory lock is on the artist and the
  start (`square/webhook/route.ts:202`), while the comment at line 164 says that "internal
  scheduling still verifies conflicts under an advisory lock".
* After the artist disconnects Square, a deposit for an appointment that Square was to
  schedule is confirmed without a check by anybody (`route.ts:171-173`, `201`): the
  `unasked` appointments.
* When the answer of a Square booking is lost, the repeated event searches before it books,
  finds the time taken by its own booking and marks the payment unavailable, and Square
  keeps the booking (`scheduling/square/provider.ts:52-76`).
* A loser who has paid may be cancelled by the winner's handler before its own marks it,
  where the comment at `route.ts:242` promises "an explicit state so support can refund".
* A late failure or the winner's cancellation overwrites a `PAID` row of the ledger
  (`route.ts:310`, `603-621`); a handler that stops after its commit leaves the losers and the
  confirmation undone (`route.ts:265`).

**Connections and settings**

* Square: a refresh that is answered after the studio connected another merchant stores the
  old merchant's token; a mapping saved around a switch of merchants, and the old location,
  survive it; settings saved from a stale read put a location on a disconnected row.
* Google: after a lost answer the credential is dead until the next sign-in; of two sign-ins
  the one saving last wins.
* Social: a health check that began before a disconnect activates the connection again; two
  first messages of one person create two clients; two deliveries of one message that
  overlap are both answered.
* Numbers: two port requests may both pass the unlocked check; a port whose answer was lost
  blocks further ones; stopping between `live-registration.ts:275` and `276`, or between
  `port/status/route.ts:47` and `51`, leaves no primary number or two until the next check.
* Registration: a stale status check can put a submitted profile back to `DRAFT`; two
  overlapping syncs, or a crash between creation and saving, create resources twice; an
  adoption is overwritten by a sync that runs; a call that failed after Twilio took the
  submission shows `SUBMISSION_ERROR` while it is in review.
* Receipts: a callback that outlasts the lookup's retries before the sender stored the
  provider's id is acknowledged, and its status lost.
* Services: an edit from a stale read may lose a price; an hourly service with a percentage
  deposit is booked without one; `checkAvailability` with a preferred artist may offer that
  artist's times while the booking is made with the conversation's artist.
* Locations: two saves that deactivate both locations can leave an inactive one primary;
  one made primary between another save's read and its transaction can be demoted without
  a successor.  Two settings pages that add the same new row add it twice.
* Activation: an activation that races a change of strategy is stored as live with tests
  missing, and shown so only once they pass; a stale activation undoes a pause.
* Accounts: a sign-in that checked the password before a reset was committed inserts its
  session afterwards.

*Not claimed*, because the code promises nothing: the legacy checkout opens a session per
request and its late events overwrite each other (`payments/checkout/route.ts:37`,
`payments/webhook/route.ts:26`, `:44`); a handler that stops after storing an inbound
message leaves it unanswered (`twilio/inbound/route.ts:162`); a checkout that
dies before its session exists blocks the next one (`studio-checkout.server.ts:16`).

## 4. Proofs

TLAPS proves, for every value of the constants that satisfies the named assumptions:

| theorem | of |
|---|---|
| `ControlTypeCorrect`, `ClosedStaysPaused`, `ClosesOutliveMessages`, `ResumptionsWarranted` | `ConversationControl` |
| `TypeCorrect`, `NoVersionSentTwice`, `DeliveryInvariant`, `QueueIsSafe`, `RepliesKeepTheirOrder`, `QueueImplementsContract` | `AiResponse` |
| `TurnsYield` | `AgentTurn` |
| `StopIsKept` | `SmsConsent` |
| `DraftsAreCurrent` | `ReplyDrafts` |
| `LifecycleInvariant`, `TextsAreSentOnce`, `ObsoleteTextsStop`, `RevisionsAreCovered` | `LifecycleJobs` |
| `CalendarTypeCorrect`, `NoOverlapUnderTheLock`, `TimeOffIsFree`, `SnapshotsStayInside`, `CalendarTellsTheTruth`, `HistoryIsKept` | `ArtistCalendar` |
| `SquareTypeCorrect`, `SquareRowsNeverOverlap`, `SameStartConfirmedOnce`, `ClientConfirmedOnce`, `AnsweredPaymentIsDecided`, `CancelledIsFinal`, `EveryDepositIsDecided` | `SquareDeposits` |
| `PaymentsTypeCorrect`, `OnlyOneOpenCollection`, `DepositAlwaysShown`, `LedgerAlwaysAgrees`, `RefundsAlwaysSurvive`, `OneStudioRefund`, `RefundsAlwaysStand`, `PaymentsImplementContract` | `StudioPayments` |
| `NewestTokenIsUsed` | `GoogleCredentials` |
| `AccountSpeaksForItself` | `StripeConnect` |
| `ReceiptsKept` | `DeliveryReceipts` |
| `PaidByOneTender` | `CounterSales` |
| `InvoicedAndTextedOnce` | `StudioInvoices` |
| `OneSignInOneImport` | `SquareConnection` |
| `SignedOnceAndFitting` | `ConsentForms` |
| `ServicesAsTold` | `ServiceCatalog` |
| `FreeTimesExactly` | `SlotSearch` |
| `QuotesAreAgreed` | `QuoteTerms` |
| `FactsAreRight` | `StudioLocations`, `StudioKnowledge` |
| `AccountsKeepTheirWord` | `StudioAccounts` |
| `NothingIsCarriedOver` | `StudioActivation` |
| `MessagesFindTheirArtist` | `SocialInbox` |
| `NumbersInService` | `PhoneNumbers` |
| `ApprovalIsReal` | `CampaignRegistration` |
| `SumWithout`, `SumOfPart` and lemmas | sums over finite sets (in `StudioPaymentsProofs`) |

The assumptions on the constants say what kind of sets they are and what the code fixes:
finite sets of workers, desks, attempts and appointments, positive limits, prices that
are natural numbers, the request kinds of a process among those the module has an action
for (`TurnBounds`, `DeskRequests`, `TillRequests`, `ClickWishes` and their likes, each beside its constants;
`ClickWishes` also says that each sign-in has a random state of its own).  `CatalogInputs`,
`KnowledgeBounds`, `LocationBounds` and `AccountBounds` say what the forms let through,
`SocialBounds`, `OfficeBounds`, `CampaignBounds` and `ActivationBounds` which requests there
are; `QuoteBounds` only that the limits are numbers.  `SlotBounds` and `QueriesFit` say that a
search is about a range of times, hours within a day that do not overlap, a positive
duration and step, and a zone as above.

**Conversation.**  `ClosedMeansPaused` is inductive with the type invariant once the copies
of requests are known to be consistent rows themselves: every writer computes both columns
from one copy.  A close outlives older messages because the order of events is only ever
extended at its end.

**Replies.**  `NeverSentTwice` is far from inductive: it needs to know that a
version that may have been delivered is never again the version of an attempt
that can send.  `DeliveryInv` says how: a worker past `MarkSending` either still
holds the token of a `SENDING` job or lost it to a sweep that made the job
terminal; a delivered version is smaller than the job's when the job can be
claimed again; at most one worker holds the current token.  Three more invariants rest on
it.  `BooksInv` accounts for attempts and for what a completed job answered: a job that
can be claimed has an attempt left, and a worker knows a version that it may finish.
`RowsInv` follows the stored replies: each was issued to one token, a worker in the send
window holds one that nobody else was given and that is still there, unless a worker
whose lease ran out deleted it, and only such workers can meet a rival.  `OrderInv` is the reason
that replies keep their order: a worker that is in the send window *on time* holds the
lease still, so that no newer version is being sent or was exposed beside it.  The refinement of
`ReplyContract` needs in addition that a worker answers only versions that a message has
queued (`QueuedInv`).

**Turns.**  `TurnGuards` says of the turns that had not passed their last look when approval
became required (`unapproved`) that they have not sent and are not about to while it is, and of
those that were between two checks when a person took over (`stopped`) that they get past none
while the person has the conversation.  A turn that prepares a draft is drafting at every step.

**Consent.**  `ConsentGuards` orders the statements of a webhook: a handler that goes on to
revoke or grant has stored its text, one that grants stored a START or YES, and
evidence that stands behind a STOP in the table was texted for to its own number.  Since
rows are only appended, "behind" is stable, and no half-done handler can turn
one number's START into another's.

**Drafts.**  `DraftShape` types the rows and copies.  `RowHolds` says
that an unsent draft was never given to the provider and that a sent one is of an earlier version,
`RowsOrdered` says that under one version a
later draft exists only if the earlier ones were never sent, `DeskFits` that what a desk read
under the lock is still so when it claims, except that a discard may have come between, and
`OneDesk` that a row being `SENDING` belongs to one request.  The version is bounded
by the messages and mode switches, counting those requests that have yet to raise it.

**Calendar.**  `BlocksApart` is strengthened by the type invariant, `TimeOffRespected`,
`SnapshotsInside` (the copy a confirmation will check, or write, lies in the period
of the row), that periods do not end before they start, and that unpaid
appointments are natively scheduled unless they are holds.  One lemma, `UpdateKeeps`, does
the work: replacing one row by one that blocks only a period that is clear, and that
lies inside the old one where a copy exists, keeps all of it.  Every action is an
instance of it; `AvailableIsClear` connects it with the check in the code.  The proof
shows what the property rests on: the copy `DepositCommit` writes back may be
older than the row, but never longer, and that is the only reason why the slot
checked for the row is still good for the copy.  `LedgerInv` (an appointment, its payment, its
session and its request at every stage of a deposit) gives the rest of
`CalendarSafe`; it had to say of what *kind* a payment can be in each deployment, because
`Reserve` and the legacy checkout would otherwise meet on one row.  `HistoryInv` says that a
browser's view is no newer than the row and agrees with it when the revisions are the same,
or the period was taken back; with it each step keeps what `HistoryKept` says.

**Lifecycle jobs.**  `LifecycleInv` has two halves.  `HandoverInv`: workers hold leases
by tokens that are never given twice (`Leases`), one job at a time owns a waiver link
(`OneOwner`), what a worker at each of its steps knows of its row (`Handover`), a row whose
text was handed over is never one that can be leased again (`SentRow`), and a row that was
obsolete when it became `SENDING` is stopped at its guard (`ObsoleteRow`).
`PlanInv`: rows and plans belong to revisions that exist, and the current revision of a confirmed
appointment has its waiver job, or a request that will plan it is still running
(`Covered`).  The last is what a crash breaks, and why the property excludes it.

**Payments.**  No property of the payments is inductive, since what excludes a second
collection is spread over the rows, the appointment and Stripe.  `LedgerInv` gathers
it: one row is `PENDING`; a session is open only while its row is, and paid exactly
when the row is settled or about to be; requests are about rows that exist; refunds
are about money that was collected; an open deposit means a `PAYMENT_PENDING` or
cancelled appointment, a balance a confirmed one, so that a deposit and a balance are
never open together although `Reserve` looks for the other *provider* only
(`NothingPending`).  Every webhook and refund step is an instance of `SettledAnew`, for
which `LedgerSettled` shows the invariant once.  For the refinement `RowSteps` lists what
a step can do to rows and sessions, and `ReserveAsks` shows that the amount the code
computes from its `PAID` rows is what is left after what *Stripe* collected: at that
moment nothing is open and nothing is refunded, so the two sets of rows are the same.
`MoneyInv` adds the sums: what a waiting payment asks for completes the price
(`AsksFollow`), so that its completion collects no more than it; `RefundsBounded` and
`VerdictShown` say that Stripe's refunds of a payment stay within it and that a row whose
last event was handled shows their verdict.  The sums are over any finite set of
attempts: the lemmas before `SumWithout` show that the recursive function which defines them exists,
`SumWithout` and `SumOfPart` what an element more or less does to it.  Its induction is over a set of numbers (`NaturalsFrom`), because the library's theorem
takes an operator.

**Square deposits.**  `Effect` says once, for each kind of step, what it does to rows,
handlers and Square's bookings (`NextEffect`); `RowAfter`, `HandlerAfter` and `HeldGoesOn` turn
it around.  On it rest three invariants.  `Held`: what Square holds is apart, a booking in a row
or a copy is held, and a handler that goes to its commit without one belongs to
a disconnected artist.  `Lock`: two handlers between lock and commit have different starts,
and nothing else with such a start is confirmed; the check in `Claim` stays true until the
commit only because rows keep their start and scheduler.  `Finish`: one handler can be past the
commit of an appointment, and it has not told the client yet.

**Google credentials.**  `GoogleInv` says that the caller who holds the advisory lock has
seen the row as it is (`HolderKnows`), and that the row has the newest token of the last
sign-in unless a replacement is on its way to it or was lost (`RowIsNewest`).  Nobody else writes while a call to
Google is out, so that a token is presented while it is the newest.

**Stripe account.**  `VisitKnows` relates a visit's copy to the row at each of its steps;
`ModeKept` and `ReadyKept` say that the row's mode is its account's and that an account
shown as ready was once declared ready by Stripe.  `RowChanges` shows once what another
visit's copy keeps when the row changes.

**Receipts.**  `TextKnows` says that a text which can be found by the provider's id only is
not found before its sender is done, so that the sender's overwriting of the row meets no
status yet, and that a reply's last report, once applied, shows.  `OneText` reduces every
step to the one text it is about.

**Counter.**  `CounterGuards`: an attempt that exists keeps its total, a session that is paid
or expired stays so, and a request that goes on with a card has its attempt.  Hence what a
request read of a session before it settles is still so (`TillsKeep`), and cash, which is
recorded only while the card is closed, never meets a session that somebody can pay.

**Invoices.**  `InvoiceInv` says who holds the claim: at most one request is between claiming and
the end of its issue or text, the others rest (`OneClerkMoves`); `ClerkKnows` says what it knows at each step.
That a repeated creation makes no second invoice rests on `MayRepeat`: an attempt that is
old and without an invoice's id is never repeated, since Stripe may have forgotten its key.

**Square sign-in and import.**  `StateOnce`: a state is still to come, or stored, or held by one
callback, or led to one login.  Imports insert under the row's lock what they do not find
there, so that `ImportedOnce` is kept by each insertion and by what removes rows.

**Consent forms.**  `LinkHolds`: a signed link is in a final status unless a sender wrote over it,
so that a second signature finds it closed; `HandKnows` says that a decision on a hosted form
follows a signature, which stays.  `MostSpecificForm` is arithmetic on the scores: priorities are
between 0 and 1000, as the route's schema says, and count in thousandths (`PointsDecide`).

**Services.**  The routes check every field of a service (`RowFits`), so that every row is
valid, and the copy an edit or a booking under way has read was valid too (`EditorKnows`,
`BookingKnows`); a booking that goes on needed no quote, hence has a length.  That readiness holds
is then shown by cases, and that a deposit is a whole number of cents is
arithmetic (`DepositIsNat`).

**Free times.**  The invariant says it of the part that has been walked: what was found is every
free time that the cursor has passed (`Passed`), and none twice (`SlotsRight`).  `StepPasses`
shows that a step of the cursor passes the one time it looks at; that the next rule cannot
offer it again is where the hours of one day must not overlap.  `DatesFollow`, that later instants
have no earlier date, is where the assumption on zones is needed.  For Square, the
windows so far tile the range from its start to the cursor (`Tiling`, `Cutting`), and moving the
last seam keeps it so (`SeamMoved`).  As the coverage is carried along, no induction over the
windows is needed.  An earlier form of the property said that times are found in order, and the
proof failed where the rules of a day follow each other: nothing in the code orders them.

**Quotes.**  Messages are only appended or taken back before they are shown, so that an agreement (terms
shown, and the client's next word yes) stays one (`Agreement`); `QuotesFit` and `VisitsFit` say
that an accepted quote and a requested deposit have one.  `RunKnows` says what a run has read at
each step, `RunsApart` that no two runs deliver one reply or book together.
`StepBooksApproved`: the step that records a booking finds an approved quote and takes its
price.  Here the proof found a fault of an earlier model, in which others could write while
Square books: they refer to the conversation's row, which is locked, and wait.  `LockFree` is now a guard
of each.

**Locations and knowledge.**  `LocationKnows`: a committed row, its hours and the newest entry of its
history are of one save.  `TxKnows`: a transaction holds what it wrote, and the hours it is about
to replace are still the committed ones.  `GuideKnows`: the save whose row a guide has read is in that
location's history, which only grows, so that the hours read next are not older.  `KnowledgeInv` says who may hold which lock (`HoldsRight`), from which
`NobodyStuck` follows: who is waited for has the artist's lock, and then nothing more to
lock, or writes under the profile's, and then waits for nobody but the one that has the artist's.  A review that holds the artist has found its source unreviewed and its statement new
(`ReviewKnows`); what a reading has collected for clients was in force after it began
(`ReadingKnows`).  `BestFits` is arithmetic on the scores of the aftercare texts.

**Accounts.**  One login for an email and for a profile (`OneLoginEach`); who is about to write an
invitation found no other profile's, who is about to accept holds one that stays open, and who is about to
mail a link has the only hand on it (`DoorKnows`).  That these last is shown from
`HandsApart`: two requests are not at such a point on the same row.  `RevokedKept` is the step property.

**Activation.**  The row and each copy are given the number of commands stored when they
were taken; `KnownOf` says that a row shown as live then had an activation after every pause and
every choice of a strategy (`LiveAt`), and one marked as called a test of calls after the latest
choice (`CalledAt`).

**Social inbox.**  The credentials in a row are its owner's (`RowKnows`).  A delivery of a message
knows the artist of its account, the person's client and its thread once it has passed the
steps that establish them (`HandKnows`), and an entry of the inbox has them all (`EntryKnows`).
Nobody takes an owner away, which is why it holds across disconnections.

**Numbers.**  `PurchasesKnown` says that what was bought is in a row or has an open intent,
`BuyersApart` that no two requests are about to buy the same thing.  `ServiceGoesOn`: the temporary number
is in its grace period only with the ported one there and a campaign known.

**Registration.**  `RequestKnows`: the resources a request holds are filed with Twilio, and a request that
found all good so far has passed approved campaigns only.  `ApprovedMeansApproved` is kept
since nothing filed changes its kind and what the carriers approved stays approved (`FiledGrows`).

*Only model-checked*: the liveness properties `JobSettles` and `PaidIsRecorded` (liveness and
`ENABLED` are out of the prover's reach).  Every other property of the passing runs is stated by a
theorem of the table.

## 5. Not modelled

* Reports, usage and banking views read rows and add them up.
* The user interface and the iOS application hold no state that the server trusts.
* Scripts for deployment, staging and migration run once, by hand.
* Of the modelled parts: uploads of pictures, the wording of replies and prompts, the model
  itself (any outcome of its tools may come), rate limits other than those of sign-in and
  reset, the simulated mode of Twilio, Google's events, Square's read-only catalog, the
  legacy checkout with several sessions, Terminal reader tokens and receipts.
  `PROJECT.json` says for each part what is left out.

What would add most: an abstract statement of who wins a slot that `ArtistCalendar` and `SquareDeposits` both implement, and
the composition of `SquareDeposits` with reschedules.

## 6. Running

```
tlc -workers 2 -config MCFrontDesk.cfg MCFrontDesk
tlapm ArtistCalendarProofs.tla
```

Each run takes between a quarter of a minute and four minutes.  The proofs take about an hour from nothing:
`FrontDeskProofs`, `SetupProofs` and `SalesProofs` around ten minutes each or more, the others two to five.
