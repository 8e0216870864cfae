# govibe-core: TLA+ models, checks and proofs

govibe-core is a NestJS backend that sells tickets and table reservations. All
durable state is in PostgreSQL behind Prisma. Every HTTP request, every worker
and every provider callback is a process of its own, and several instances of
the program may run, so whatever keeps the data consistent is in the
transactions, the row locks, the `WHERE` clauses of updates and the unique
indexes. This project models those, together with crashes, lost answers,
expired holds and stale reads, checks small instances with TLC and proves, with
TLAPS and for every size, every safety property that those checks confirm.

## 1. The system

| Part | State | Operations | What is hard about it |
|---|---|---|---|
| payment initiation (`payments.service.ts`) | `payment_intents`, its audit log | `initiatePayment` in two transactions with a provider call between them; two failure recorders | a crash or a webhook between the transactions; concurrent retries with one idempotency key |
| payment webhooks (`payment-verification.service.ts`) | `provider_webhook_events`, `payment_intents.status` | `handleWebhook`: dedupe, link, verify with the provider, apply | duplicated and reordered deliveries, an answer that is old when it is applied |
| ticket issuance (`ticket-issuance.service.ts`) | `tickets`, issuance audit | `issueTicketFromVerifiedPayment` | concurrent issuance, a response that is lost after the commit |
| admissions (`admissions.service.ts`) | `tickets.status`, scan audit | `scanTicket`: preflight, then a transaction | two gates at once; a preflight on an old copy |
| payment providers (`payments/verification`, `payments/infrastructure/providers`) | none here, a transaction per reference at the provider | initiate, verify, two readings of the provider's words | a request that failed here and had its effect there |
| organizers and events (`organizers.service.ts`, `events.service.ts`) | `organizers`, `events` | create, update, submit, publish, cancel | a check on a copy, then a write by id: whatever happened in between is overwritten; tickets copy the expiry at issuance |
| inventory (`modules/inventory`) | bucket counters, `ticket_reservations` | reserve, sweep, release, reconcile | a cached counter, old `NOW()`, opposite lock orders |
| tickets for orders (`issue-tickets.use-case.ts`) | orders, tickets, `sold_count` | issue, under the retry loop of the reference allocator | a retry after a commit whose acknowledgement got lost; late issuance |
| orders (`create-order.use-case.ts`) | `orders`, `idempotency_keys` | `CreateOrder` | an idempotency key that is claimed but not visible yet |
| order payments (`verify-payment.use-case.ts`) | `payments`, `ledger_entries`, `orders.status` | `VerifyPayment` | old provider answers applied in any order |
| sessions (`src/auth`) | `sessions` | login, refresh with rotation, replay detection, logout, per-request check | single statements without a transaction |
| tables (`modules/tables`) | `event_tables`, `table_reservations` | hold, replay, organizer's status change, availability, owner's read | every call judges by a clock read before it waits; one reader takes no lock |
| outbox (`shared/outbox`) | `outbox_events` | append, claim a batch, dispatch, mark | claims that run out under a slow worker |
| admin support (`modules/admin-support`) | `admin_support_audit_logs`; reads seven tables | thirteen lookups: guard, search, page, redact, audit, answer | a failed audit must refuse the answer; pages over a table that the lookups themselves extend |
| roles and guards, launch control | configuration | permissions of a role, allow-lists | judged by the token, or before the write |
| redis caches, QR tokens, fraud, notifications, realtime, offline sync, identity | none in use | stubs or helpers that nothing calls | |

How they interact: initiation and webhooks share `payment_intents`; issuance
only reads its status; scans only touch `tickets`. Initiation checks the event,
its organizer and launch control before it stores anything. On the order path a
reservation made by the inventory is named by an order, the order is paid
through `VerifyPayment`, and `IssueTickets` consumes the reservation. The
outbox rows are appended in the transactions of the other services.
Properties that make each part correct are the ones of section 3.

## 2. Modules

In every module a process that serves a call has a program counter (`rpc`,
`dpc`, `ipc`, ...). A step is one committed transaction, one statement where
the code opens no transaction or runs at READ COMMITTED without a lock, or one
call of an external service. A transaction is one step where its isolation
level (SERIALIZABLE) or the row lock it takes first makes it so, and several
steps otherwise. Hashes, random tokens and ids are modelled by what identifies
them (the call that generated them), texts and audit payloads are left out.

| Module | Models | State | Actions |
|---|---|---|---|
| `Providers` | both pairs of provider adapters: the outcomes of an initiation, the words of a reply, the two tables that read them; the provider's own view of a transaction (external). `PaymentIntents` and `Checkout` extend it | none | none: operators such as `InitiationOutcomes`, `mapStatus`, `paymentStatus` |
| `PaymentIntents` | initiation, webhooks | `status`, `terms`, `verified`, `audit`, webhook rows `event`, the provider's `charge`, the progress of requests and deliveries | `FindExisting`, `CreateIntent`, `RetryIntent`, `ReplayIntent`, `CallProvider`, `PersistInitiated`, both failure recorders; `ReceiveWebhook`, `CreateWebhookEvent`, `RejectEnvelope`, `VerifyByReference`, `applyTerminalTransition`, ...; `Abandon...` for a process that dies; `ProviderSettles` |
| `Tickets` | issuance from payments, scans, cancel and update of the event | `ticket`, `token`, `expiresAt`, audits, progress of issuances and scans | `IssueTicket`, `ReplayIssuance`, `RejectIssuance`, `RespondWithToken`; `ScanTicket`, `AdmitTicket`, `RejectReplay`, `ReplyScan`; `cancelOwned`, `publishOwned` (the late write of a second publication), `updateOwned`; `PaymentStep` stands for the payment services |
| `SingleEntry` | abstract: what a buyer is promised | `paid`, `pass`, `spender` | `Pay`, `Issue`, `Enter` |
| `TicketSystem` | `PaymentIntents` and `Tickets` over one `payment_intents` table | union | a step of either |
| `Inventory` | one bucket: reserve, sweep, release, reconcile, issue for orders | counters, holds, orders, tickets, rows a sweep has locked | `ReserveInventory`, `claimExpiredHeldReservations` and `SweepExpiredReservations`, `FindExpired` and `ReleaseExpiredReservation`, `ReconcileInventoryDrift`, `issueWithReferences`, `FailAttempt`, `PlaceOrder`, `SettleOrder` |
| `Checkout` | orders under idempotency keys, order payments, the ledger | keys, orders, payments, `credits`, the provider's view | `tryCreatePending`, `CreateOrder`, `ReplayOrder`, `RollbackOrder`, `verifyPayment`, `ApplyVerification`, `RefuseVerification`; `AddPayment`, `ProviderMoves`, `LoseHold` for the surroundings |
| `Sessions` | login sessions and refresh token rotation | session rows, tokens that reached a client, progress of refreshes, checks and revocations | `IssueSession`, `Refresh`, `rotateRefreshToken`, `DetectReplay`, `ExpireOnRefresh`, `RespondRefresh`, `assertSessionUsable`, `ExpireOnCheck`, `revokeSession`, `setActive` |
| `Access` | permissions of the roles and the guard that compares them; `Catalog` and `AdminSupport` extend it | none | none |
| `Catalog` | organizers, events, and the eligibility check of a payment | rows of both tables, what each call will write, histories of which calls overlapped | a check (`SubmitForReview`, `UpdateOwned`, `PublishOwned`, `CancelOwned`, `InitiatePayment`, ...) and its write (`SaveSubmission`, `SaveEvent`, `SavePublication`, `SaveCancellation`, `StoreIntent`, ...); `AbandonCall`; `Review` and `ConfigurePayment` for what no code under `src/` writes |
| `AdminSupport` | the support lookups | rows of the tables, sessions that are usable, the calls | `Arrive`, `Admit`, `Refuse`, `List`, `Get`, `GetMissing`, `RecordRead`, `RecordReadFails`, `Answer`, `AbandonLookup`; `Insert` and `EndSession` for the other services |
| `TableHolds` | holds of an event's tables | table rows, holds, a reader's copies and uncommitted updates | `createHold`, `ReplayHold`, `updateEventTableStatus`, `getAvailability`; an owner's read as `ReadOwned`, `findEventTableState`, `MarkExpired`, `FindActive`, `CommitRead` |
| `Outbox` | the transactional outbox and its workers | rows, a worker's batch and the retry counts it read, histories of how calls ended | `append`, `claimBatch`, `dispatch`, `markProcessed`, `markFailure`, `Crash`, `Requeue`, `Elapse` |

`MC*` modules give a symmetry and inputs for TLC (`MCTickets` for `Tickets` and
`Catalog`, `MCBackOffice` for `Sessions` and `AdminSupport`), `*Proofs` modules hold the
theorems (`PaymentIntentsProofs` also those about `TicketSystem`,
`CatalogAndSupportProofs` those about `Catalog` and `AdminSupport`). Definitions named `Mutant...` are deliberately wrong versions of the
definition that follows them; nothing uses them. Putting one in place of its
original must make TLC report the property it belongs to: it documents which
defect that property detects. `PROJECT.json` maps every definition to its lines.

External to the source, and modelled from its use: the payment providers (a
transaction per reference that opens and then settles, with an amount that may
differ; a buyer may come back to a checkout that was left or failed, a capture
may be reversed; `Settles` and `Words` of `Providers`), the reviewers'
decisions and the price of an event, the operator's requeue of the runbook,
and the passing of time.

A reply that the adapter does not accept says little about the provider: only a
request that was not authenticated certainly had no effect (`MayOpen`), and a
MoMo initiation without a phone number or without an access token sends nothing
(`Sends`). So an intent may be INITIATION_FAILED while the provider holds its
transaction.

## 3. Runs

`tlc -config <cfg> <module>`; all constants are small sets of model values.

| Run | Shows |
|---|---|
| `payment_webhooks` | Two initiations of one intent race with two deliveries of one provider event, in either of two encodings and also with a bad signature. `VerifiedIsCaptured`: VERIFIED only if the provider captured the amount of the intent. `TerminalHasEvidence`: intent, webhook row and audit agree. `OneTransitionPerEvent`: at most one delivery of an event causes a transition. `NoTerminalSwap`: VERIFIED never becomes FAILED or the reverse in one step, and a failed initiation is never revived by a webhook. |
| `payment_keys` | One key used by two buyers and for two payloads; webhooks of the wrong provider, unsupported, or without a reference. `OneIntentPerKey`: the terms stored first are never replaced. `HandlersFinish` (liveness): every handler that is not killed ends, and no webhook row stays RECEIVED. |
| `tickets_and_catalog` | Two modules that share no variable, each in behaviours of its own (below). Tickets: two issuances and two scans of a ticket while the event is cancelled or rescheduled and payments do anything `PaymentStep` allows. `AdmittedOnce`, `AcceptedHadTheRight`, `TicketIsNeverReissued`. Catalog: four calls over an organizer and an event, from empty tables or from an approved organizer with a draft. `DatesInOrder`: an event ends after it starts unless two updates overlapped. `CancelledIsFrozen` and `DecisionsStand`: a cancellation, or a reviewer's decision, is undone only by a call that passed its check before it, and which one. `NoSaleAfterCancellation`: nobody who comes after the cancellation is sold a ticket unless two publications had raced. |
| `ticket_system` | `ImplementsSingleEntry`: the composition refines `SingleEntry`. `KeepsTicketAssumption`: the real payment services only take steps `Tickets` assumed of them. |
| `inventory` | Two reservations that fill a bucket of two, two orders, two issuers with two attempts each, a sweep and a release with an old clock. `IssuedOnce`, `SoldCountAgrees`, `CacheCoversHolds` (the cached counter never misses a live hold), `OnTimeSalesFit` (live holds and sales made before the hold expired fit the capacity). |
| `checkout` | Two `CreateOrder` calls over two keys and two reservations, two payments and two verifications. `OneOrderPerKey`, `CreditedOnce`, `PaidHasCredit`, `OnlyPaymentDecides`. |
| `sessions_and_back_office` | Two more such modules. Sessions: three refreshes of a session from two devices with a check, a logout and a deactivation. `OneRotationPerToken`, `RevocationsStick`, `OldTokensAreDead`, `EndedStaysEnded`. Support: two lookups, whose audit rows are themselves looked up. `EveryAnswerIsTraced`, `NothingSensitiveLeaves`, `PagesMissNothing`. |
| `table_holds` | Three actors, two tables, one unlocked reader. `OneLiveHold`, `UnavailableHasNoHold`, `HoldsAreKept`. |
| `outbox` | One event that two workers fight over. `VerdictsAreEarned`: it is filed as processed only if a dispatch resolved, and as a dead letter only after an error that rules out a retry or MAX_RETRIES errors, so neither a crash nor a lost claim costs an attempt. `ProcessedIsFinal`. `EventuallyAtRest` (liveness): every event is in the end processed or a dead letter for good, or due and waiting for a call of `processBatch`; it is never retried for ever, although a late failure may lower its retry count or take it out of the dead letters. |
| `payment_single_transition` | violated, see section 6 |
| `payment_one_provider_call` | violated, see section 6 |
| `inventory_capacity` | violated, see section 6 |

In `MCTickets` and `MCBackOffice` the variable `part` is chosen at the start and
says which of the two modules moves; the other stays at an initial state. The
behaviours are therefore those of the two specifications, side by side, and
every property is checked on its own module's.

In `payment_webhooks` and `payment_keys` the set `Phoned` says which payment
details name a phone number; `checkout` has a payment at each provider, so that
both tables of words are read. The largest instance is `inventory`
(1,642,818 distinct states); `payment_webhooks` has 1,063,379, `tickets_and_catalog`
817,612, `checkout` 792,531, `sessions_and_back_office` 639,846, `ticket_system`
407,384, `payment_keys` 395,919, `outbox` 61,192.

A reconciliation of the inventory runs READ COMMITTED and may wait for the bucket's
lock, so it recounts by the clock of any earlier moment (`ReconcileInventoryDrift(at)`),
as the sweep and the release do. In `sessions_and_back_office` the stored rows hold
a forbidden key, a key that is forbidden only as `normalizeKey` leaves it, and one that
contains a high-risk fragment, each nested at another depth.

The runs check the types of `Inventory`, `Catalog`, `AdminSupport` and
`PaymentIntents`; those of every module are proved.

All configurations disable the deadlock check: the number of calls is finite,
so the system comes to rest when all of them have been served.

### Bounds

The named bounds are `MaxTime` (clock), `MaxAttempts` (retry loop, 2),
`MaxClock` (clock of the lookups), `SweepLimit`, `MaxCredits` (entries per payment, one more than may be made),
`MaxRetries`, `MaxCrashes`, `MaxRequeues`, and the sets of calls. The conflicts
in this code are between two processes over one row: two calls of each kind, or
three where a third must observe the outcome of two (sessions, tables), reach
all of them. Time needs one tick for a hold to expire and one more for a clock
to be old, so `MaxTime` is 2 where old clocks matter (sessions,
inventory) and 3 for tables, where a hold made after an expiry must itself be
able to expire. It is 1 for tickets, whose only clock question is before or
after the expiry, and 0 in the composition, where expiry is not the question.
`MinTight` is 50 in the code and 0 in the model, so that a bucket of two passes
from the trusted counter to the recount; `MaxRetries` is 10 in the code
and 3 in the model, enough for a count to be set back and reach the limit
afterwards. One event is enough for the outbox: rows influence each other only
through the batch they are claimed in, and a worker that loses the rest of its
batch is a worker that is slow. With several keys, amounts and events the
safety properties are covered by the proofs. Four calls are what the longest
known case of `Catalog` takes: two publications race, the event is cancelled,
the slower publication reopens it, and a buyer comes. Calls are numbered in the
order they come, which stands for a symmetry. Two pages of three rows over four
stored audit rows, with one row of another service and the rows the lookups
write, let a page boundary fall between rows of one instant, where
`PagesMissNothing` says nothing, and between others, where it does.

### Fairness

Only `FairSpec` of `PaymentIntents` and `Outbox` state fairness, and it is weak.
A handler's next step is taken unless it is killed (`Abandon...` is always
possible and is never forced): database calls return or throw, and the
adapters pass a timeout to `fetch`, so a provider call ends too (the
verification adapters clear their timer when the headers are in, so reading the
body is bounded only by the HTTP client's own limit). Nothing is assumed of the provider settling a
charge. An outbox worker that has claimed a batch works it off unless it dies
(`BatchStep`): the dispatcher that `outbox.module.ts` provides resolves at once, and
the updates return or throw. `next_attempt_at` is at most a finite backoff away, so
it passes (`Elapse`). Crashes and requeues are bounded in number and not fair.
Nothing under `src/` calls `OutboxService.dispatchPendingBatch`, so `claimBatch` is not fair
either: an event may stay due for ever, which is one of the ends `EventuallyAtRest`
allows.

## 4. Proofs

Every safety property that a passing run checks, invariant, action property or
refinement, is also a theorem, for arbitrary sets of buyers, keys, calls,
workers, tables and so on. Each proof has an inductive invariant (`IndInv`,
`EvidenceInv`, `CountInv`, `EntryInv`, `CatalogInv`, `SupportInv`), a lemma that
the initial states satisfy it, a lemma with one case per action that every step
keeps it, and the theorems that follow by temporal logic. TLC checked each
invariant on the run's instance before it was proved.

The assumptions, named in the modules and evaluated by TLC on every run, give
types, distinct ids and positive limits (`InputAssumption`, `EnvelopeAssumption`,
`SessionAssumption`, ...). The ones that say more:

- `InventoryAssumption`: reservations and orders are finitely many, so that
  their sums exist;
- `CatalogAssumption`: the id of an organizer is not the id of an event (both
  are UUIDs), because `first` and `closing` are indexed by either;
- `RowAssumption`: finitely many rows are stored at the start, none with the id
  of a lookup still to come;
- `TextAssumption`: the names of the audit columns that a lookup fills are not on the list of
  forbidden keys, ids contain no sensitive fragment, and no configured secret is
  a part of a constant text such as `SUPPORT_READ`. Otherwise redaction would
  blank the audit row itself, and the trace with it;
- `GateAssumption`: in the composition, what `Tickets` assumes of its constants.

**`PaymentIntentsProofs`**

- `TypesHold`, `VerifiedMeansCaptured`, `TermsAreNeverReplaced` from `IndInv`. It
  adds what a handler knows at each point (`HandlersKnow`), that a row has terms
  exactly when it has a status (`RowsHaveTerms`), and `AnswersAreTrue`: a SUCCESS
  that a handler still holds is not outdated by what the provider did since,
  because a captured amount is final. Without it an old answer could make an
  intent VERIFIED. That an answer is true when it is given rests on the
  adapters: `AdaptersReadTrue` (here and in `CheckoutProofs`) says that only the
  word for a captured transaction is read as SUCCESS, whichever provider is asked.
- `EvidenceIsComplete`, `EventsTransitionOnce`, `TerminalsAreNotSwapped` from
  `EvidenceInv` (on top of `IndInv`): the status of a webhook row follows the progress of the handler
  that created it (`EventsFollowHandlers`), a row is VERIFIED exactly when the
  trail names its delivery for its own intent (`TrailMatchesEvents`), a terminal
  intent has such a trail (`TerminalHasTrail`), and two rows never share an event id or
  a payload (`RowsAreDistinct`, from the two unique indexes). None of these is
  inductive alone. The lemmas sort the steps by effect: initiations settle
  nothing, a handler touches only its own row, and the last transaction writes
  intent, row and trail together.
- `PaymentsAreAsTicketsAssume`: in `TicketSystem` a payment step changes the status
  of at most one intent and removes none, which is all that `Tickets` assumes;
  the theorems of `TicketsProofs` therefore describe the composed system.
- `OnePaidEntry`: `TicketSystem` implements `SingleEntry`. The purchases captured in
  full only grow, by one at a time (`PaymentsOnlyCapture`: an opened transaction is not opened
  again, a reversal keeps the amount, terms are never replaced), so a payment
  step is a `Pay` or a stutter. A ticket is issued for VERIFIED intents only,
  which were captured by `VerifiedIsCaptured`, so `IssueTicket` is an `Issue`. By
  `EntryInv` a ticket that is not USED has no accepted scan and a scan that still
  is in its transaction has no decision, so `AdmitTicket` is an `Enter` by the only
  accepted scan, and every other step of a scan stutters.

**`TicketsProofs`**: `TypesHold`, `TicketAdmitsOnce`,
`AcceptedScansPassedTheChecks`, `NoReissue`. The invariant adds what the preflight
established for a scan that has not entered its transaction (`ScansKnow`); it
survives until then because token and expiry of a ticket never change.

**`InventoryProofs`**

- `ReservationsAreIssuedOnce` from `IndInv`. Nothing ever makes a reservation HELD
  again once it has tickets: a release that read it before it was sold may
  overwrite CONSUMED by EXPIRED, which changes nothing for a second order, since
  only HELD reservations are issued. The counters play no part.
- `InventoryTypesHold`, `CacheNeverMissesAHold`, `SoldCountIsExact` and
  `OnTimeSalesNeverOversell` from `CountInv`. The counters are compared with sums
  over sets of rows, so the module first proves what a sum over a finite set is:
  that the recursive function inside `SumFunctionOnSet` exists
  (`PartialTablesExist`, `SumTableEntry`), and how a sum changes with one element
  more or less (`SumRemove`, `SumMonotone`, `SumAgree`). The induction takes the property
  as a set of subsets (`SetInduction`) rather than as an operator, and rests on the
  well-foundedness of the naturals. `CountInv` adds that the clock of an open transaction is not
  ahead (`ClocksLag`): what is expired by an old clock is expired, so a sweep or a
  release never takes a live hold out of the counter. `OnTimeSalesFit` needs
  the cache: near the limit `ReserveInventory` recounts, away from it the counter
  it trusts covers the live holds.

**`CheckoutProofs`**: `TypesHold`, `KeyHasOneOrder`, `PaymentCreditedOnce`,
`PaidOrdersHaveCredit`, `OnlyPaymentIsDecisive`. `KeysInv` says that keys and orders
name each other and that at most one open transaction holds a key that is not
visible; `PayInv` that an answer still to be applied is not about money that was
never taken.

**`SessionsProofs`**: `TypesHold`, `TokenRotatesOnce`, `RevocationIsFinal`,
`RotatedTokensAreDead`, `EndedSessionsStayEnded`. That a token rotates once is not
inductive: one needs where each stored token comes from (`Provenance`), that nobody
presents a token that does not exist yet (`PresentedExist`), and that a rotated
token is current nowhere.

**`TableHoldsProofs`**: `TypesHold`, `OneHoldPerTable`, `OffSaleIsFree`,
`HoldsStayKept`. The unlocked reader writes back a state computed from an old copy;
the invariant says that it never writes UNAVAILABLE unless it read it
(`ReadersNeverClose`), which needs that a table off sale has no expiry to clear
(`OffSale`), and that it expires only what was stale by its own past clock
(`MarkedAreStale`).

**`OutboxProofs`**: `TypesHold`, `VerdictsHold`, `ProcessedStaysProcessed`. A worker
about to write a verdict has seen the call that justifies it (`HandsKnow`), no retry
count, in the table or in a worker's old copy of a row, exceeds the errors that were
caught (`CountsAreEarned`), and a row that is due has an attempt left (`CanRetry`). The
errors are counted over the event's life: a worker that claimed it before an
operator's requeue still writes the count it read.

**`CatalogAndSupportProofs`**

- `CatalogTypesHold`, `DatesStayInOrder`, `LatecomersAreTurnedAway`,
  `CancelledEventsAreFrozen`, `ReviewsStand` from `CatalogInv`. Every call of
  `EventsService` and `OrganizersService` checks a copy and writes by id later, so
  the invariant says who may still be waiting: whoever will publish an event
  that left DRAFT was waiting when it did (`RacersAreKnown`), whoever will change a
  cancelled event or a decided organizer was waiting at that moment
  (`ClosersAreKnown`, `OrganizerCallsAreKnown`), the row each one will write exists
  (`CallsHaveRows`), and what a lone update will write is in order with the row as
  it is now and not only as it was read (`DatesWillFit`).
- `SupportTypesHold`, `AnswersAreTraced`, `NothingSensitiveIsSent`,
  `PagingMissesNothing` from `SupportInv`: the audit row is there before the answer
  (`RecordedIsTraced`), what a call holds was redacted when it was read
  (`HeldIsHarmless`), a list holds exactly one page of the rows it found
  (`PagesAreExact`), and a call that came after an answer finds every row that
  answer was chosen from (`LaterCallsFindMore`). The argument about pages is the lemma
  `ConsecutivePagesMissNothing`, by counting: a row on neither page is among the
  rows the second call skipped, and those are no more than fit on the first
  page, so some row of the first page was not skipped. It is then both at least
  and at most as new as the missed row, which therefore shares its timestamp.

Only model-checked: the two liveness properties, `HandlersFinish` and
`EventuallyAtRest`, since fairness is outside the prover's reach. The three
properties of section 6 are refuted by TLC and have no theorem.

## 5. What is not modelled

- HTTP, DTO validation, passwords, signatures and the JSON encodings of
  the provider adapters: stateless; where they refuse a call the models
  have a refusal. `parseWebhook` of the adapters of the order path is called by
  nobody.
- The role in an access token is the one of its signing (`Access`); how long a
  role that was taken away goes on working is the lifetime of the token, which
  the models do not have.
- Launch control's lists of providers, currencies and gates: comparisons with
  configuration. The event and organizer lists are in `Catalog`.
- Public and owner reads of events and organizers: they change nothing and
  answer with what is stored. Floor sections and venue tables: plain records.
- Creation of rows of `payments`: nothing under `src/` inserts them; `Checkout`
  assumes that somebody does (`AddPayment`).
- A schedule: nothing under `src/` calls the sweep, the outbox batch or
  `IssueTickets` periodically; the models let them run at any moment.
- The effect of a dispatch: `outbox.module.ts:18` provides a dispatcher that resolves
  and does nothing, so an event can be filed as processed without anything having
  been sent. The model has only whether the call resolves or throws, and nothing is
  claimed of an effect.
- The older re-entry state machine of admissions, redis caches and QR
  verifiers: no service calls them. Fraud, notifications, realtime, offline sync and
  identity have no bodies yet.
- Scripts (schema rehearsal, smoke tests, gates), configuration, health,
  telemetry, logging: tools and observation, no state of the domain.

## 6. Where the code departs from what is said of it

Each has a run that exhibits it.

1. `payment_single_transition`. `markInitiated` writes by id whatever the status
   is. A webhook that settles the intent before the second transaction of
   `initiatePayment` is overwritten by INITIATED, and a distinct event
   transitions the intent again, against
   `test/payments-verification-webhooks.integration-spec.ts:503`. It is never
   settled the other way in one step (`NoTerminalSwap`), and VERIFIED remains true
   of the provider (`VerifiedIsCaptured`).
2. `payment_one_provider_call`. Two concurrent retries of a failed initiation both
   read INITIATION_FAILED and both call the provider, against
   `test/reliability/idempotency-concurrency.reliability.spec.ts:72`.
3. `inventory_capacity`. A reservation stops counting when it expires, but
   `IssueTickets` accepts it as long as no sweep has marked it, so a late issuance
   oversells, against `test/concurrency/inventory/no-oversell.spec.ts:46`.
   `OnTimeSalesFit` shows that without sales of expired holds the bucket is never
   oversold.

Seen while modelling, without a run of their own: an initiation that dies
between its transactions stays INITIATION_PENDING and a retry with the same key
only replays it (`docs/pilot-gate/runbooks.md:72` recommends that retry);
`getOwnedReservation` may show a held table as AVAILABLE until the next
reconciliation (`tables.service.ts:253`), without a second hold resulting; two
outbox workers may dispatch one event at the same time when a claim runs out
(`src/architecture.md:39`); the only dispatcher does nothing, and nobody calls it, while
the recovery check of `docs/pilot-gate/runbooks.md:168` expects the downstream effect
to be observed exactly once; an order with several payments shows the verdict of
the one verified last; a release that waited for the bucket while the
reservation was issued files it as EXPIRED; two racing publications may reopen
an event that was cancelled in between, two racing submissions may send an
organizer back to review after the decision, and two overlapping updates may
leave an event that ends before it starts (`events.service.ts:113`), each
exactly as far as the properties of `Catalog` allow; a published event may lose
its location or capacity by an update, since `assertPublishable` runs at
publication only (`events.service.ts:160`); `CreateOrder` does not look at the
status of the event (`create-order.use-case.ts:139`); an expiry check on an old
copy may end a session that was just refreshed (`session.service.ts:78`), and the
unlocked reader of a table may write AVAILABLE over the organizer's UNAVAILABLE
(`table-reservations.service.ts:564`); the duplicate key of a repeated order is
caught inside a transaction that PostgreSQL has by then aborted
(`prisma-idempotency.repository.ts:66`), so `ReplayOrder` is an outcome the code means and
`RollbackOrder` the one PostgreSQL gives, and the properties hold of both; a lookup of an id that does
not exist leaves no audit row; redaction by fragments also replaces the
rejection reasons INVALID_TOKEN and TOKEN_REPLAY_DETECTED of a scan, which contain
"token"; MoMo's EXPIRED and TIMEOUT are failures for an intent and stay PENDING
for the payment of an order; `VerifyPayment` never compares the reference
in the provider's answer with the one it asked for.

## 7. Plan

1. Compose `Checkout` with `Inventory` (the order that `Inventory` takes as given is
   the one `Checkout` creates and settles), with an abstract specification of
   a sale; its run replaces the separate ones where it covers them.
2. Prove that composition to implement the sale, along the lines of
   `OnePaidEntry`: `Inventory` gets from `Checkout` no more than `PlaceOrder` and
   `SettleOrder` allow.
