# A TLA+ model of the VEAM payment engine

VEAM is a Go library that processes payments on top of one Postgres database. Webhooks become
rows of an *inbox* table, a consumer turns them into transitions of a payment's state machine,
each transition leaves a notice in an *outbox* table in the same commit, and a relay sends the
notices on, refunds to the payment gateway included, behind a circuit breaker. This directory
models that machinery, model-checks it with TLC, and proves part of it with TLAPS.

All paths below are relative to the repository's root. Line numbers are in `PROJECT.json`, which
maps every definition to the code it stands for.

## 1. Inventory

| Component | State it keeps | Operations | Hard behaviour | What makes it correct |
|---|---|---|---|---|
| Payment entity (`domain/entity/transaction.go`, `policy.go`) | a payment's status | `TransitionTo`, policies | none of its own | only legal steps; asking again is a no-op; the notice is that of the step |
| Payment service (`internal/core/service`) | none; a database transaction of four statements | `ProcessPaymentWithMetadata` | calls interleave between statements; failures; `FOR UPDATE` of a row that is not there | a call is one atomic legal step with its notice |
| Repository (`internal/core/repository`) | tables `transactions`, `inbox`, `outbox` | claims, finalisations, replays, upserts | `SKIP LOCKED`, leases of five minutes, the 48-hour window, unique indexes | a row has one worker; done means done |
| Inbox consumer (`internal/core/worker/inbox_consumer.go`) | its batch | claim, process, finalise | crashes between the phases; zombies; retries; panics; a status read anew at each attempt | no event lost, none applied twice if it says itself what it asks for, every event settles |
| Outbox relay (`internal/core/worker/outbox_relay.go`) | its batch | the same, with breaker and gateway | the same, and lost answers, aborted batches, compensation, refusals that say nothing of the refund | money goes back at most once, and next to a compensation only after such a refusal |
| Circuit breaker (`internal/core/resilience`) | state, time of the last transition, failure estimate, count | `Allow`, `RecordResult`, getters | atomics outside the lock, double-checked escalation, late results | one test at a time, no trip lost, a test is always decided |
| Webhook handler (`internal/core/handler`), deduplication | none | validate, fingerprint, insert | redelivery, key rotation, unique violations | each business event enters once, and none is dropped |
| Internal adapter (`internal/core/acl`) | none | turns a compensation into `REFUND_FAILED` | reads the payment outside the service's transaction | the saga ends |
| Provider registry (`domain/registry`) | copy-on-write map | `Register`, `Get` | concurrent registration | no registration lost |
| Keyring (`domain/entity/keyring.go`, adapters) | two secrets and an expiry | `Rotate` | rotation while signatures are under way | a signature lives for its grace period |
| Migrator (`internal/core/repository/migration`) | schema version | `EnsureSchema` | two processes at once, a lost answer to `COMMIT` | the version table tells the schema; whoever returns nil finds all its files in it |
| Engine facade (`engine.go`) | wiring | `RegisterProvider`, loops, replays, rotation | deployment in phases; shutdown | it comes to serve; what it says of a payment is true of the money, as far as a refusal is the gateway's own |
| CLI, example, telemetry, customers and subscriptions | | argument parsing, wiring, data types | | |

Interaction: the handler, the consumer and the relay never call each other; they meet in the
tables. The consumer calls the service; the service writes `transactions` and `outbox`; the relay
reads `outbox`, calls the gateway and the breaker, and writes compensations into `inbox`, which
the consumer processes through the internal adapter. Any number of processes run the loops.

## 2. Modules

| Module | Models |
|---|---|
| `TransactionFSM` | the statuses, `DefaultTransitionPolicy.Evaluate`, the type of notice, the notices a status stands for |
| `PaymentLedger` | abstract: what the engine promises about a payment and its notices |
| `PaymentService`, `MCPaymentService`, `PaymentServiceProofs` | `ProcessPaymentWithMetadata` statement by statement over `transactions` and `outbox` with row locks; it implements `PaymentLedger` |
| `CircuitBreaker`, `MCCircuitBreaker`, `CircuitBreakerProofs` | `Allow` and `RecordResult`, one action per critical section or atomic operation |
| `EventTable` | one row of inbox or outbox and what each `UPDATE` does to it |
| `ClaimOrder` | which rows a claim takes: the oldest, up to its limit |
| `EventQueue` | abstract: what the two tables promise as work queues |
| `InboxConsumer`, `MCInboxConsumer`, `InboxConsumerProofs` | the consumer's three phases, several workers; it implements `EventQueue`, and `PaymentLedger` with the notices its payments' statuses stand for |
| `OutboxRelay`, `MCOutboxRelay`, `OutboxRelayProofs` | the relay's loop with breaker, shutdown, gateway and compensation; it implements `EventQueue` |
| `Backoff`, `BackoffProofs` | the pause between batches of both loops, with the overflow of its 64-bit shift |
| `WebhookIngress`, `MCWebhookIngress`, `WebhookIngressProofs` | the gateway's notices, the handler, keyring and rotation, fingerprints and the inbox's unique indexes |
| `Translator` | what the Asaas adapter and the internal adapter read a payload as |
| `RefundSaga` | `InboxConsumer` and `OutboxRelay` joined by a payment, its gateway and the compensation |
| `Migrator` | `EnsureSchema` in several processes |
| `ProviderRegistry` | `Register`, copy on write, and `Get` |
| `Engine`, `MCEngine`, `EngineProofs` | `Migrator`, then `ProviderRegistry`, then `RefundSaga`: the engine from its deployment to the end of a refund |
| `Lemmas` | facts about `TransactionFSM` and `ClaimOrder` that several proofs cite |

How they fit together: `InboxConsumer` and `OutboxRelay` share `EventTable` and `ClaimOrder`
and refine the same `EventQueue`; `PaymentService` and `InboxConsumer` share `TransactionFSM`;
`InboxConsumer` takes the service as the atomic step `PaymentLedger` says it is; what
`WebhookIngress` inserts is what `InboxConsumer`'s `Ingest` lets arrive in any order.
`RefundSaga` instantiates `InboxConsumer` and `OutboxRelay` with variables of its own and replaces
their `Ingest` and `Publish` by what inserts rows there; `Engine` instantiates `Migrator` and
`ProviderRegistry` beside it. No action of these modules is written twice.

**Payment service.** `pc` is the statement a caller executes next. `Fetch` is
`SELECT ... FOR UPDATE`: it takes the row's lock, or nothing at all when there is no row.
`SaveTransaction` is the upsert, which waits for the row and then owns it; `Commit` publishes the
status and the notice at once; `Fail` is every error path and the crash of the process. A
payment's first call works on the caller's own `NewTransaction`, born `PENDING`. `SaveLocally` is
the example host, which saves a payment after creating it at the gateway.

**Circuit breaker.** A caller is a goroutine doing what the relay does: `Allow`, then calls each
followed by `RecordResult`, with a look at `GetState` in between. The failure estimate is an
integer `0..Scale` and the EWMA weights are integers. `requestCount` saturates at `MinRequests`,
with which alone it is compared. Time is one bit: has `ResetTimeout` passed since the
`lastTransition` the reader holds. `Forgetful` callers may end without recording a result.

**Inbox consumer.** A row is `[status, retries, orphan]`, `orphan` being the five-minute age of a
row in `PROCESSING`. `retries` saturates at `MaxRetries`, with which alone it is compared. A
worker holds claims (`held`) with the retry count it read, and the result of the one just
processed (`outcome`) until Phase C. The service is one atomic step, which is what
`PaymentServiceProofs` establishes for payments whose row exists. `ServiceError` includes a lost
answer to `COMMIT`. What an event asks for is in its payload ("good"), or is whatever the gateway
says of the payment at that attempt ("live", `Reads`): the Mercado Pago adapter's
`TranslatePayload` calls the gateway each time, so one event may ask for two things on two
attempts. `accepted`, `effects` and `attempts` are history: which events the service accepted, how
often each changed its payment, how often each was claimed. So is `overrun`, which says that some
live worker has outlived the lease of a row it holds, since from then on Phase C, which updates by
id alone, may finalise somebody else's row.

**Outbox relay.** As above, with a breaker per process. `Allowed` is `Allow`; it is part of the
claim because the relay is the only user of its breaker, and between the two it does nothing
others can see. Whether a result trips a closed breaker is left open, so every rate is covered.
The gateway is external: `GatewayDecides` answers a key it has answered before as it did then, and
decides freely otherwise; `Answers` is what an adapter makes of it. Any request may also fail
before the gateway decides on it (`Undecided`): with an error, or with a 4xx that is about the
request, such as 401 after a change of the API key, 403, 404 or a proxy's. Both adapters wrap that
in `ErrTerminalGatewayRejection` as they do a verdict, so it is "rejected" too, whatever earlier
requests with the key have done; `turnedAway` is the history of the events it happened to.
`compensation` is the one row the unique index on `(provider_id, fingerprint)` leaves room for.
`external_id` is unique as well and a compensation's is its payment's id: `IdsInUse` are the
refunds for which that is an inbox row's already, as at Mercado Pago, where the payment's own
notice has it (`InboxTakes`). `Shutdown` is `Stop` or the cancelled context of the host; after the
latter every call to the database or the gateway fails. `Return` is the loop's `select`, which
only follows a batch: a relay that `Allow` denies sleeps and asks again, and does not look at
`quit` or `ctx`; `asking` remembers which relays were told while they were there. The claim's
answer can be lost, and then nobody holds the rows it has marked.

**Backoff.** A number is the set of its one bits, so that `baseT << k` is a shift of that set cut to
64 bits. `PauseIsExponential` is about numbers alone: `MCOutboxRelay` assumes it for 71 shifts, so
TLC evaluates it, and `PauseCorrect` proves it for all.

**Webhook ingress.** The gateway announces each change of a payment and repeats a notice (`mail`)
until it is answered 2xx, several deliveries at a time; each is signed with the secret the gateway
has then. A request is validated against one snapshot of the keyring, fingerprinted and inserted;
`Recorded` is `ON CONFLICT ... DO NOTHING`, `Storable` the other unique index, on `external_id`,
which no `ON CONFLICT` names; a delivery that races another one of the same notice may fail on
either index (`Collides`), with 202 or 500. `Fingerprint`, `SameExternalID` and `TranslatePayload`
are those of the Asaas or of the Mercado Pago adapter (`Adapter`). `RotateWebhookSecret` is an
atomic load and an atomic store with anything in between. `untold` are the secrets the operators
have still to give the gateway, which they do in any order: when two rotations cross, the second
store may drop the secret the gateway is left with. A rotation is over (`RotationOver`) when the
gateway uses the newest secret, nothing on its way is signed with an older one and none waits to
be given. `hasty` is history: a rotation was loaded while another one was between its load and its
store, or a store, or the end of a grace period, came before the last rotation was over. `Read`
happens once per row; `EventQueue` tells what becomes of a row.

**Refund saga.** `remote` is the payment's status at the gateway, `transactions` the engine's,
`subject` the payment an outbox event is about. A notice comes from `mail` into the inbox in one
step, in any order and once per change, which is what `WebhookIngress` is about. `HostRefund` is
the service's step that commits `REFUND_PROCESSING` with `REFUND_STARTED`. `RefundRequest` moves
`remote` when the gateway sends money back the first time, and `Compensate` inserts the event that
`Translator`'s `FromEngine` reads as `REFUND_FAILED`. The provider is Asaas: its notices carry the
status they ask for, and its event ids are no payment's id (`IdsInUse` is empty). Host policies,
the 48-hour window and shutdown are left to the modules of the parts.

**Migrator.** One action per statement of `EnsureSchema`; `schema` is what is committed of the DDL,
`rows` the version table. Two transactions with the same DDL exclude each other, a transaction that
meets a version already recorded fails, and a process that fails is started anew, as the init
container of `documentos/estrutura/overview.md:38` is. The builds may differ (`Files`).

**Provider registry.** `Register` as lock, copy, store, unlock. **Engine.** The phases of
`documentos/estrutura/overview.md:38-42`: `Running` guards every step of `RefundSaga` until all
pods are migrated and all providers are registered.

## 3. Runs

`tlc -config X.cfg M` for each line of "runs" in `PROJECT.json`.

| Run | Instance | Shows |
|---|---|---|
| `service` | 2 callers, one existing payment, one the host saves late | calls implement the ledger, history and status agree, decisions are fresh, no call ends with a lock on a row, calls end |
| `breaker` | 2 callers, one forgetful, estimate 0..4, `MinRequests` 3 | one test, no lost trip, only tests close, tests happen and are decided |
| `inbox` | 2 workers, 2 events, batches of 2, 1 retry, 1 fault | work queue, exclusive claims, DLQ only when exhausted, nothing completed unaccepted, one effect per event (two at most for one whose status is read anew), every event settles unless an adapter returned nothing for some event |
| `relay` | 1 relay, 2 events of every kind, batches up to 2, 1 retry, 1 fault (a crash, a shutdown, a database error or a replay) | work queue; nothing completed unhandled; a refund once, and with a compensation only if a request was refused undecided; every event moves on, and a relay told to stop stops, unless the breaker stays half-open |
| `engine` | 3 pods of two builds, 2 versions, 2 providers; 1 payment, 2 relays, 1 worker, no retry, 1 fault | the version table tells the schema; no registration lost; the engine serves; its statuses agree with the money, and a refund goes back once and is not compensated, unless a request was refused undecided; no payment is forgotten between the gateway and the engine, inbox and outbox are work queues whoever inserts, and every refund ends or lies in a DLQ, with relays and workers that outlive their leases |
| `ingress` | Asaas; 1 payment that changes twice, 2 requests at a time, 2 admins, 2 rotations, 1 fault | an answered notice is kept, and once; patient rotations refuse nothing; every status arrives if the keyring has the secret the gateway is left with |

Runs expected to find a violation, each a place where code and documentation disagree:

| Run | Disagreement |
|---|---|
| `service_first_call` | `FOR UPDATE` does not serialise the first calls of a payment: there is no row to lock |
| `inbox_poison` | an adapter that returns neither transaction nor error (the mock provider, the internal adapter for an unknown payment) makes the consumer dereference nil; the process dies before Phase C at every attempt and the event never reaches the DLQ |
| `relay_rejections` | compensations carry an empty fingerprint; the table takes one, and all later rejections go uncompensated |
| `relay_half_open` | a test batch without a refund records nothing; the breaker stays half-open and the relay never sends again until a restart |
| `relay_refusals` | a 4xx about the request (401, 403, a proxy's) counts as the gateway's terminal rejection: after a refund whose answer was lost, the retry is compensated, and the payment is `REFUND_FAILED` with the money returned |
| `ingress_mercadopago` | a Mercado Pago notice has the payment's id as `external_id`, which is unique: every notice about a payment but the first is answered 500 for ever |

`EveryEventSettles` excludes events for which an adapter returns nothing (`NoPoison`): such an
event kills the worker before Phase C and keeps the other rows of its batch waiting too, which is
what `inbox_poison` shows.

**Bounds.** Two actors are what every race here needs: one holds a stale value, the other changes
what it was read from. Two events fill a batch that can be aborted in the middle, let batches
overlap, and let two compensations compete. With one retry an event is claimed fresh, retried, and
exhausted. `MaxFaults` bounds crashes, database errors and operator replays together; gateway
failures, refusals, breaker trips, lost leases and lost gateway answers are not bounded.
`CHECK_DEADLOCK FALSE` in the queue and ingress runs: a system whose events have all settled, or
whose notices are all answered and read, stops. In `inbox` only the first event may be "live", and
the second then carries a status: what matters is a live event retried after another event or the
host moved its payment (`OneLiveInit`). In `relay` the second event's external id is in use, the
first's is not. In the ingress, two changes of one payment make the "created" and "updated"
notices Mercado Pago tells apart, two requests deliver one notice twice at once, and two rotations
by two admins either follow or overtake each other.

The engine's instance is the largest that finishes in good time. With `MaxRetries` 0 a refund is
tried once and again after a rescue or a replay; with 1 the instance has more than twice the
states. The inbox has room for two rows: what the payment's arrival and its end produce; notices
about a late payment (`OVERDUE`) would need a third row. Retries, several
events and batches are what `inbox` and `relay` are for. Two relays may hold one refund, which is
what makes an answer late, and three pods of two builds make one of them finish on another's
migration.

**Fairness.** Workers' loops run (`Start` never ends by itself), statements are executed, waiters
of a row lock get it (Postgres queues them), external calls return (with an error if need be: the
HTTP clients have timeouts), leases and `ResetTimeout` run out. The gateway delivers a notice again
and again until it is answered, however busy the handlers are (strong fairness of `Deliver`: it is
the gateways' retry policy, not the code's), and is given every secret in the end. Arrivals,
changes, host requests, ageing, rotations, crashes, errors, shutdowns and replays are never fair.
In the engine, a pod whose migration failed is started anew and every goroutine that registers a
provider runs; a refund the gateway has accepted is carried out.

`EventsMoveOn`, `StopsWhenTold` and `RefundsEnd` are conditional: they speak of behaviours in which
some breaker (for `StopsWhenTold` the relay's own) leaves its half-open state again and again. The
run `relay_half_open` shows why they must: a breaker can stay there for ever, and then its relay
neither sends nor stops.

## 4. Proofs

`tlapm M.tla` for each; every theorem holds for all values of the constants its module's
assumptions allow.

`PaymentServiceProofs`. The inductive invariant `Inv` adds to the types how locks and calls hang
together: whoever is past `Fetch` with a row in hand holds its lock, so `found` is still the
committed status; whoever has written holds the lock; what is staged is the notice of what was
written. From it `DecisionsAreFresh`, and `Refinement`: `Commit` is `Advance` of the ledger (or a
stutter, when the status was there already) and every other step leaves preloaded payments alone.
`HistoryIsExact` follows in the ledger: the status determines the notices published so far.
`NoDeadlock` adds to the invariant that a lock's holder is past the statement that took it and
about the same payment (`LocksAreOwn`), whichever statement fails. A call names one payment and
locks one row, so a circle of waits is impossible by construction; what the proof adds is that no
call ends with a lock. What the ledger does not cover are payments without a row, whose first
calls overwrite each other (`service_first_call`); `SerializedInTheEnd` shows that this passes:
once the row is there and the calls that found none are over (`FirstCallsOver`, which is stable),
every commit is a legal step from the row it replaces.

`CircuitBreakerProofs`. `TripsAreNotLost` is the subtle one: `RecordResult` reads the rate and the
count outside the lock, but whoever last changed either is still on its way to the lock with
values at least as alarming, and a success that lowers the rate is no loss. `HalfOpenHasProbe`,
`OpenIsLeftByTest` and `SingleProbe` are about the escalation and who may close.

`InboxConsumerProofs`. There are two invariants because there are two arguments. `Inv` holds
whatever workers do: every claim is of a row that exists, a worker that remembers a success has
seen the service accept the event, and only such a worker writes `COMPLETED`; that is
`Completion`, overrun leases included. `LeaseInv` is what a lease buys: while nobody has outlived
one (`~overrun`), a claimed row is exactly as its worker remembers it (`Exact`), no two claims are
of one row (`Exclusive`), and a row's retries count the attempts made (`RetriesCountAttempts`); a
worker never keeps a claim it has already processed (`ProcessedOnce`), so that after Phase C
nothing it holds is stale. `Exclusion` and `Exhaustion` follow. `QueueRefinement` maps a row to
its phase in `EventQueue` and shows, action by action, that a step moves at most one event along
the queue's arrows; the batch lemmas (`BatchLease`, `FinaliseLease`) carry the weight, as a claim
changes many rows at once.

`AtMostOnce` rests on the state machine having no way back: `Rank` grows with every transition, so
once an event has changed its payment the payment is at its target or beyond (`Passed`), and the
same target asked for again is either there already or illegal. That is the argument for an event
that says what it asks for. One whose status is read anew may ask for the next thing when it is
retried: applied as `PAID`, its Phase C lost, it can be applied again as `REFUNDED` after the
host's refund. Each change it makes takes the payment one of the two steps from `PENDING` to the
end of its way, and the host's steps take none back, so there are two changes at most (`Steps`,
`LiveChanges`); the run reaches both. The bound is about payments that have a row: two first calls
can overwrite each other (`service_first_call`), and an event whose effect was overwritten can be
applied again. With `Completion` the first half is also `NothingUndone`: what a completed event
that carries its status did to its payment is never taken back. `LedgerRefinement` takes every
step of the consumer and of the hosts to a step of `PaymentLedger`. The consumer's model has no
outbox of notices; `HistoryGrows` says that the notices its statuses stand for grow by exactly the
step's own, which is what lets `InboxConsumer` use the service as one step.

`BoundedBatches` and `ClaimsInOrder`, here and in `OutboxRelayProofs`, are about `Oldest`, the
claim's `ORDER BY` and `LIMIT`: with finitely many rows it is at most `BatchSize` of them
(`OldestAreFew`) and skips none (`OldestComeFirst`), so no claim passes over an older row that is due.
For the relay that includes its limit of one in half-open and the 48 hours.

`OutboxRelayProofs`. Three arguments. The gateway's memory (`Money`) holds one verdict per event,
money has gone back exactly where the verdict is "ok", and what relays remember and what the inbox
got agrees with it or comes from a request refused undecided (`Refused`): that is `OneFate`. It
says that lost answers, server errors, rescues, replays and overrun leases never make the engine
compensate a refund that went through, and that an undecided refusal is the only thing that can;
`relay_refusals` shows that it does. A success is remembered only of a handled event, and an event
once handled stays so: that is `Completion`, for relays that have outlived their lease too. While
leases are kept, a row in a relay's hands is in processing and in no other relay's (`LeaseInv`):
with that every step moves at most one event along the arrows of `EventQueue`, or claims a batch,
which moves none (`QueueRefinement`).

`WebhookIngressProofs`. A status the gateway has announced is still being delivered or has its row
(`AnnouncedIsKept`), and a row that was read has been told (`ReadIsTold`);
`AsaasKeepsWhatItAnswers` follows. It assumes `Adapter = "asaas"`, whose fingerprint has the
status in it: Mercado Pago's is the same for every update of a payment, so that a later update
counts as a duplicate of an earlier one. `SmoothRotation`: the primary secret is always the newest
(`Keys`), and while rotations wait for each other one admin at a time has loaded it
(`OneRotation`), so the secret it retires is the one in use and the only one still to be given is
its successor. It speaks of patient rotations only: it excludes those that cross, and grace
periods that end before the gateway has switched and what is on its way has arrived.
`Deduplication` is the unique index.

`EngineProofs`. The migrations (`SchemaInv`): a process applies the lowest of its files above a
version that is in the table, so all below it are there too (`NextFile`). The registry
(`RegistryInv`): whoever is past `Lock` has the mutex, so its copy is still the map. The refund
(`SagaInv`): neither a notice on its way, nor an inbox event, nor a payment says more than the
gateway does (`NothingInvented`); a payment gets one outbox row at most, once it is
`REFUND_PROCESSING`, and money goes back for such rows only (`RefundsAreOwed`). So when the
gateway accepts a refund for the first time, the payment there is still `RECEIVED` and nobody has
been told that it stays (`StillThere`, `OneFateNext`); when a rejection is turned into an event,
either the gateway has decided on it, and the money has not moved and never will, or a request was
refused undecided (`Compensated`, `TurnedAway`). That is `Agreement`: `REFUND_FAILED` with the
money returned has no other cause than such a refusal.

`NothingForgotten` is its converse: what happened to the money is told. A change announced by the
gateway is a notice in `mail` or has its row, a compensation has its row, and a payment being refunded
has an outbox row or a request at the gateway (`FollowedUp`); a row that was completed was accepted, and
then its payment has heard of it (`Passed`). So no crash, lost answer or late worker can leave a payment
waiting with nothing left to move it on. `RefundedOnce` joins the two: over all outbox rows a payment
ever gets, its money goes back at most once, and if it was told `REFUND_FAILED` all the same, one of its
requests was refused undecided.
`QueueRefinement` shows that the two tables stay work queues when their rows come from other
components: an insertion by the handler or by a compensation is the queue's `Arrive` (`InsertArrives`),
every other step is that of one side, and leaves the other queue as it is. `ActsOnce` and
`LedgerRefinement` carry the consumer's promises over to the engine.

The invariants
of the consumer and the relay are not proved again: the module instantiates `InboxConsumerProofs` and
`OutboxRelayProofs` the way `RefundSaga` instantiates their modules, and cites their lemmas.

`BackoffProofs`. `PauseCorrect` splits on whether a bit has reached the sign. If none has, the shift
is the exact product and nothing is lost. If one has, every bit of the product lies above all of
`maxT`'s, since `baseT` spans twenty bits only: the product exceeds `maxT`, and what is left of the
shift is zero, negative or greater than `maxT`, so the pause is `maxT` in any case.

The theorems assume no more than the `ASSUME`s of the modules: limits are natural numbers, batches
are not empty, and `None` is none of the data. The bounds of the runs do not appear in them; faults
are counted up to a constant, which is arbitrary.

Only model-checked: liveness (every `~>` and `<>`: `CallsFinish`, `OpenIsTested`,
`HalfOpenResolves`, `EveryEventSettles`, `EventsMoveOn`, `StopsWhenTold`, `EngineServes`,
`RefundsEnd` and `NothingMissed`), which TLAPS cannot prove under fairness here. Every invariant,
action property and refinement a passing run checks is a theorem too.

## 5. Not modelled, and the plan

Not modelled: HTTP, JSON and the adapters' field mappings, creating customers and payments at a
gateway, telemetry, argument parsing, and the data types nothing processes (customers,
subscriptions); ports are interfaces without behaviour. Host policies (`WithPolicies`) are left
out: `RestoreTransaction` gives an entity the default policy only, so for a payment that has a row
the service never consults a host's. Registering a provider a second time is left out as well: a
handler made before keeps the old adapter, and with it the old keyring.

Seen in the code, and not a property here:

- the example host's upsert of a new payment (`examples/basic_server/main.go`) can put a payment
  that a webhook has moved back to `PENDING` without a notice;
- the claim's `created_at > NOW() - INTERVAL '48 hours'` holds for replayed rows too
  (`internal/core/repository/postgres_repository.go:136`): an event older than that which an operator takes out of
  the DLQ is pending for ever. `EventsMoveOn` names that outcome;
- two rotations that cross (`adapters/asaas/adapter.go:187`) leave the keyring without one of the two new
  secrets; a gateway left with that one is refused until the next rotation. `WebhookIngress` has these
  behaviours, and `RotationIsSmooth` and `NothingMissed` exclude them by their premises: no document says that
  concurrent rotations are safe;
- a compensation's external id is its payment's, and `external_id` is unique: at Mercado Pago, whose notices
  have the payment's id too, even the first compensation may be refused (`IdsInUse`);
- migrations are applied in the order of their file names (`sort.Strings`), which is that of their numbers
  only while the names are zero-padded, as all of them are;
- a result of a call from before the breaker opened can decide its half-open state;
- an Asaas refusal that lists its errors is not terminal (`adapters/asaas/adapter.go:91`), so the
  refund is tried until it lies in the DLQ and is never compensated; in `OutboxRelay` it is one of
  the `Answers` to a rejection;
- the Mercado Pago adapter parses the engine's payment id as a number
  (`adapters/mercadopago/adapter.go:138`); an id that is none fails before the request, every time;
- a late payment is `FAILED` for ever, and a refund the gateway starts by itself is refused, as no
  policy leads there from `RECEIVED`: both notices end in the DLQ;
- `Stop` called twice closes a closed channel; the example's `main` does not wait for its loops.

What is left: registering a provider a second time while its old handler is serving, and creating a
payment at a gateway together with the host's upsert of it.
