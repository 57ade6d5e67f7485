# TLA+ specifications of the smart energy grid

This directory holds TLA+ modules of the services of this repository, the TLC
configurations that check them, and TLAPS proofs. Paths below are relative to
the repository root.

## 1. The system and its parts

| Component | State | Operations | Talks to |
|---|---|---|---|
| Ingestion (`apps/ingestion`) | dedup markers in Redis (`SET NX EX`) | POST of one reading, POST of a batch | Redis, Kafka `raw_readings` |
| Stream aggregation (`apps/stream-processor`) | in-memory windows per (size, bucket, meter), consumer offsets | processReading, flush 1m / 15m, shutdown | Kafka in, TimescaleDB tables `aggregates_1m`, `aggregates_15m`, Kafka `aggregates_1m`, `aggregates_15m`, `aggregates_1m_regional` |
| Anomaly detection (same process) | one EWMA baseline per meter | checkReading | TimescaleDB, Kafka `alerts` |
| Tariff (`apps/tariff`) | `tariffs` table, price cache in Redis, last price per region in memory | automatic price change on a regional aggregate, operator override, removal of an override, current price | Kafka `aggregates_1m_regional` in, PostgreSQL, Redis, Kafka `tariff_updates` |
| Alert (`apps/alert`) | `alerts` table, Redis markers and dedup keys, overload windows, last-seen times | regional overload check, meter outage check, anomaly alert, acknowledge, resolve, bulk resolve, automatic resolve | Kafka in, PostgreSQL, Redis, Kafka `alerts_processed`, `alert_status_updates` |
| Notification (`apps/notification`) | connected WebSocket clients, channels, subscribers | connect, subscribe, unsubscribe, broadcast, heartbeat, disconnect, shutdown | Kafka in, browsers |
| API gateway (`apps/api-gateway`) | users, sessions, OTPs, meters, invoices in PostgreSQL | registration and login, tokens, meter assignment, invoices and payment, proxies to the other services | PostgreSQL, TimescaleDB, tariff and alert services over HTTP, Kafka |
| Simulator (`apps/simulator`) | simulated meters | generate and send readings | ingestion over HTTP |
| Infrastructure (`scripts`, `docker-compose.yml`, `packages`) | schemas, topics, shared types | none at run time | |

Every service is one Node process: one callback runs at a time, and what is
between two `await`s is atomic. All concurrency is at the awaits (requests,
Kafka messages, timers and shutdown interleave there) and between processes
that share PostgreSQL, Redis or a topic.

## 2. What is hard, and what makes each part correct

* **Aggregation.** A flush awaits the database and Kafka between the snapshot
  and the clear, and everything it reads may change there. Offsets are committed
  by timer while readings are only in memory. Correct: no consumed reading is
  lost, the stored row of a window is complete and final, publications agree
  with rows.
* **Tariff.** Three stores (table, cache, memory) and a topic are written one
  after the other with a failure possible between any two; an operator and the
  automatic calculation write concurrently. Correct: when nothing is in
  progress and nothing failed, the cache agrees with the newest row; prices
  shown were stored; a change the service has decided on reaches the table.
* **Alerts.** Rows, Redis markers and published messages are written in
  sequence; suppression of duplicates reads what another handler is about to
  write. Correct: one active alert per subject, no lost status update,
  processing of an aggregate does not stop half-way.
* **Ingestion.** The dedup marker is set before the message is published.
  Correct: an acknowledged reading is in the topic.
* **Notification.** The registry keeps three indexes of the same relation, the
  heartbeat ends clients while broadcasts go on, and the shutdown waits for the
  connections it has yet to close. Correct: the indexes agree; a dead client is
  removed and no other; nobody misses what concerns him; the shutdown ends.
* **Gateway: tariff proxy.** The gateway waits five seconds for a service that
  goes on, checks an override by other limits than the service, and shows a
  price and its author out of two requests. Correct: what an operator is told
  was applied is in force, and a view does not mix two prices.
* **Gateway: billing.** Payment, dispute and generation read without a lock and
  write later; the dispute takes a second connection inside a transaction.
  Correct: the tables change as if each were one step, status, payments, flags
  and numbers agree, nothing is done twice for an account but through a race,
  nobody waits for ever while a dispute can get its second connection, users and
  operators are told the same of a month.
* **Gateway: meter assignment.** A free meter is looked for, checked and written
  in three statements, on a connection held while another is asked for. Correct:
  a meter has one user, nobody goes without one for no reason.
* **Gateway: OTP, sessions and tokens.** No handler uses a transaction: what it
  has read may be answered, replaced, ended or revoked when it writes. Correct:
  guesses are bounded; a code, password, session or token that no longer counts
  has an effect only through a request that had read it before.
* **Anomaly detection.** Every reading asks the database for an average that a
  flush writes meanwhile. Correct: a load that does not change is judged the same
  every time.

PROJECT.json lists each hazard at its line under `hazards`.

## 3. Modules and plan

| Module | Models | State |
|---|---|---|
| `AggregateTable` | what readers of the aggregates are promised: abstract, a row written once, complete, then told | implemented by `StreamAggregator`, checked and proved |
| `StreamAggregator` | aggregation path of `apps/stream-processor` | checked, proved |
| `AnomalyDetector` | anomaly detection in the same process | checked, proved |
| `TariffService` | `apps/tariff`, one region | checked, proved |
| `TariffGateway` | the gateway's tariff proxy, composed with `TariffService`, which it implements | checked, proved |
| `AlertLog` | what operators and the consumers of alerts are promised: abstract, a log of alerts only ever advanced, and silence only where an alert was published | implemented by `AlertService`, checked and proved |
| `AlertService` | `apps/alert`, one region | checked, proved |
| `Ingestion` | `apps/ingestion` with the simulator's sender | checked, proved |
| `NotificationService` | `apps/notification` | checked, proved |
| `InvoiceLedger` | what the tables of billing promise: abstract, one step for each operation | implemented by `Billing`, checked and proved |
| `Billing` | payment, dispute, monthly invoices and the deletion of users, statement by statement | checked, proved |
| `BillingReports` | lists, analytics and exports: expressions over the tables of `Billing` | checked, proved |
| `MeterAssignment` | registration and assignment of meters, with the connection pool | checked, proved |
| `Sessions` | codes, password, sessions and access tokens of one account | checked, proved |

Each `X` has an `MCX` with the values of its constants (`MCBilling` is over
`BillingReports`), one `.cfg` for each run, and `X_proofs` with its theorems;
`StreamProcessor_proofs` is about both modules of the stream processor,
`Tariff_proofs` about both of the tariff, `Billing_proofs` about all three of
billing. What could follow: an abstract specification for `NotificationService`
(a relation between clients and channels); the composition of the two consumers of `aggregates_1m_regional` with
what the stream processor publishes.

A definition `Mut_X` is a mutated form of the one it precedes, a bug the code
could plausibly have; no specification uses it. PROJECT.json pairs each with the
property that finds it, so that no property passes for lack of anything to find.

Clocks, topics, requests, failures and crashes are counted in the modules and
bounded by constants (`MaxTime`, `TopicSize`, `MaxRequests`, `MaxFaults`, ...).
The bounds stand in the guards; the proofs hold for every value of them.

## 4. The modules

### StreamAggregator, AggregateTable

*State.* `log` is `raw_readings`; `pos` and `committed` are the consumer's
position and what the broker knows of it; `windows` is `windows1m` and
`windows15m` together, indexed by (kind, bucket, meter); `rows` is the tables;
`published` the topics; `flight` the local variables of each flush in progress
and the await it is at. A window is the *set of deliveries* it has added up, so
that equal windows have equal statistics.

*Actions.* `Deliver` is `handleMessage`..`processReading`. A flush is
`TimerFires` (to the first await), `UpsertDone`/`UpsertFails` (TimescaleDB),
`PublishReturns` (with any part of the batch sent), `RegionalReturns`; clear and
return are in the last of them. `setInterval` does not wait for its callback, so
several `Timers` may have flushes of one kind under way. `Commit` is kafkajs's
auto-commit, `Rebalance` a return to the committed offset, `ShutdownCalled`,
`ShutdownFlush`, `Exit` the lifecycle, `Crash` and `Restart` the container.
A delivery says how often the consumer had gone back (`gen`) and to which process
it was made (`born`), so that a reading delivered again is another delivery.

*Properties.* The code does lose readings, in three ways: a window whose bucket
ends while a flush of its kind runs, a late reading for a bucket flushed or
being flushed, a committed reading in memory when the process ends. `damaged`
records the windows this has touched. For every other window: no consumed
reading is lost (`ConsumedIsAccounted`), it is stored in the end
(`ConsumedIsStored`), its row is complete and equal to what was published, and
regional sums take only stored windows (`StoredRowIsComplete`,
`PublishedIsStored`), although flushes overlap and fail. Of every window, damaged
or not, `StoredRowIsComplete` says that its row counts no reading twice because
it was stored before a crash and came again after it: the new row replaces the
old. A process that is itself handed a reading twice, after a rebalance, does
count it twice (section 6); the property allows that and nothing else.
A reading of 0 kW is skipped, as the code does, and none of these is about it.
`ImplementsTable` puts it the other way round, as a machine without memory,
flushes or crashes: `AggregateTable` consumes readings (`Consume`), writes rows
(`Store`), tells of them (`Tell`), and is set back to an earlier reading
(`SetBack`). A window is given up before it is written, or when another reading
of it comes afterwards, never otherwise; and even then its row has readings of
its own only. The mapping takes the tables and topics as they are, and for what
belongs to a window what the topic holds.

*Runs.* `aggregator_safety`: one meter, minutes 0..2, two readings, one
redelivery, two overlapping timers (1.0 million states), so that a second flush
can start at any await of the first and take the same window, and the windows of
two minutes may meet: the second closes while a flush that has the first in its
snapshot is at an await, and is cleared unwritten.
`aggregator_stored_eventually`: a single reading, of 0 kW or not, in both window
sizes, under fairness. It is about retries, shutdown and restart; what overlaps
is the matter of the first run.

*Fairness.* The event loop runs callbacks that are ready, the broker delivers,
`setInterval` fires, queries end (weak fairness), and
a process that has ended is started again, as `DATAFLOW.md:571` has it
("Automatic service restart on failure"; `docker-compose.yml` itself has no
restart policy, so an operator has to, `README.md:249`). Strong fairness of `UpsertDone` says the database does
not refuse every upsert for ever; the code retries at each timer.

### TariffService

*State.* Rows of `tariffs`, the Redis key, the `lastPrice` map, the last message
of `tariff_updates`, and for the consumer and each request (`op`) the await it is
at and the row in its hands. Prices are hundredths of a rupee.

*Actions.* `Consume` (calculation up to the insert), `Override`, `Remove`, `Get`
start a sequence; `InsertDone`, `CacheSet`, `PublishReturns`, `DeleteDone`,
`LatestRead` and their failures are its awaits. A failed query may or may not
have taken effect. `Expire` is the key's time to live; `Restart` preloads.

*Properties.* `PricesShownWereStored`: the cache and the topic show no price that
was never in the table. `CacheIsCurrentUnlessDisturbed`: with nothing in
progress the cache agrees with the latest row, unless handlers overlapped,
something failed, or the history was rewritten. `CacheSettles`: expiry repairs
what disturbances have left.

*Run.* `tariff_service`: one aggregate, two requests (overrides, removals,
reads) in two slots, which may overlap each other and the consumer, failures at
every await, one crash, redelivery and the preload of a restart. One load and
one override price suffice because only whether the prices differ matters, and
they differ from each other.

*Fairness.* Queries and commands end; the consumer goes on; keys expire; the
process is started again, as above.

### TariffGateway

*State.* That of `TariffService`, which it extends, and for each request the call
the gateway has in progress (`call`: what was asked, where the call is, what was
answered) and what the operator has on screen (`board`).

*Actions.* `CreateTariffOverride`, `RemoveTariffOverride`, `GetCurrentTariff`,
`GetTariffHistory` are the handlers; `TakeOverride` and `TakeRemoval` the
arrival at the service, possibly after the gateway has given up (`TimeOut`);
`Refused` the service's own validation; `Serve` a step of the service's handler
together with the answer in its last. `Service` and `ServiceCrash` are all other
steps of `TariffService`, unchanged.

*Properties.* `AppliedOverrideIsInForce`: an override that was answered with
success has been stored, and is a latest price until another handler starts.
`ViewPairsLatestRows`: a view read in two requests shows the price and the label
of latest rows, unless something was written meanwhile.

*Run.* `tariff_gateway`: two calls at a time with failures, time limits and a
crash; override prices of 8 and 50, one the service accepts and one that only
the gateway does. No call is sent that `MaxRequests` would keep the service from
taking, so that the bound hides no answer.

### AlertService, AlertLog

*State.* Redis (`lastSeen`, overload `windows`, the markers `active` and
`dedup`, each the instant at which it expires), the `alerts` table, the status
messages published, and the stage of the consumer and of each request.

*Actions.* `Consume`, `CountWindows`, `FindOutages`, `CheckActive`,
`CheckDuplicate`, `InsertAlert`, `PublishAlert`, `MarkDuplicate`, `Activate`
are the awaits of `handleMessage`; `Acknowledge`/`Resolve` read the row,
`UpdateAlert` writes it back, `PublishUpdate` and `ClearActive` follow in the
order of the handler; `BulkResolve` is its transaction with the loop after it;
`AutoResolve` the timer's statement. `GetAlerts`, `GetStatistics` and
`UserSummary` are the queries, operators over the table. `ConsumerFails`, `RequestFails`, `Crash`
may come at any await.

*Properties.* `ImplementsLog`: the service, one call after the other with
operators between, implements `AlertLog`, which has `alerts` for its rows and
shows what an operator acts on. A row is made (`Raise`) of a subject
that no marker silences, and not within `Ttl` of another row of it, unless the
creation of that one was cut short; rows are acknowledged and resolved and never
go back (`Advance`); what is announced of a row is true of it (`Announce`); only a
subject with a published row becomes silent (`Silence`). A subject is *barred*
when its check for duplicates throws, which skips the outage checks of the whole
aggregate: the log lets that begin only when somebody deals with an alert of the
subject (`Release`) or when the service fails over its last one (`Fail`), and
end only with time (`Pass`).
`OverloadIsWarranted`: an overload alert rests on as many overloaded aggregates
within the span as the threshold asks for, where an aggregate counts once, and
once more after a crash that brought it again (`counted` is history: what was
counted, after how many crashes). So an alert on fewer aggregates than the
threshold, which the code does make (section 6), needs a redelivery.
`AnnouncedAsShown`: what was announced of an alert is what the queries behind
the lists, the history, the statistics and a user's summary show of it, and
without a failure they show nothing that was not announced, however requests
overlap.

*Runs.* `alert_service`: two meters, two messages, two instants, and a budget of
two events (requests, failures and crashes together), spent at any await: two
requests that overlap, a request that fails, a crash after a failure are all in
it. A unit of time is a minute, so the 30 seconds after which a meter is missed
are less than one (`OutageAfter = 0`), two windows of the same minute make an
overload and those of two do not (`MinWindows`, `WindowSpan`), keys live a minute
(`Ttl`) and end at its last instant: each limit is met and passed.
`alert_audit_trail`: one acknowledgement and one
resolution of one row (section 6).

### Ingestion

*State.* What each sender waits for, the requests the service works on (a sender
that has timed out posts again while its first request is still at work), the
dedup keys, and how often each reading is in the topic.

*Actions.* `Post`, `Timeout` and the retry inside `Answer` are
`HttpSender.sendBatch`; `CheckAndMark`/`CheckFails` the `SET NX EX` commands of
the middleware; `Publish`/`PublishFails` the controllers, with the answer each
gives; `Expire`, `Crash`.

*Properties.* A reading is in the topic at most once for each time its marker
was set, by whichever request and however late (`OncePerMarker`); success is
told only of readings that are in the topic, that another request is about to
publish, or that a fault has hit (`SuccessIsAccounted`); without faults
everything arrives (`ReadingsArrive`).

*Run.* `ingestion`: a batch of two and a single post of one of its readings,
three attempts each, two faults, two expiries: enough for a retry to overlap the
request it repeats, for both to meet a third one's marker, and for a marker to be
set a third time, with the requests of its first two lives still at work.

*Fairness.* Senders post, requests are worked on. Timeouts have none.

### NotificationService

*State.* `clients` with the order of insertion (`ahead[c]`: the clients the map
yields before `c`), `channels` of each socket, `subscriptions` of each channel,
`isAlive`, the pings not yet answered, the state of each connection, the phase
of the shutdown.

*Actions.* `Connect`, `Reject`, `Subscribe`, `Unsubscribe`, `Disconnect`,
`Pong`, `Heartbeat`, `Handle` (a message of any of the six kinds) and
`Signal`, `ServerClosed`, `Exit` are handlers, none of which awaits between
its steps. `Leave` and `Vanish` are the peer: a vanished one neither closes nor
answers. `terminate()` is reported by a later `close` event, so a terminated
client is in the registry until `Disconnect`.

*Properties.* `RegistryConsistent` (three records of one relation);
`NothingMissed` (an open client that never unsubscribed gets every alert,
status change and tariff that concerns it); `HeartbeatEndsTheDead`: no prompt client is ever ended, and as the
heartbeat's loop *returns* at the first dead client, a dead one may outlive
several, but no more than there is room for clients; `ShutdownEnds`: `server.close` waits for the very connections that
are closed only after it, and still ends, because the heartbeat goes on until
then, unless a client that answers stays for ever.

*Run.* `notification`: a user with a meter, an operator and a user who may be
late with his pong, room for two, one request. Room for two lets a client be
refused, and lets one dead client be before another; the bound of
`HeartbeatEndsTheDead` is reached.

*Fairness.* The timer fires, ended sockets report it, a prompt client answers
within the 30 seconds between heartbeats, and the awaits of the shutdown end.
Nothing is assumed of signals, messages or of clients that leave.

### Billing, InvoiceLedger, BillingReports

*State.* `status`, `number`, `isDisputed` are the rows of `invoices` of one
month, `paidBy` those of `payment_transactions`, `meter` the column of `users`,
`gone` the deleted users; `at` and the locals are each request's place. What is
billed is an account, a user with a meter (`Accounts`), because
`billing.service.ts:338` looks for an invoice of both; an invoice is named by its
account and the generation that made it. A connection is held from `begun` to
the end. `raced` and `moved` (who has lost a meter he had) are history.

*Actions.* Payment: `Connect`, `CheckInvoice`, `WritePayment`, `CommitPayment`.
Dispute: `Connect`, `TakeSecond` (its second connection), `WriteDispute`,
`CommitDispute`. Generation: `ListUsers`, `NextUser`, `CheckPeriod`,
`TakeNumber`, `InsertInvoice`, `CommitInvoice`. `Publish` ends all three.
Waiting for a locked row, an uncommitted number or a connection is in the
guards. `DeleteUser` and `ChangeMeter` (a free meter assigned, or the user's own
taken away: `user.service.ts:188`) are an admin's statements beside them. They,
`StatementFails`, a lost answer to a COMMIT and `Crash` share the budget
`MaxFaults`.

*Properties.* `ImplementsLedger`: the statements implement `InvoiceLedger`, whose
operations are one step each; the mapping takes committed rows for its state.
A paid invoice stays paid and no dispute takes hold of it, whatever overlaps.
`BooksSound`: paid when and only when a payment is committed, disputed only with
the flag and flagged until paid, numbers unique, without gap while nobody is
deleted, within their digits. `TwiceOnlyByRace`: two payments, or two invoices of
an account, need a check made before the other's commit (the code does not
exclude it); and a user has two invoices for different meters only if he has lost
a meter he had, after which a later run, with no race at all, bills him again
(section 6). `NobodyStuck`: disputes that hold every connection, each waiting for
its second, wait for ever, which the run reaches, and there is no other way in
which everybody waits. `ReportsAgree`: lists, histories, analytics and exports
tell one story.

*Run.* `billing`: two payments, two disputes, two generations, two users, two
meters in every assignment, two connections, one fault (0.6 million states). One
generation is for all regions and one for the region of one user, so that they
share a user and not the other. Two of each are what a race takes; the pool, 20
in the code, is as small as lets a dispute take its second connection, and lets
two disputes keep each other from it. The four digits of a number are
`Capacity = 2` with `Radix = 3`, so that the limit is met.

*Left out.* The pool also serves the assignment of meters and single statements
elsewhere, which take part in the same exhaustion (section 6). Users stay in
their region (`user.service.ts:93` can change it), and the regions of a run for
all of them are listed in any order.

### MeterAssignment

*State.* `meter` is the column of `users` (`NoRow` before the user exists); `at`,
`chosen`, `user`, `todo` are the requests' places and what they have read.

*Actions.* `LookForEmail`, `CreateUser` and then `Connect`, `ReadUser`,
`FindMeter`, `CheckMeter`, `WriteMeter`, `CommitMeter` are a registration; an
admin's assignment starts at `Connect`; `ListUnmetered`, `NextUser`, `BulkEnds`
are the bulk. `FindMeter` takes a second connection for its query, as the code
does. `SetMeter` is the older route, `Unassign` and `DeleteUser` single
statements; `StatementFails` and `Crash`.

*Properties.* `ServedUnlessOvertaken`: a registration is left without a meter
only when none is free or another statement overtook it, and an assignment
replaces a meter only of a user it had found without. `StuckOnlyByExhaustion`:
assignments that hold every connection while each asks for one more wait for
ever, and nothing else does. `OneUserPerMeter` is the unique key: it is proved,
as part of the invariant, and no property of a run.

*Run.* `meter_assignment`: three registrations (two for one email), an admin, a
bulk, two meters, a pool of two, one fault.

### Sessions

*State.* One account: `password`, `emailVerified`, the codes with purpose and
attempts, sessions, access tokens and the blacklist; for each request what it
has read. Which password a session was opened with (`under`), which code was
answered (`spent`) and which requests were overtaken are history.

*Actions.* Codes: `ReadCode`, `CountAttempt`, `MarkVerified`, `RetireCodes`,
`MakeCode`, `Forgot`, `VerifyEmail`. Passwords: `LookForNoPassword`,
`CheckCurrent`, `SetPassword`, `ReplacePassword`, `AfterReplacing`,
`InvalidateAll`. Sessions: `Authenticate`, `ReadAccount`, `OpenSession`,
`ReadSession`, `Refresh`, `Revoke`, `Leave`, `LogoutAll`. `Fails` is every
refusal not modelled further, failure and end, at any statement; it keeps what
was written before.

*Properties.* `LimitsHold`: attempts pass the limit by fewer than the requests
handled at one time, and a session opened with a replaced password is valid only
behind a change that is underway or stopped halfway, or a login that had read
the old one. `NothingStaleCounts`: an answered code, a replaced password, an
ended session, a revoked token has an effect only through a request that had
read it before.

*Run.* `sessions`: two requests at a time, over and over, two codes, passwords and
tokens, one session that can be opened, refreshed and ended, a limit of two
attempts. Each race is between two requests; a third repeats what one of the two
could do. Sessions meet only in being ended together, so that one stands for
each.

### AnomalyDetector

*State.* `readingCounts` and `baselineCache`, the stored averages (`stored`),
the reading being handled; `last` is history: the last judgement of each meter.

*Actions.* `TooFew` and `Compare` handle a reading without a query; `Ask`,
`Answered`, `NotAnswered` (an error, or no row) the one that asks the database;
`PublishAlert`; `Store` is a flush of the aggregator; `DetectorRestart` empties
the maps. The module's names are its own (`DetectorSpec`, `MeterIds`, `Loads`),
so that it can be extended together with `StreamAggregator`: the two run in one
process and share the stored rows, of which the detector reads averages only.

*Property.* `SteadyLoadSteadyVerdict`: a meter whose load stays the same is
judged the same at each reading, although the baseline moves and is read beside
the flushes. The reverse side of it: after a lasting change every reading alerts,
because an anomaly does not move the baseline (`anomalyDetector.ts:79`).

*Run.* `anomaly`: two meters and powers of 1, 4, 7 and 24 units, a tenth of a kW
being 2: below the floor, calm to each other, and a spike. A baseline is rounded
to either side, which stands for its fraction.

## 5. What is proved

TLAPS proves for every value of the constants, under the named assumptions of
each module (finite ranges of the configuration's numbers, tokens and loads of
the right type):

* `StreamProcessor_proofs`: `TypeOK`, `ConsumedIsAccounted`,
  `StoredRowIsComplete`, `PublishedIsStored`, `ImplementsTable`, and that the row
  of an undamaged window is final (`StoredRowIsFinal`). None is
  inductive alone. That no row mixes processes rests on this: every step but a
  delivery only moves contents between memory, snapshots and rows
  (`ContentsMove`), and memory and snapshots hold deliveries to the present
  process (`OneProcessInv`). The invariant adds that memory holds a stored window unchanged
  or not at all (`StoredInv`), that every flush in progress has in its snapshot
  all that its clear would delete (`CoverInv`), that overlapping flushes agree on
  what both hold (`AgreeInv`), and that after the upsert the table has the
  snapshot (`WrittenInv`); the refinement needs besides that windows, snapshots
  and rows hold readings of their own (`BelongInv`). Of the detector, `DetectorTypeOK` and
  `SteadyLoadSteadyVerdict`. `VerdictInv`: the last verdict on a meter still
  holds against the baseline as it has moved since, because a baseline moves
  towards a calm reading and not past it, on either side (`CalmStays`).
* `Tariff_proofs`: `TypeOK`, `PricesShownWereStored`,
  `CacheIsCurrentUnlessDisturbed`. `CalmInv`: while nothing has disturbed the
  cache, one handler at most is in progress, and what it is about to put in the
  cache is a latest row. Of the gateway, `GatewayTypeOK`,
  `AppliedOverrideIsInForce`, `ViewPairsLatestRows`, and
  `GatewayRefinesService`: whatever it asks and gives up, the service runs as
  `TariffService` allows, so the theorems about the service hold behind the
  gateway too. No row is stamped later than now, so a new one is a latest one
  (`PastInv`); a call that is served is the handler the service works on, and as
  long as it is alone what it has in hand is what it will find (`CallInv`); a
  view that nothing disturbs agrees with the table at each of its two reads
  (`BoardInv`).
* `AlertService_proofs`: `TypeOK`, `OverloadIsWarranted`, `AnnouncedAsShown`,
  `ImplementsLog`, and `AlertedOnce` (what the log's `Raise` and `Silence` say,
  as an invariant). Markers are set only after the publication and rows
  stay (`MarkersInv`); a row whose creation was not cut short is old enough, or
  its key is alive, or the consumer is about to set it (`SpacedInv`); each
  window in the list is traced to a counting of its own, an injection into
  `counted` that grows with every message, because a process counts a message
  once and only a crash takes it back (`CountingInv`, `TraceInv`), so that as many
  recent windows are as many countings (`WarrantInv`); what a request is about to announce is true of the
  row already, and rows only advance (`TruthInv`); while nothing fails, a
  resolved or acknowledged row is announced or some request is still about to
  (`AnnouncementInv`, `AcknowledgedInv`). `LogImplemented`: every step is one of
  the log's or changes nothing it shows. Whether a subject is barred
  depends on which of its two markers ends first, so the argument needs
  `PairInv`: of the two the active one is set last and ends last, and a subject in
  creation has neither or is about to be given the second.
* `Ingestion_proofs`: `TypeOK`, `OncePerMarker`, `SuccessIsAccounted`.
  `OnePlace`: publications of a reading and requests that hold it are together no
  more than the lives its marker has had. The requests are counted
  (`HolderComes`, `HolderGoes`), because after an expiry several may hold the
  same reading at once.
* `NotificationService_proofs`: `TypeOK`, `RegistryConsistent`,
  `NothingMissed`, `HeartbeatEndsTheDead`. `Patient` is the argument for the
  bound: the heartbeats a vanished client has outlived and those it may still
  outlive (one for each client before it that is not terminated, and one for the
  ping) are no more than there is room for clients; a heartbeat that passes over
  it either terminates one before it or takes its `isAlive`.
* `Billing_proofs`: `TypeOK`, `BooksSound`, `TwiceOnlyByRace`, and
  `ImplementsLedger`: every step is one of the ledger's or changes nothing it
  sees. `Paying`: a payment's row is locked from its write to its commit;
  `Fresh`: a generation makes one invoice for each account; `Noted`: whoever
  checked before the other's commit is in `raced`; `Steady`: an account billed or
  about to be is still its user's, or he has lost it; `Numbering`: numbers computed
  and not committed are within reach of the count, and those inserted differ.
  `ReportsAgree`: each report is traced to what the committed tables say of one
  invoice (`Standing`). `SomebodyCanWork`: a request that can go no further
  waits for a row, a number or a connection of another, and these waits have no
  cycle, because a dispute takes its row after its connections (`Placed`), unless
  all who hold a connection are disputes that wait for their second
  (`DisputesHoldAll`), for any number of either.
* `MeterAssignment_proofs`: `TypeOK`, `OneUserPerMeter`,
  `ServedUnlessOvertaken`, `SomebodyCanWork`. `Undisturbed`: until a statement overtakes it, an
  assignment still finds what it has read; `WrittenApart`: uncommitted updates
  are about different users and meters.
* `Sessions_proofs`: `TypeOK`, `LimitsHold`, `NothingStaleCounts`. What a request
  has read still holds or the request was overtaken (`AnswersAreCurrent`,
  `KnownIsCurrent`, `RefreshesAreLive`, `ActorsAreAdmitted`); attempts counted
  and those about to be are bounded together (`GuessesAreCounted`).

Only model-checked: what the prover cannot reach, which is liveness
(`ConsumedIsStored`, `CacheSettles`, `ReadingsArrive`, `ShutdownEnds`) and
one half each of `NobodyStuck` and `StuckOnlyByExhaustion`. These say that
somebody can work, in terms of what each request waits for (`CanWork`), which is
proved, and that `CanWork` is exactly ENABLED of the request's action, which
TLC checks.

## 6. Where documents and code disagree

One run expects a violation: `alert_audit_trail`. An acknowledgement and a
resolution that overlap both write back the metadata they have read, and who
resolved the alert, and why, is lost; PROJECT.json quotes the lines.

Seen while reading, without a run:

* *Aggregation.* Offsets are committed by timer while readings are only in
  memory, so a crash loses them (`DATAFLOW.md:549`, `consumer.ts:95`); the clear
  deletes windows the flush did not write (`aggregator.ts:236`); a redelivered
  reading of an open window is counted twice (`DATAFLOW.md:560`,
  `aggregator.ts:112`); a late reading replaces the row of a flushed window by
  one of its own (`DATAFLOW.md:559`, `timescale.ts:88`); after a failed flush the
  regional aggregate adds up several minutes (`aggregator.ts:162-167`); a failed
  publication counts 0 messages and the windows are cleared all the same
  (`producer.ts:94`); a reading of 0 kW is dropped as invalid
  (`consumer.ts:113`); anomalies go to `alerts`, not to `anomalies`
  (`DATAFLOW.md:122`); the outage test comes after a wider one and is never
  reached (`anomalyDetector.ts:99`).
* *Ingestion.* A batch that could not be published is answered with 207, which
  the simulator takes for success (`DATAFLOW.md:55-56`).
* *Tariff.* An override that overlaps an automatic change may leave the older
  price in the cache (`DATAFLOW.md:192`, `overrideHandlerService.ts:77`); an
  override is displaced by the next automatic price (`DATAFLOW.md:177`,
  `aggregateHelper.ts:38`); `lastPrice` moves before the insert, so a failed
  insert is not tried again (`DATAFLOW.md:550`, `tariffCalculatorService.ts:119`),
  and overrides do not move it (`:101`); a region with a consumption of 0 is
  skipped as invalid (`kafkaConsumerService.ts:126`); removing the last row leaves
  its price in the cache (`overrideHandlerService.ts:139`); the price bands
  differ from `DATAFLOW.md:162-165`. The gateway lets overrides up to 100 pass
  and the service takes 0.5 to 20; the gateway's analytics count rows labelled
  `AUTO` as overrides (`operator.controller.ts:103-106`).
* *Alerts.* The overload thresholds differ from `DATAFLOW.md:214-217`; a subject
  that was acknowledged or resolved throws `Duplicate alert suppressed`, which
  skips the outage checks of the aggregate (`alertManagerService.ts:84`); failed
  messages are given up, not retried (`DATAFLOW.md:550`); an alert whose
  publication failed is created again by the next message (`DATAFLOW.md:561`);
  the automatic resolution publishes nothing and clears no marker; a bulk
  resolution does not keep who resolved (`postgresService.ts:264`); overlapping
  requests may publish their updates in another order than they took effect
  (`alertManagerService.ts:297`), and the time in a message is that of
  its publication, so no property orders them; an aggregate that comes again after a crash
  adds its window again, so that fewer aggregates than the threshold may make an
  overload alert (`kafkaConsumerService.ts:149`); a
  region all of whose meters are silent has no aggregate and so no outage; the
  list of overload windows is never pruned (`redisCacheService.ts:189`); the
  alert queries know no severity, hours or `startDate` although their routes take
  them (`postgresService.ts:183-242`, `userController.ts:16-28`); a user's count of
  acknowledged alerts is always 0, because it asks for alerts that are
  acknowledged and still have the status `active`, which `mapRowToAlert` gives
  only to those that are not (`userController.ts:37`).
* *Notification.* Invoices, payments and disputes go to channels that users and
  operators may not have (`notificationHelper.ts:97,122,144`); a user with a
  region and a meter gets an alert twice; the preferences, log and retry queue of
  `DATAFLOW.md:255-294` do not exist; at shutdown the service waits until the
  clients have left and then has none to send its 1001 to.
* *Billing.* "Invoice already exists" is asked for the user and the meter
  (`billing.service.ts:338`): a user whose meter is changed between two runs for a
  month (`user.service.ts:188`) is billed for it twice. Disputes that have
  begun on every connection of the pool each wait for another one, without a time
  limit (`billing.service.ts:188`, `db.ts:7`). A dispute that fails after that
  update is rolled back and answered with an error, and the update stays, because
  it was made on the other connection. Nothing makes an invoice `overdue` or `cancelled`, so the overdue
  list is always empty; nothing writes `pdf_url` or line items, so a PDF is never
  found; the JSON export asks for the invoices of the user `''` and is always
  empty (`operator.controller.ts:95`); a message to billing topics is published
  once or, if that fails, never.
* *Users and sessions.* Meters are said to be assigned "based on their region"
  (`assign-meters-to-users.ts:8`) and the preferred region is ignored;
  `activateUser` numbers its one parameter `$2` and always fails
  (`user.service.ts:160`); `access_token_jti` is never stored
  (`init-db.sql:119`), so a logout from all devices leaves their access tokens
  usable until they expire; a logout answers with success when the session could
  not be ended (`token.controller.ts:61`); a forgotten password makes a code
  without retiring the older ones.

## 7. What is not modelled

* Alert and history clients, profiles and preferences of the gateway: one call or
  one statement for each request, without a state of their own.
* Routes, validation, authorization, schemas, shared packages, metrics, health
  and configuration: no shared state changes.
* Statistics of a window, display data (`region:load`), queries and statistics
  endpoints: read only, or functions of what is modelled. Exceptions are
  `BillingReports`, because two tables are told to two audiences, and the queries of
  the alert service, because the same alerts are announced on a topic.
* Retries inside kafkajs's producer, which may duplicate a message whose
  acknowledgement was lost; the hour after which a last-seen key ends; a batch
  with the same reading twice (the simulator makes none); the simulator's
  generation of readings.
* A crash of the notification service: it keeps nothing, and a redelivered
  message is broadcast as another one.
* Functions that nothing calls (cleanups, suspensions, deletions of codes and of
  sessions).
