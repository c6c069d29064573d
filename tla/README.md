# Sapar: a TLA+ verification project

Sapar is a ride-sharing backend: seven NestJS services, each with a PostgreSQL
database of its own, that talk by HTTP and by events (`src/README.md`,
`src/docs/PROJECT_OVERVIEW.md`). This directory holds TLA+ models of the parts
whose correctness depends on the order things happen in, the instances TLC
checks, and theorems checked by TLAPS.

Every definition is translated from the TypeScript, SQL, Lua and Prisma sources;
`PROJECT.json` maps each to its lines. Documents and tests are quoted only where
the code does something else than they say.

## 1. Inventory

| Component | State | Operations | Talks to |
|---|---|---|---|
| trips-service | `trips`, `bookings`, `idempotency_records`, `consumed_events`, `outbox_events`; search answers in Redis | create, book, cancel booking, cancel trip (driver, admin), complete, hold placed, intent failed, expire; search | payments (events both ways), profiles, notifications, admin (polls commands and configuration) |
| payments-service | `payment_intents`, `payment_events`, `receipts`, `consumed_events`, `outbox_events`; money at the PSP | create, capture, cancel, refund; events booking.created/confirmed/cancelled/expired, dispute.resolved; hold placement, reconciliation, receipt workers; webhooks | PSP, trips, notifications |
| outbox delivery (a copy in trips, payments, notifications, admin) | `outbox_events`, a circuit breaker per target | tick: lock, deliver, mark SENT / FAILED_RETRY / FAILED_FINAL | the consumers' `POST /internal/events` |
| notifications-service | `notifications`, `notification_events`, `consumed_events` | enqueue (event or request), cancel, claim, send, mark | providers, outbox |
| identity-service | `users`, `refresh_tokens` | register, login, refresh, logout; BAN / UNBAN commands | admin (polls) |
| admin-service | `admin_commands`, `disputes`, `configs`, `audit_logs`, `outbox_events` | ban, unban, cancel trip (as commands), acknowledge; disputes; configuration | polled by identity and trips; events to payments |
| profiles-service | `ratings`, `rating_aggregates`, `rating_eligibilities`, `profiles` | trip.completed, rate, delete rating | trips (events) |
| api-gateway | rate-limit counters in Redis, circuit breakers | limit, proxy, put screens together (BFF) | all |

Hard behaviours:

* *Two services, no common transaction.* A booking and its payment are kept in
  step by events, delivered at least once and in any order, with compensations.
* *Transactions in READ COMMITTED.* Two statements of one transaction may see
  two different databases; only row locks help, and not every writer takes the
  same ones (`on-payment-hold-placed.handler.ts` locks no trip).
* *Calls outside of transactions* (PSP, providers, issuers, commands). Look, call,
  lock and look again, or mark by id; a call that timed out may have taken effect.
* *Workers in several instances*, which crash and start again between two steps,
  and whose claims run out while they are still at work.
* *Events recorded before they are handled* (payments' side-effect handlers).
* *Copies that nobody invalidates*: search answers, configurations, a ban that was
  looked up before it was made.

What makes each component correct, and at which line it could go wrong, is the
list `hazards` of `PROJECT.json`; the properties below are aimed at it.

## 2. Modules

| Module | Models | Checked by |
|---|---|---|
| `TripBooking` | trips-service: trips, seats, bookings, idempotency keys, consumed and published events | `MCTripBooking`, two cfgs; `TripBookingProofs` |
| `BookingLifecycle` | the promise trips-service makes of a trip and its bookings: what may happen to them, each operation done whole | refined by `TripBooking` (`TripBooking.cfg`, `TripBookingProofs`) |
| `PaymentIntent` | payments-service: intents, receipts, events, webhooks, reconciliation, and the PSP | `MCPaymentIntent`, two cfgs; `PaymentIntentProofs` |
| `IntentLifecycle` | the promise payments-service makes of one intent: its status, its money, what was announced | refined by `PaymentIntent` (`PaymentIntent.cfg`, `PaymentIntentProofs`) |
| `BookingSaga` | trips and payments together, and the events between them | `MCPaymentIntent` (part "together"), `MCBookingSaga`; `BookingSagaProofs` |
| `Outbox` | the outbox worker and its table, with several instances of a service | `MCAround`, `MCCalls`; `EventsProofs` |
| `CircuitBreaker` | the circuit breaker of outgoing calls, with overlapping calls | `MCCircuitBreaker`; `CircuitBreakerProofs` |
| `Receipts` | the receipt worker of payments-service | `MCAround`; `EventsProofs` |
| `Notifications` | notifications-service: who enqueues, who cancels, the worker | `MCAround`; `EventsProofs` |
| `Ratings` | profiles-service: eligibility, ratings, deletions, aggregates | `MCAround`; `EventsProofs` |
| `Sessions` | identity-service: accounts, bans, refresh tokens | `MCAdmin`; `AdminProofs` |
| `AdminCommands` | admin's commands and the workers of identity and trips that carry them out (extends `Sessions`) | `MCAdmin`; `AdminProofs` |
| `Disputes` | admin's disputes | `MCAdmin`; `AdminProofs` |
| `ConfigCopies` | admin's configuration and the copy every service has of it | `MCAdmin`; `AdminProofs` |
| `Gateway` | api-gateway: limiter's verdict, proxy, screens, retries, breakers | `MCCalls`; `EdgeProofs` |
| `RateLimit` | the gateway's limiter in Redis | `MCAround`; `EdgeProofs` |
| `SearchCache` | trip search and its cache in Redis | `MCAround`; `EdgeProofs` |
| `Sums` | no part of the system: lemmas about sums over finite sets, and about the greatest of some numbers | TLAPS; used by `CircuitBreakerProofs`, `EventsProofs`, `AdminProofs`, `EdgeProofs` |

`MCPaymentIntent`, `MCAround`, `MCCalls` and `MCAdmin` hold several components.
Where these share no state, the interleavings of one with another show nothing new
and would multiply the states; a variable (`part`, or `scene`), chosen in `Init`, says
which of them a behaviour is about. Where they do share state they are composed: trips and
payments in `BookingSaga`, commands and sessions in `AdminCommands`.

### TripBooking

A variable is a column or a table (`seatsAvailable` is `trips.seats_available`,
`emitted[b][e]` counts the rows of `outbox_events` of type `e` about booking
`b`). A booking is identified with the request that made it, so that the
arguments of a request need not be copied into the row; they are chosen once, in
`Init`, and any assignment of passengers, trips, seats and keys is possible.

An action is a transaction. Where a transaction reads under the trip's lock and
writes later, and a writer without that lock may commit in between, it is two
actions, `...Read` and `...Commit`, with what was read in `txn[t]`; `Abort` is
Prisma's timeout, a lost connection or a crash. `CancelTrip...` stands for the
driver's use case and for the admin worker's, which differ only in who may call
them and in the payload. `BookSeat` is one action: what it reads of bookings,
`HoldPlaced` cannot change in a way it would see (PENDING to CONFIRMED is active
to active).

Time is abstract: any pending booking may be older than its TTL.

`BookingLifecycle` says what all of this is for. It has the columns others see
(`trips.status`, `seats_total`, `bookings.status`, the events) and none of the
service's own means: no lock, no open transaction, no `seats_available`, no
idempotency records, no consumed events. A booking is made when the seats of the
active bookings leave room for it and nothing of the same passenger is in its way (an
active booking on that trip, or any booking made with the same key); a trip is cancelled
with all its bookings at once; a completed trip lists confirmed bookings, though not
always all. The variables it shares with `TripBooking` are mapped to themselves.

### PaymentIntent

Every operation looks at the intent, calls the PSP outside a transaction, then
settles under the row lock after a second look. `slot[s]` is one operation under
way: `op`, the intent, what it has read (`saw`, `hold`) and what it will write
(`to`). The first action of an operation is named after its use case, handler or
worker; `PspAnswers`, `PspFails`, `PspReports` are the call; `Commit...` is the
settling transaction; `Crash` drops a slot. Slots are shared by requests, event
handlers, workers and instances of the service, so that anything may interleave.

The PSP is external. It is modelled from how the code uses it: a ledger of holds,
each held, captured, released, refunded or dropped by the PSP itself. A call asks
for a change the ledger allows; it may be refused, be answered, or take effect and
still look failed to the caller (`withTimeout`). Webhooks report only what has
happened, in any order, late or never; a repeated one is found by its id. A capture
that was refused (`refused`) may be reported after it was tried again and carried
out, so that FAILED says nothing of the money of a hold the PSP once refused to capture.

Amounts are left out: a partial refund is a refund, as it is for the status.

### Outbox

Between what a service published (`emitted` in the modules above) and what another
consumes is the outbox worker, of which four services have a copy. A row is its
`status`, `try_count` (`tries`) and whether `next_retry_at` has come (`due`). A
worker lists due ids (`Tick`), and for each id reads the row in one transaction
(`Process`), posts the event to each target, and writes the outcome in a second
transaction (`Settle`). No lock is held from the list to the row or during the
posts, so instances deliver one event side by side. Both transactions lock with
SKIP LOCKED: a row in another's transaction looks absent, which `ProcessNothing`
and `SettleNothing` allow at any time; the outcome is then lost. A target accepts,
refuses (4xx), or fails; a failure that is a late answer may have been handled.
Targets are posted to one after the other in a fixed order, here in any order.
`received` is what the consumers have; `refused` and `failures` are history.

`TripBooking` and `PaymentIntent` take from this that a published event reaches a
consumer any number of times, late and in any order.

### CircuitBreaker

`shared/resilience/circuit-breaker.ts` is one object shared by all calls of a
process. `execute` runs up to its await, other calls run, and the result is
recorded in the state the breaker is in by then: letting in (`Begin...`) and
recording (`ProbeSucceeds`, `CallSucceeds`, `ProbeFails`, `CallFails`) are
separate actions. The state a result meets selects the action, as in the code,
not the state its call was let in.

Instead of a clock the module keeps ages: `bucket[j].age` for `epochSec`,
`openFor` for `openedAt`, `call[c].age` for how long a call has run, each up to
the value beyond which nothing tells it apart. So the states are finitely many
although time never ends. `recent` and `probesOk` are history: the results of each
of the last seconds, and the probes of this HALF_OPEN period that succeeded.

`CallSec` is the timeout inside of the call (`AbortSignal`, `timeoutMs`).
`hanging`, chosen in `Init` and never changed, is TRUE of a breaker whose calls have
none: payments puts its timeout around the breaker
(`withTimeout(this.psp.capture(...))`), so that the caller goes on and the breaker
never learns of the call (`Hangs`). The properties about probes and about closing
again are about the other breakers; `WindowIsExact` is about both.

### BookingSaga

`PaymentIntent` as it is, `TripBooking` by INSTANCE, with an intent named as its
booking. What one has published the other hears at any time after (`Published`),
late and in any order; a repeated event is found in `consumed_events`, on both
sides. `Answers` is what `OUTBOX_TARGETS` sends to trips: hold_placed and
payment.intent.failed, but not payment.failed. Requests of payers and disputes
are left to `PaymentIntent` alone: with them "captured only if confirmed" would say
nothing.

### Receipts, Notifications

Two workers of one make. An instance lists the due ids; takes them one after the
other; claims a row in a transaction with SKIP LOCKED (a notification's claim counts
a try, a receipt's only moves `next_retry_at` on); calls the provider outside any
transaction; marks the row by its id, whatever its status is by then. A claim may
run out (`...FallsDue`) at any time while an instance is at work, a call may take
effect and look failed, an instance may crash anywhere. `accepted`, `issued`,
`claims` and `rejections` are history.

A notification has a cause, an event or an Idempotency-Key; the look for it and the
insert are two steps with others between them, and the unique index is the guard of
the second. An event's notification and its row of `consumed_events` are written in
one transaction.

### Ratings

A rating is two or three steps of one transaction: look for the rating, insert it,
lock the aggregate or find that there is none, write it. Rows inserted or locked by
one transaction make another wait (`AggregateFree`), and the unique index aborts it
when the first commits. A deletion locks the rating, then the aggregate.

### Sessions, AdminCommands

`Sessions` has a request (login, refresh, logout) in as many steps as it has
statements that others may come between. `chain` names the first token of a chain
of exchanges. Time is abstract: a token may expire at any time. Detected reuse of a
token changes nothing, since the revocation is rolled back with the exception that
follows it (section 3). The length of a ban is left out: it may end at any time.

`AdminCommands` adds the commands: made by a moderator, fetched by any number of
instances (the locks of the query end with it), carried out one after the other,
acknowledged. A fetch that is not answered is no step, an acknowledgement may be lost,
an instance may crash. `ack` computes `NextTry` from the row as the raw query returns it,
`try_count` and not `tryCount`: it is NaN whatever is acknowledged, the column takes no
NaN, and nothing is recorded. So every poll hands out the oldest commands again, and they
are carried out again; `done` is history, the commands whose effect stands until somebody
works on their target again. Numbers of commands are their order of creation, in which
they are fetched, since only a recorded acknowledgement would put one off. In the
behaviours of the sessions bans come and go at any time; in those of the commands no
request is under way, since commands never look at tokens.

### Disputes, ConfigCopies

A dispute is locked by the transaction that settles it (`Unlocked`); what it
publishes is written with it. `overdue` is the deadline, which passes at any time.

A configuration row has a version of its own, read and written back by an upsert in
two statements. A fetch reads all rows at once, makes the greatest version its ETag and
compares that with the one it is sent; its answer is on its way while rows change.
`told` is what the rows were when a service was last answered, `flat` whether an edit
has left the greatest version as it was (section 3).

### Gateway, RateLimit, SearchCache

`Gateway` follows a request from the limiter to its answer. The limiter's verdict
and the outcome of a call are free choices; a breaker is what the rest of
`CircuitBreaker` comes to: it may open once it has counted a failure, refuse, let a
probe through, close on a success. A kind of request stands for all that go the
same way: closed or open policy, read or write, and the four screens. A response whose
head is there may still have a body that is too large, breaks off or does not end
(`Bodies`): the proxy meets it when retries and breaker are done, the BFF inside of them.

`RateLimit` is the Lua script, one hash, with the clock of the gateway that called
it: scripts run late and out of order by `Skew`, Redis expires the hash by its own
clock and may lose it when it restarts. `Skew` is an assumption: a gateway stops waiting
for a script after its timeout, but does not call it back. `admitted` and `weighed` are
history, of what the script decided; requests that pass by `failStrategy` because Redis
does not answer are counted nowhere.

`SearchCache` has one trip that comes, changes and goes, and searches that ask the
cache, then the database, answer, and store what they answered later. `Ttl` and
`Lag` are in ticks; nothing tells the cache of a change. `settled` is history.

## 3. What the runs check

`SYMMETRY` is used for safety only (the elements permuted are told apart by
nothing; in `around` the requests, instances and rows of the components have names in
common, which are permuted together). Deadlock is checked where the system never rests,
in a breaker; that a gateway does not get stuck is `RequestsAreAnswered`. Elsewhere
requests, event ids and holds are finite, so that the modelled system may come to rest,
as the real one does when nobody calls it.

| Run | Shows |
|---|---|
| `trip_booking` | seats are conserved and never negative; active bookings are unique per passenger and trip, none on a cancelled trip; each event is published once and matches the status; statuses go declared ways only; `TripBooking` implements `BookingLifecycle`, so that every step is one whole operation on a trip and its bookings, or nothing others see, and trip.completed lists confirmed bookings only |
| `trip_live` | no booking stays PENDING_PAYMENT; one Idempotency-Key makes one booking, also over two trips with two locks |
| `payment_intent` | alone: CAPTURED and REFUNDED are true of the money, and FAILED is said of a hold that was dropped or once refused to a capture; nobody is charged by two holds of one intent; each event, end and receipt at most once; `PaymentIntent` implements `IntentLifecycle`, so that every step is one legal change of an intent's row or of its money, or none. Together with trips: a confirmed booking has a hold of its own; without a payer's request only a confirmed booking is charged; a booking ended by a failed payment was never confirmed, and its intent holds nothing |
| `payment_live` | a requested hold is placed or given up |
| `breaker` | the ring buffer counts exactly the results of the window, over several turns and with calls that outlast every state; where calls have a timeout, one probe at a time goes alone, the breaker opens and closes for the cause it should only, and closes for good once its target answers |
| `around` | the outbox: SENT was handled by every target, FAILED_FINAL has a cause, a refusal or `OUTBOX_RETRY_N` failed rounds, and a slower instance never undoes what is settled. Its consumers: an event delivered twice at once, or a key used twice, makes one notification; SENT and ISSUED are true and giving up has its cause, whoever marked the row last; aggregates count and sum the ratings there are. What Redis keeps: a search answer is a TTL and a search's time old at most; no window lets more than the limit through, and a boundary counts what the window before let through |
| `calls` | a write is sent once; when the limiter or a breaker answers it, it was not sent; every request is answered; every published event is delivered or given up, although instances overwrite each other's `try_count` |
| `admin` | once the last command on a user or trip was carried out and nobody is at work with an older batch, the target is as it ordered, however often all of them are carried out again; one refresh token is usable of a chain of exchanges; who was banned when the request came gets no token; payments are told what a dispute says; a 304 never hides an edit that raised the greatest version |

Four runs end in a violation, quoted in `findings`.

`saga_refund`: every event is delivered,
nothing crashes, the PSP answers; still a booking that expires, or is cancelled,
while its hold is being placed leaves the money held. The handler finds
HOLD_REQUESTED and cancels the intent without the PSP; the worker, back from the
PSP, finds the status changed and forgets the hold.

`commands_starve`: instances go on, acknowledgements arrive, and still a command waits
for ever. None is recorded (NaN, above), so the oldest commands stay first on the list and
a poll never gets beyond the first `FetchLimit` of them (ten in the code). With the column
named as the row has it TLC finds `CommandsAreDelivered` true on the same instance.
Nothing becomes APPLIED or FAILED_FINAL either, nor is a command that failed put off,
where `INTERNAL_EVENTS.md:437` has an exponential backoff, and where admin's e2e tests,
which need a database, expect APPLIED, a `tryCount` of one and FAILED_FINAL
(`internal-commands.e2e-spec.ts:85`, `:108`, `:130`).

`config_stale`: a row is added while another has a greater version, or the row edited or
deleted is not the only one of the greatest version. The ETag stays as it was, the service
is answered 304 and keeps what it has, a flag that was switched off among it, which
`feature-flags.md:75` has as the way to roll back at once.

`gateway_payload`: a write is carried out, its response is larger than
`MAX_DOWNSTREAM_RESPONSE_BYTES`, and the client is told PAYLOAD_TOO_LARGE, "Request body
exceeds maximum allowed size", with status 502 (`proxy.handler.ts:145-154`).
`API_REFERENCE.md:1379` has the code for a request that was refused, with status 413; a
client that goes by the code takes the write for undone.

Disagreements met while modelling that have no run of their own. In trips and
payments:

* A cancellation that saw HOLD_REQUESTED may settle after the hold was placed and
  captured: only HOLD_PLACED is refused (`on-booking-cancelled.handler.ts:107`), and
  CANCELLED is written over CAPTURED, where `payment-intent.entity.ts:28` allows
  REFUNDED only. `create-intent.usecase.ts:119` writes FAILED over CANCELLED, which
  is terminal in `PROJECT_OVERVIEW.md:214`. The two are the exceptions that
  `IntentLifecycle` (`Cancel`, `FailLate`) and the theorem
  `TransitionsAreDeclared` name.
* Two instances of the hold worker read the same HOLD_REQUESTED row without a lock
  and place two holds for one booking (`hold-placement.worker.ts:74`), where
  `src/README.md:188` has FOR UPDATE SKIP LOCKED for all workers.
* A failed capture is not tried again: the event is recorded as consumed before its
  handler runs (payments' `internal-events.controller.ts:71`), so that a redelivery
  is a duplicate; `on-booking-confirmed.handler.ts:88` has "will retry via event
  re-delivery".
* PSP calls have their timeout outside of the breaker (`psp-with-breaker.ts:51`): a
  probe that hangs leaves `halfOpenInFlight` set and the breaker refuses every call
  until a restart, where `runbooks/psp-failures.md:45` has it HALF_OPEN after 30 s.
* A capture learnt from a webhook creates no receipt and publishes nothing
  (`handle-webhook.usecase.ts:129`). A capture.failed makes the intent FAILED, which is
  terminal, while the money is still held, or was taken by a capture tried again.
* A retry with the same key that overtakes the first answer finds no record, waits
  for the trip's lock and is refused with BOOKING_EXISTS, since the check for an
  active booking comes before the insert that would reveal the key
  (`book-seat.usecase.ts:59-66`; `trips.e2e-spec.ts:341` expects the booking).
* A booking pending when the driver completes the trip may be confirmed
  afterwards; its passenger pays and is in no trip.completed
  (`complete-trip.usecase.ts:63`, `API_REFERENCE.md:507`).
* A 4xx of one target makes an event FAILED_FINAL for all of them
  (`outbox.worker.ts:214`), where `INTERNAL_EVENTS.md:61` has all tries used up. A
  try refused by the open breaker counts like any other.
* An instance slow to deliver writes the `try_count` it read before the others'
  tries, so that the count may go back (`outbox.worker.ts:212`).

In the other services:

* `LastWordHolds` is said only of moments at which no instance has an older batch: every
  poll carries the oldest commands out again, so that a user is banned and unbanned in
  turn as long as the workers run.
* The revocation of all tokens on reuse of one is rolled back by the exception
  thrown after it (`refresh-session.usecase.ts:53-63`), where
  `API_REFERENCE.md:206` and a test have them revoked. Two logins at once leave two
  usable tokens of one user, where identity's README has one; a logout that meets a
  refresh leaves the token's heir.
* Two instances may issue one receipt when a claim runs out; it is marked once more.
* The BFF's breakers count 4xx and responses that are too large as failures
  (`bff-http.client.ts:128`); an open one is answered 502, where
  `API_REFERENCE.md:1377` has 503; a timeout is answered 504 only after three tries.
* Names of towns in no table share one key of the search cache with their padded
  forms, which the database tells apart.

### Bounds

`trip_booking`: one trip, because operations on different trips share nothing but
idempotency keys (checked with two trips in `trip_live`) and event ids; three
requests of two passengers for two seats, enough for the last seat to be fought
over, freed and taken again; two event ids, enough for a hold placed and a failure
on the same booking and for two bookings. `payment_intent`: one intent, since no
operation touches two; two holds, for a hold placed twice; three slots, so that a
third operation settles between the look and the settling of two others; together
with trips two of them at a time (`SagaBusy`), since trips' own steps interleave
with both; a webhook comes only when it changes the status (`Telling`), since one that
changes nothing leaves a row that only keeps the same one from being processed again.
`trip_live`, `payment_live` and `saga_refund` are smaller, since they cannot use
symmetry. `breaker`: three calls, for a straggler, a probe and a caller that waits; a
window of three seconds, so that the ring has a slot that is neither the current nor the
next one; `Busy`, the results of one second while CLOSED, at two, which with
`MinimumRequests` of two has both sides of both thresholds; `CallSec` one second against
an OPEN period of two.

`around`: two instances, callers and ids everywhere, enough for one to settle while the
other posts, and for a claim to run out under one while the other takes the row; two
tries (one that is the last and one that is not); an event with two targets and one
with none; two causes of notifications at a time; one trip with a driver and two
passengers, whose two ratings are of one aggregate; two searches of one trip with three
queries that share two keys, a `Ttl` of two ticks; three checks at a time against a limit
of three per window of three seconds, over three windows (`MaxNow`). `calls`: one event
with two targets and two instances; two requests, of which one writes or is a screen,
over one breaker, as in `gateway_payload`.

`admin`: one account and two requests with four tokens, so that a token is exchanged
twice while another request looks at it; two commands, three workers of two services;
two disputes of one booking, two judges; two configurations up to version two, which is
enough for an edit that does not raise the maximum. `config_stale` has those two
configurations, one operator and one service; `commands_starve` polls of one, so that
the second command of a service already waits.

### Fairness

`TripBooking`: a transaction ends (database timeouts); the expiration worker ticks
for ever and its transaction waits in the queue of a lock that is held for a bounded
time. It is strong, since the lock comes and goes. `PaymentIntent`: `scheduleTick`
runs in a `finally`, so workers tick for ever; a PSP call ends by `PSP_TIMEOUT_MS`;
a service that restarts does not crash at the same step every time. `payment_live` has
no more than that, alone and together with trips. Only `CalmSpec`, of `saga_refund`, also
assumes that every event is delivered and that neither the PSP nor a process fails: the
more it assumes, the more the violation says. `commands_starve` is like it
(`CommandsHeardSpec`): the interval timer polls for ever and admin-service answers some
poll; an attempt may fail and an instance crash any number of times, but not at each try
of the same step (strong fairness of each step, for each command); and acknowledgements
arrive, if they are sent again and again (`AcksFairness`). `Outbox`: the interval timer
ticks for ever, the backoff ends, a post ends by `OUTBOX_DELIVERY_TIMEOUT_MS`; a crash or
a skipped lock may come any number of times, but not at the same step of every try
(strong fairness of `Process`, of the n-th last post of a round, and of `Settle`).
`CircuitBreaker`: time passes, callers keep coming (workers poll, users retry), and
a call ends or, where it may, hangs; nothing is assumed of the target but what
`Recovers` says, that it is well from some time on. `Gateway`: what the gateway does
with a request by itself goes on (weak fairness of `Serves`); calls end by their
timeouts, the limiter's by its own. `calls` assumes both of the outbox and of the gateway;
in the scenes of one there is nothing for the other to do.

## 4. What is proved

Every safety property that a passing run checks is a theorem, for every value of the
constants. The proofs of a component extend its module; those of the components that
are checked together are in one module, a part for each.

`TripBookingProofs` proves, for any trips, passengers, requests, keys, event ids
and seat numbers (assuming only that `NoKey` is no key, `NoBooking` no request,
requests are finite in number and `MaxSeats` is positive): `TypeOK`,
`SeatConservation`, `ActiveBookingsAreLegitimate`, `EventsMatchStatus`,
`OneBookingPerKey`, `LegalTransitions`, `ListedAreConfirmed`, and that `TripBooking`
implements `BookingLifecycle` (`BookingPromiseIsKept`).

The argument. None of them is inductive alone. A commit writes what a read
decided earlier, so the proof needs that reads are stable (`ReadsStillHold`):
while a trip is locked, its bookings can only go from PENDING to CONFIRMED, which
keeps active bookings active and confirmed ones confirmed. `RowsAgree` ties the
tables to each other (a booking exists just when its request was answered with
it, its key is recorded, its trip exists). `Inv` is the conjunction. Steps are
first classified by what they do to bookings (`StepKinds`: one is booked, some end
with their seats returned, some are confirmed, none changes), and each
conjunct is shown to be preserved by each kind rather than by each action. Seats
are counted as a set of pairs (booking, n-th seat), so that conservation follows
from cardinalities of disjoint unions.

The refinement uses all of `Inv`, kind of step by kind of step. That the seats are
there is read off a counter in the code and counted in `BookingLifecycle`:
`SeatConservation` makes them the same. That no booking was made with the key is a row
that is not there: `RowsAgree` says that it would be. That the bookings a cancelled trip
tells are the bookings it cancels, and that those a completed trip lists are confirmed,
is `ReadsStillHold`. The ends of a booking and its confirmation need no more than their guards.

`PaymentIntentProofs` proves, for any intents, holds, slots and events (assuming
only that `NoHold` is no hold and `NoIntent` no intent): `TypeOK`,
`HoldsAreOwned`, `MoneyMatchesStatus`, `AnnouncedOnce`, `AnnouncedTruly`,
`ChargedOnce` (`NobodyIsChargedTwice`), `TransitionsAreKnown`, and that
`PaymentIntent` implements `IntentLifecycle` (`PromiseIsKept`).

The argument. `Inv` is the conjunction of the types and of five named parts:
`RowsAreSound` (a row's status is true of the hold it names), `SlotsAreSound` (an
operation's answer is true of the money whatever happened since it was given:
the PSP's states only move forward), `OutboxesAreSound`, `SlotsAreApart` (a hold
being placed is known to one slot only) and `HoldsAreSound` (a hold no row names
was never captured). A step is classified twice: by `StepMoves`, as a change of
one hold, of one row, or of neither, and by `SlotStep`, as a change of one slot.
Each part is preserved by each class, so that the actions are opened once and not
once per part. The refinement follows from the same classification.

*Outbox* (`EventsProofs`), for any events, consumers, targets, instances and
`OUTBOX_RETRY_N` of at least one: `TypeOK`, `SentWasDelivered`, `GivenUpForCause`
and `FinalIsFinal`. `DeliveryInv` adds to the first three `TriesLeft` (an undelivered
event's `try_count` is below the limit) and `DeliveriesAreSound`: if no post of a
delivery under way failed, all its targets but those left have the event; if one
refused, that is recorded; and the `try_count` it read was made of real failures.
The last is why a stale count does no harm beyond going back: it can be too low,
never too high.

`CircuitBreakerProofs` proves, for any calls and any thresholds: `TypeOK` always,
and `ProbesAlone` and `OpensAndClosesForCause` under `ShortCalls`, that is, a call
ends before an OPEN period does (the HTTP timeout of 3 s against an
`openDurationMs` of 10 s). The two speak of breakers whose calls do not hang
(`~hanging`); of the others they are false, since a straggler of the CLOSED time ends
as if it were a probe. `Inv` is `TypeInv`, `StragglersEnd` (what is under way while
OPEN is at least as old as the OPEN state, so it ends before the first probe
starts), `ProbesAlone` and `ProbesCount`.

`WindowIsExact` (`WindowsAreExact`) is proved for any window, thresholds and calls,
hanging or not. `RingIsSound` gives every second of the window the slot its bucket is
in: a bucket whose age is less than the window has that age and what was counted then,
and of a bucket that is older nothing is of this window. When a second passes, the
slots stay and stand for one second more (`HandMoves`). What is left is that two sums
are the same, one over slots and one over seconds.

`Sums` has what that needs, and `AggregateIsExact` too: that the recursive function by
which the community modules define a sum has a value for every finite set
(`SumsExist`), and one only (`SumsAreUnique`); that elements may be taken off in any
order (`SumWithout`), places renamed (`SumElsewhere`) and zeros left out
(`SumOfTheOthers`). The library's induction rules are stated with a predicate as
parameter, which the provers cannot instantiate; each of these is proved instead by
looking at a smallest set for which it would be false (`SmallestSubset`, from the
well-foundedness of the strict subsets of a finite set).

`BookingSagaProofs` proves, for any bookings finite in number, holds, operations and
any positive `MaxSeats`, that the two services keep together what they promise
alone, and more: `ConfirmedWasHeld`, `CapturedWasConfirmed` and `FailureIsMutual`,
none of which either service could promise by itself; and that the saga implements
both `IntentLifecycle` (`PromiseIsKeptTogether`) and `BookingLifecycle`
(`BookingPromiseIsKeptTogether`).

The argument. Every step of the saga is a step of trips-service or leaves its tables
alone, and likewise for payments-service (`TripsStep`, `PaymentsStep`); so both
invariants, proved in `TripBookingProofs` and `PaymentIntentProofs`, hold in the
composition as they are. What is new is what a side may conclude from an event: the
inductive part is `Known`. An event heard was said (`HeardWasSaid`), a confirmed
booking had heard of its hold, a failed one of its failure (`ConfirmedWasHeard`,
`FailureWasHeard`); what was said stays true (`PlacedOrBroken`: an intent says that a
hold was placed, or that it failed, never both), a payment comes after its booking
(`BookedBeforePaid`), and money is taken, or asked for, only for a booking that
trips-service said is confirmed (`TakenForSeats`).
Events only accumulate, so lost, late, repeated and reordered ones need no case of
their own.

*Receipts* (`EventsProofs`), for any receipts, instances and `RECEIPT_RETRY_N`:
`ReceiptsAreTrue`, and that what is issued or given up is never taken up again
(`ReceiptsEnd`). The strengthening, `IssuersAreSound`, says that what an instance is
about to write is so, although it claimed its row before others wrote theirs: the
try it counts was made, the receipt it marks issued was issued.

*Notifications* (`EventsProofs`), for any notices, events, keys, callers, instances and
tries: `OneNoticePerCause` and `MarksAreTrue`. `CausesAreRecorded` ties a notice to its
cause: a notice of an event is there only if the event is recorded as consumed, since
both are written in one transaction, so that the unique index finds what the first look
missed. `SendersAreSound` is for the worker what `IssuersAreSound` is for
receipts.

*Ratings* (`EventsProofs`), for any users, trips, scores, requests and moderators, not
even finite in number: `AggregateIsExact`. A request that inserts has its key to itself
(`RatersAreSound`); one that has locked an aggregate has its count and sum, and alone
(`LocksAreTrue`); a deletion has a rating that is active, alone (`DeletionsAreSound`);
and every aggregate is exact, of finitely many ratings. A write then adds one score to
a sum, a deletion takes one off. The bounds of `RatingsTypeOK` on counts and sums are
not part of it; `RatingsTyped` has numbers without bounds.

*Sessions* (`AdminProofs`), for any accounts, tokens and requests: `OneTokenPerChain` and
`BannedGetNothing`. The invariant is about tokens that are not revoked rather than
about those that are active, since an expired one may still be in the hands of a
refresh; a refresh has its token to itself and nobody revokes it meanwhile
(`RequestsAreSound`); and a request that has looked at the ban and gone on was not
banned when it came (`BansAreSound`).

*Disputes* (`AdminProofs`), for any disputes, bookings and moderators:
`EventsTellResolutions`, and that nothing touches a closed dispute (`ClosedIsFinal`).
`LocksAreSound` is what makes it so: a row is held by one transaction, and still is
as that transaction saw it.

*Commands* (`AdminProofs`), for any commands, accounts, trips and instances, and polls of
any length: `LastWordHolds`. That nothing is recorded is part of the model, not an
assumption (`NothingIsRecorded`): commands stay PENDING (`RowsAreSound`) and those among
the oldest stay among them, since new ones come after (`HandedOutAgain`). So whatever an
instance holds is among the oldest of its service, and is taken up in order
(`BatchesAreSound`), and so is what was carried out (`DoneAreHandedOut`). From this: whoever
has an earlier command on a user ahead of it, and could undo the last one, has the last one
to do after it (`LastComesAfter`), for a batch that began earlier than the last command was
made keeps that command out of `done`, and a batch fetched later has it. A cancelled trip is
the one effect that is never taken back (`TripsStayCancelled`).

*Configurations* (`AdminProofs`), for any keys, values, services and edits:
`CopiesAreTold`. `EtagsTell` is what makes a 304 true: while every edit raised the
greatest version, an ETag a service has, or is on its way to it, is older than that
version, or stands for the rows as they are.

*Gateway* (`EdgeProofs`), for any requests, kinds, services and attempts: `WritesGoOnce`.
Where the call of a write has come to tells whether it was sent (`SentAsSeen`): not before
it is through the breaker, once after that, never if the breaker was open.

*Trip search* (`EdgeProofs`), for any trips, queries, towns, searches, `Ttl` and `Lag`:
`AnswersAreRecent`. A key tells the queries about a listed town apart
(`KeysAreSound`), so that an entry can be given the age of its rows whoever stored it
(`EntriesAreRecent`), and a search under way the time since it read them
(`SearchIsRecent`).

*Rate limits* (`EdgeProofs`), for any limit, window, number of checks and time:
`NoWindowOverflows`, with clocks and scripts up to a window late (`Skew` at most
`WindowSec`). `CountsInTime` says that the count of a window is that of what was let
through until the last script stamped in it has run, for the hash outlives its windows
(`ClocksAgree`). `BoundariesCount` is about the count of the window before, which has to
last a window longer, and the hash outlives two windows by a second only: it is proved
under `SmallSkew`, that a script is late by that second at most. The hypothesis is
needed: with a limit of three, windows of three seconds, scripts late by two and times up
to eleven, TLC finds an estimate that misses what an expired hash had counted. The run
`around` has the `Skew` of one that the theorem allows.

Some of what is proved is checked by no run, because a run adds nothing to the proof:
`TypeOK` of `PaymentIntent`, `CircuitBreaker` and `Outbox` and the type invariants of
the other modules but `Ratings`, which are parts of their inductive invariants;
`HoldsAreOwned`, `AnnouncedTruly`, `TransitionsAreKnown`, `ReceiptsEnd`,
`ClosedIsFinal`. TLC agreed with each of them before it was proved. `RatingsTypeOK`
documents the variables; TLC finds it true of the instance above.

Model-checked only: all liveness (`PendingResolves`, `HoldRequestsResolve`,
`EventsResolve`, `Recovers`, `RequestsAreAnswered`, and `EndedIsPaidBack` and
`CommandsAreDelivered`, which are false), since liveness under fairness and ENABLED are
out of the prover's reach. `CopiesFollow` and `TooLargeWasNotSent` are false too.

## 5. Not modelled

* *Amounts.* Money is there or not; how much is computed by one multiplication and
  copied. A partial refund is a refund.
* *identity-service*: roles, profile fields, the length of a ban.
* *Trip search*: distance, bounding boxes, filters of price and time, and paging.
  They are more conjuncts of the WHERE clause and more fields of the cache key that
  `SearchCache` has one of.
* *api-gateway*: JWT verification, headers, the layout of the screens.
* *Logs that nothing reads*: `notification_events`, `audit_logs`,
  `payment_events` beyond the webhook's id.
* *The read side* of every service, profiles' in particular, validation, the HTTP
  adapters, metrics and logging: they change no state that the rest depends on.
* *HMAC, JWT and password hashing*: stateless computations of libraries.
* *Clocks of several services.* Deadlines, backoffs and claims end at any time,
  rather than by comparing clocks, except in `CircuitBreaker`, `RateLimit` and
  `SearchCache`, where durations are what the properties are about.
* *The outbox inside of the saga.* `BookingSaga` takes from `Outbox` that a published
  event reaches its consumer any number of times, late and in any order, or never;
  putting the delivery itself between the two would multiply the states and show
  nothing that the two do not show apart.

## 6. Plan

Done: every service's core, the saga, and theorems for every safety property that the
passing runs check. Left, in this order:

1. An abstract saga over `BookingLifecycle` and `IntentLifecycle`, with the events
   between them: what the two services promise together, stated without the means of
   either.
2. Action properties of the components that have invariants only: a notice that is
   settled stays so unless its claim ran out under a slower instance; an aggregate
   changes only with a rating.
3. The retry and backoff schedule of the outbox against the window of its breaker:
   the two are modelled apart.
