----------------------------- MODULE TripBooking -----------------------------
(***************************************************************************)
(* The core of trips-service: trips, their seats and the bookings that     *)
(* take them.  One row of the tables trips, bookings, idempotency_records, *)
(* consumed_events and outbox_events is one entry of a variable below.     *)
(*                                                                         *)
(* Every use case that writes a trip first takes the trip's row lock       *)
(* (SELECT ... FOR UPDATE).  The handler of payment.intent.hold_placed is  *)
(* the one writer that does not: it locks the booking's row only, so it    *)
(* may commit between a read and a write of a transaction that holds the   *)
(* trip.  The transactions for which that matters are two steps here, the  *)
(* read under the lock and the commit; the others are one.                 *)
(***************************************************************************)
EXTENDS Integers, FiniteSets

CONSTANTS
  Trips,        \* ids of trips
  Passengers,   \* users who book
  Requests,     \* POST /:tripId/book requests; a booking has its request's id
  Keys,         \* values of the Idempotency-Key header
  NoKey,        \* a request without the header
  NoBooking,    \* no idempotency record
  EventIds,     \* ids of events received from payments-service
  MaxSeats      \* largest seatsTotal of a trip and largest seats of a request

ASSUME KeysAssumption == NoKey \notin Keys
ASSUME RequestsAssumption == NoBooking \notin Requests /\ IsFiniteSet(Requests)
ASSUME SeatsAssumption == MaxSeats \in Nat \ {0}

VARIABLES
  tripStatus,      \* trips.status, "ABSENT" before the row exists
  seatsTotal,      \* trips.seats_total
  seatsAvailable,  \* trips.seats_available
  request,         \* the arguments of each request, fixed from the start
  outcome,         \* how far a request is, and how it was answered
  status,          \* bookings.status, "ABSENT" before the row exists
  idempotency,     \* idempotency_records: (user, key) -> the booking answered
  consumed,        \* consumed_events of trips-service
  emitted,         \* rows of outbox_events about a booking, by type
  tripEmitted,     \* rows of outbox_events about a trip, by type
  completedWith,   \* confirmedBookings in the payload of trip.completed
  txn              \* the open transaction that holds the trip's row lock

vars == <<tripStatus, seatsTotal, seatsAvailable, request, outcome, status,
          idempotency, consumed, emitted, tripEmitted, completedWith, txn>>

tripVars == <<tripStatus, seatsTotal, seatsAvailable>>
requestVars == <<request, outcome, idempotency>>
tripEventVars == <<tripEmitted, completedWith>>

-----------------------------------------------------------------------------
TripStatus == {"ABSENT", "ACTIVE", "CANCELLED", "COMPLETED"}

BookingStatus == {"ABSENT", "PENDING_PAYMENT", "CONFIRMED", "CANCELLED", "EXPIRED"}
Active == {"PENDING_PAYMENT", "CONFIRMED"}
Ended == {"CANCELLED", "EXPIRED"}

\* The transitions the domain declares legal for a booking.
ValidTransitions ==
  {<<"PENDING_PAYMENT", "CONFIRMED">>, <<"PENDING_PAYMENT", "CANCELLED">>,
   <<"PENDING_PAYMENT", "EXPIRED">>, <<"CONFIRMED", "CANCELLED">>}

BookingEvents ==
  {"booking.created", "booking.confirmed", "booking.cancelled", "booking.expired"}
TripEvents == {"trip.cancelled", "trip.completed"}

Outcomes == {"IDLE", "CHECKED", "BOOKED", "REPLAYED", "TRIP_NOT_ACTIVE",
             "NOT_ENOUGH_SEATS", "BOOKING_EXISTS", "FAILED"}

Arguments == [passenger : Passengers, trip : Trips,
              seats : 1..MaxSeats, key : Keys \cup {NoKey}]

Free == [op |-> "free", rows |-> {}]
Transactions ==
  [op : {"free", "cancelBooking", "cancelTrip", "completeTrip"},
   rows : SUBSET Requests]

BookingsOf(t) == {b \in Requests : status[b] # "ABSENT" /\ request[b].trip = t}
ActiveBookings(t) == {b \in BookingsOf(t) : status[b] \in Active}
ConfirmedBookings(t) == {b \in BookingsOf(t) : status[b] = "CONFIRMED"}

\* Mutant: SELECT ... FOR UPDATE on the trip is dropped.
Unlocked_NoLock(t) == t \in Trips

\* The row lock on the trip is free.
Unlocked(t) == txn[t] = Free

\* OutboxService.publish, once for each booking of bs, in the caller's
\* transaction.
Publish(type, bs) ==
  emitted' = [b \in Requests |->
                IF b \in bs THEN [emitted[b] EXCEPT ![type] = @ + 1]
                            ELSE emitted[b]]

SetStatus(bs, s) ==
  status' = [b \in Requests |-> IF b \in bs THEN s ELSE status[b]]

\* Mutant: one seat is returned, whatever the booking took.
ReturnSeats_One(b) ==
  seatsAvailable' = [seatsAvailable EXCEPT ![request[b].trip] = @ + 1]

\* UPDATE trips SET seats_available = seats_available + b.seats
ReturnSeats(b) ==
  seatsAvailable' =
    [seatsAvailable EXCEPT ![request[b].trip] = @ + request[b].seats]

-----------------------------------------------------------------------------
Init ==
  /\ tripStatus = [t \in Trips |-> "ABSENT"]
  /\ seatsTotal = [t \in Trips |-> 0]
  /\ seatsAvailable = [t \in Trips |-> 0]
  /\ request \in [Requests -> Arguments]
  /\ outcome = [r \in Requests |-> "IDLE"]
  /\ status = [b \in Requests |-> "ABSENT"]
  /\ idempotency = [p \in Passengers |-> [k \in Keys |-> NoBooking]]
  /\ consumed = {}
  /\ emitted = [b \in Requests |-> [e \in BookingEvents |-> 0]]
  /\ tripEmitted = [t \in Trips |-> [e \in TripEvents |-> 0]]
  /\ completedWith = [t \in Trips |-> {}]
  /\ txn = [t \in Trips |-> Free]

\* CreateTripUseCase: the trip is published at once, all its seats free.
CreateTrip(t, n) ==
  /\ tripStatus[t] = "ABSENT"
  /\ tripStatus' = [tripStatus EXCEPT ![t] = "ACTIVE"]
  /\ seatsTotal' = [seatsTotal EXCEPT ![t] = n]
  /\ seatsAvailable' = [seatsAvailable EXCEPT ![t] = n]
  /\ UNCHANGED <<requestVars, status, consumed, emitted, tripEventVars, txn>>

-----------------------------------------------------------------------------
(* BookSeatUseCase                                                         *)

\* The record of (key, user), if there is one.
RecordOf(r) ==
  IF request[r].key = NoKey THEN NoBooking
  ELSE idempotency[request[r].passenger][request[r].key]

\* The look-up outside of the transaction: answered at once if the key is
\* known, else on to the transaction.
CheckKey(r) ==
  /\ outcome[r] = "IDLE"
  /\ outcome' = [outcome EXCEPT ![r] =
                   IF RecordOf(r) = NoBooking THEN "CHECKED" ELSE "REPLAYED"]
  /\ UNCHANGED <<tripVars, request, idempotency, status, consumed, emitted,
                 tripEventVars, txn>>

\* Mutant: off by one, the last seat is sold twice.
EnoughSeats_OffByOne(t, n) == seatsAvailable[t] + 1 >= n

EnoughSeats(t, n) == seatsAvailable[t] >= n

\* Mutant: only a confirmed booking is in the way of another.
HasActiveBooking_Confirmed(p, t) ==
  \E b \in ConfirmedBookings(t) : request[b].passenger = p

HasActiveBooking(p, t) ==
  \E b \in ActiveBookings(t) : request[b].passenger = p

\* Mutant: idempotency_records loses its unique index.
ViolatesUniqueKey_Never(r) == r \notin Requests

\* The insert into idempotency_records breaks the unique index (P2002).
ViolatesUniqueKey(r) == RecordOf(r) # NoBooking

Refuse(r, why) ==
  /\ outcome' = [outcome EXCEPT ![r] = why]
  /\ UNCHANGED <<seatsAvailable, idempotency, status, emitted>>

\* The rows the transaction writes when nothing is in the way.
CreateBooking(r) ==
  LET a == request[r] IN
  /\ outcome' = [outcome EXCEPT ![r] = "BOOKED"]
  /\ SetStatus({r}, "PENDING_PAYMENT")
  /\ seatsAvailable' = [seatsAvailable EXCEPT ![a.trip] = @ - a.seats]
  /\ idempotency' = IF a.key = NoKey THEN idempotency
                    ELSE [idempotency EXCEPT ![a.passenger][a.key] = r]
  /\ Publish("booking.created", {r})

\* The transaction, under the lock of the trip.  The checks are those of the
\* code in its order (no row at all is refused like a trip that is not active);
\* a record written since CheckKey makes the insert fail, the transaction roll
\* back and the record be answered.
BookSeat(r) ==
  LET a == request[r] IN
  /\ outcome[r] = "CHECKED"
  /\ Unlocked(a.trip)
  /\ IF tripStatus[a.trip] # "ACTIVE" THEN Refuse(r, "TRIP_NOT_ACTIVE")
     ELSE IF ~EnoughSeats(a.trip, a.seats) THEN Refuse(r, "NOT_ENOUGH_SEATS")
     ELSE IF HasActiveBooking(a.passenger, a.trip) THEN Refuse(r, "BOOKING_EXISTS")
     ELSE IF ViolatesUniqueKey(r) THEN Refuse(r, "REPLAYED")
     ELSE CreateBooking(r)
  /\ UNCHANGED <<tripStatus, seatsTotal, request, consumed, tripEventVars, txn>>

\* The transaction fails (timeout, lost connection, crash) and leaves nothing.
BookSeatFails(r) ==
  /\ outcome[r] = "CHECKED"
  /\ Refuse(r, "FAILED")
  /\ UNCHANGED <<tripVars, request, consumed, tripEventVars, txn>>

-----------------------------------------------------------------------------
(* Transactions that read and then write under the lock of a trip          *)

Begin(t, op, rows) == txn' = [txn EXCEPT ![t] = [op |-> op, rows |-> rows]]

OnlyTxnChanges ==
  UNCHANGED <<tripVars, requestVars, status, consumed, emitted, tripEventVars>>

\* CancelBookingUseCase up to the read of freshBooking.  What it reads before
\* the transaction decides only early answers, which change nothing.
CancelBookingRead(b) ==
  /\ status[b] \in Active
  /\ Unlocked(request[b].trip)
  /\ Begin(request[b].trip, "cancelBooking", {b})
  /\ OnlyTxnChanges

\* The rest of it: the row is updated by id, whatever its status is by now.
CancelBookingCommit(t) ==
  /\ txn[t].op = "cancelBooking"
  /\ \E b \in txn[t].rows :
       /\ SetStatus({b}, "CANCELLED")
       /\ ReturnSeats(b)
       /\ Publish("booking.cancelled", {b})
  /\ txn' = [txn EXCEPT ![t] = Free]
  /\ UNCHANGED <<tripStatus, seatsTotal, requestVars, consumed, tripEventVars>>

\* CancelTripUseCase of the driver, and cancelTrip of AdminCommandWorker, up
\* to the read of the bookings to cancel.  The driver's accepts ACTIVE or
\* DRAFT, the admin's anything not terminal; no trip is ever DRAFT.
CancelTripRead(t) ==
  /\ tripStatus[t] = "ACTIVE"
  /\ Unlocked(t)
  /\ Begin(t, "cancelTrip", ActiveBookings(t))
  /\ OnlyTxnChanges

\* updateMany cancels the bookings active now; the events go out for the
\* bookings read before.  Seats are not returned.
CancelTripCommit(t) ==
  /\ txn[t].op = "cancelTrip"
  /\ tripStatus' = [tripStatus EXCEPT ![t] = "CANCELLED"]
  /\ SetStatus(ActiveBookings(t), "CANCELLED")
  /\ Publish("booking.cancelled", txn[t].rows)
  /\ tripEmitted' = [tripEmitted EXCEPT ![t]["trip.cancelled"] = @ + 1]
  /\ txn' = [txn EXCEPT ![t] = Free]
  /\ UNCHANGED <<seatsTotal, seatsAvailable, requestVars, consumed, completedWith>>

\* Mutant: the pending bookings are listed too.
CompleteTripRead_Active(t) ==
  /\ tripStatus[t] = "ACTIVE"
  /\ Unlocked(t)
  /\ Begin(t, "completeTrip", ActiveBookings(t))
  /\ OnlyTxnChanges

\* CompleteTripUseCase up to the read of the confirmed bookings.
CompleteTripRead(t) ==
  /\ tripStatus[t] = "ACTIVE"
  /\ Unlocked(t)
  /\ Begin(t, "completeTrip", ConfirmedBookings(t))
  /\ OnlyTxnChanges

CompleteTripCommit(t) ==
  /\ txn[t].op = "completeTrip"
  /\ tripStatus' = [tripStatus EXCEPT ![t] = "COMPLETED"]
  /\ completedWith' = [completedWith EXCEPT ![t] = txn[t].rows]
  /\ tripEmitted' = [tripEmitted EXCEPT ![t]["trip.completed"] = @ + 1]
  /\ txn' = [txn EXCEPT ![t] = Free]
  /\ UNCHANGED <<seatsTotal, seatsAvailable, requestVars, status, consumed, emitted>>

\* The database gives up the transaction (Prisma's timeout, a lost connection,
\* a crash of the service) and releases the lock.
Abort(t) ==
  /\ txn[t].op # "free"
  /\ txn' = [txn EXCEPT ![t] = Free]
  /\ OnlyTxnChanges

-----------------------------------------------------------------------------
(* Events from payments-service, and the expiration worker                 *)

\* InternalEventsController: an event id is recorded and its handler run in
\* one transaction; a known id is answered "duplicate" and changes nothing.
Consume(e) ==
  /\ e \notin consumed
  /\ consumed' = consumed \cup {e}

\* OnPaymentHoldPlacedHandler.  Only the booking's row is locked.
HoldPlaced(e, b) ==
  /\ Consume(e)
  /\ IF status[b] = "PENDING_PAYMENT"
     THEN /\ SetStatus({b}, "CONFIRMED")
          /\ Publish("booking.confirmed", {b})
     ELSE UNCHANGED <<status, emitted>>
  /\ UNCHANGED <<tripVars, requestVars, tripEventVars, txn>>

\* OnPaymentIntentFailedHandler.  The trip's row, then the booking's.
IntentFailed(e, b) ==
  /\ Consume(e)
  /\ status[b] # "ABSENT" => Unlocked(request[b].trip)
  /\ IF status[b] = "PENDING_PAYMENT"
     THEN /\ SetStatus({b}, "CANCELLED")
          /\ ReturnSeats(b)
          /\ Publish("booking.cancelled", {b})
     ELSE UNCHANGED <<seatsAvailable, status, emitted>>
  /\ UNCHANGED <<tripStatus, seatsTotal, requestVars, tripEventVars, txn>>

\* Mutants: the status is not read again under the lock; or only bookings of
\* trips still open are expired.
StillPending_Active(b) == status[b] \in Active
StillPending_OpenTrip(b) ==
  status[b] = "PENDING_PAYMENT" /\ tripStatus[request[b].trip] = "ACTIVE"

\* The booking found under the lock: WHERE status = 'PENDING_PAYMENT'.
StillPending(b) == status[b] = "PENDING_PAYMENT"

\* BookingExpirationWorker.expireBooking.  The id comes from a list read
\* earlier without a lock, hence the second look at the status; time is
\* abstract, so any pending booking may have outlived its TTL.
Expire(b) ==
  /\ StillPending(b)
  /\ Unlocked(request[b].trip)
  /\ SetStatus({b}, "EXPIRED")
  /\ ReturnSeats(b)
  /\ Publish("booking.expired", {b})
  /\ UNCHANGED <<tripStatus, seatsTotal, requestVars, consumed, tripEventVars, txn>>

-----------------------------------------------------------------------------
Next ==
  \/ \E t \in Trips :
       \/ \E n \in 1..MaxSeats : CreateTrip(t, n)
       \/ CancelTripRead(t)
       \/ CompleteTripRead(t)
       \/ CancelBookingCommit(t)
       \/ CancelTripCommit(t)
       \/ CompleteTripCommit(t)
       \/ Abort(t)
  \/ \E r \in Requests :
       \/ CheckKey(r)
       \/ BookSeat(r)
       \/ BookSeatFails(r)
       \/ CancelBookingRead(r)
       \/ Expire(r)
       \/ \E e \in EventIds : HoldPlaced(e, r) \/ IntentFailed(e, r)

Spec == Init /\ [][Next]_vars

\* A transaction ends, one way or the other, before its timeout.  A tick of the
\* expiration worker reaches every pending booking again and again and waits
\* in the queue of the trip's row lock, which other transactions hold for a
\* bounded time only: strong fairness, for the lock comes and goes.
Ends(t) ==
  CancelBookingCommit(t) \/ CancelTripCommit(t) \/ CompleteTripCommit(t) \/ Abort(t)

Fairness ==
  /\ \A t \in Trips : WF_vars(Ends(t))
  /\ \A b \in Requests : SF_vars(Expire(b))

FairSpec == Spec /\ Fairness
-----------------------------------------------------------------------------
(* Properties                                                              *)

\* Every variable holds rows of its table; seats_available, a signed Int column
\* with no CHECK, is never negative.
TypeOK ==
  /\ tripStatus \in [Trips -> TripStatus]
  /\ seatsTotal \in [Trips -> Nat]
  /\ seatsAvailable \in [Trips -> Nat]
  /\ request \in [Requests -> Arguments]
  /\ outcome \in [Requests -> Outcomes]
  /\ status \in [Requests -> BookingStatus]
  /\ idempotency \in [Passengers -> [Keys -> Requests \cup {NoBooking}]]
  /\ consumed \subseteq EventIds
  /\ emitted \in [Requests -> [BookingEvents -> Nat]]
  /\ tripEmitted \in [Trips -> [TripEvents -> Nat]]
  /\ completedWith \in [Trips -> SUBSET Requests]
  /\ txn \in [Trips -> Transactions]

\* The seats of a trip its active bookings hold, each named by its booking and
\* its number in it, so that counting them adds up bookings.seats.
SeatsTaken(t) ==
  {s \in Requests \X (1..MaxSeats) :
     s[1] \in ActiveBookings(t) /\ s[2] <= request[s[1]].seats}

\* No seat is sold twice and none is lost: seats_available and the seats of the
\* active bookings add up to seats_total, whatever order bookings, payments,
\* cancellations and expirations come in.  A cancelled trip is exempt: its
\* bookings end, and seats_available stays as it was.
SeatConservation ==
  \A t \in Trips :
    tripStatus[t] # "CANCELLED" =>
      seatsAvailable[t] + Cardinality(SeatsTaken(t)) = seatsTotal[t]

\* A passenger has at most one pending or confirmed booking on a trip (what the
\* partial unique index bookings_active_trip_passenger_unique also says), and
\* none is left on a cancelled trip, whichever of booking, confirmation and
\* cancellation came first.
ActiveBookingsAreLegitimate ==
  \A t \in Trips :
    /\ tripStatus[t] = "CANCELLED" => ActiveBookings(t) = {}
    /\ \A b, c \in ActiveBookings(t) :
         request[b].passenger = request[c].passenger => b = c

\* One Idempotency-Key of a user never makes two bookings, though two requests
\* may both find no record and lock two different trips.
OneBookingPerKey ==
  \A b, c \in Requests :
    /\ outcome[b] = "BOOKED" /\ outcome[c] = "BOOKED"
    /\ request[b].passenger = request[c].passenger
    /\ request[b].key = request[c].key
    /\ request[b].key # NoKey
    => b = c

\* Payments and notifications are told of a booking's creation, its
\* confirmation and its end exactly once each, and of the end it had: a
\* compensation is neither lost nor doubled by the race of a cancellation with
\* a confirmation, an expiration or a failed payment.
EmittedOnce(b) ==
  /\ emitted[b]["booking.created"] = IF status[b] = "ABSENT" THEN 0 ELSE 1
  /\ status[b] = "CONFIRMED" => emitted[b]["booking.confirmed"] = 1
  /\ status[b] = "CANCELLED" => emitted[b]["booking.confirmed"] \in {0, 1}
  /\ status[b] \notin {"CONFIRMED", "CANCELLED"} => emitted[b]["booking.confirmed"] = 0
  /\ emitted[b]["booking.cancelled"] = IF status[b] = "CANCELLED" THEN 1 ELSE 0
  /\ emitted[b]["booking.expired"] = IF status[b] = "EXPIRED" THEN 1 ELSE 0

EventsMatchStatus == \A b \in Requests : EmittedOnce(b)

\* What a transaction has read under the trip's lock still holds when it
\* commits, although hold_placed may confirm a booking of the trip meanwhile.
ReadsStillHold ==
  \A t \in Trips :
    /\ txn[t].op = "free" => txn[t] = Free
    /\ txn[t].op = "cancelBooking" =>
         \E b \in ActiveBookings(t) : txn[t].rows = {b}
    /\ txn[t].op = "cancelTrip" =>
         tripStatus[t] = "ACTIVE" /\ txn[t].rows = ActiveBookings(t)
    /\ txn[t].op = "completeTrip" =>
         tripStatus[t] = "ACTIVE" /\ txn[t].rows \subseteq ConfirmedBookings(t)

\* The tables agree: a booking exists just when its request was answered with
\* it, then its trip exists and its key, if any, is recorded.
RowsAgree ==
  /\ \A b \in Requests :
       /\ status[b] = "ABSENT" <=> outcome[b] # "BOOKED"
       /\ outcome[b] = "BOOKED" => tripStatus[request[b].trip] # "ABSENT"
       /\ outcome[b] = "BOOKED" /\ request[b].key # NoKey => RecordOf(b) = b
  /\ \A t \in Trips :
       tripStatus[t] = "ABSENT" => seatsTotal[t] = 0 /\ seatsAvailable[t] = 0

\* The inductive invariant the theorems rest on.
Inv ==
  /\ TypeOK
  /\ RowsAgree
  /\ ReadsStillHold
  /\ ActiveBookingsAreLegitimate
  /\ EventsMatchStatus
  /\ SeatConservation

\* A booking changes along the declared transitions only, and an ended one
\* never again, although confirmation takes no lock on the trip and
\* cancellation none on the booking before it writes.
LegalTransitions ==
  [][\A b \in Requests :
       status'[b] # status[b] /\ status[b] # "ABSENT" =>
         <<status[b], status'[b]>> \in ValidTransitions]_vars

\* trip.completed names only passengers whose bookings are confirmed when the
\* trip becomes COMPLETED: profiles-service lets exactly them be rated.
\* KeepsBookingPromise, which the runs check, implies it.
ListedAreConfirmed ==
  [][\A t \in Trips :
       tripStatus[t] # "COMPLETED" /\ tripStatus'[t] = "COMPLETED" =>
         completedWith'[t] \subseteq ConfirmedBookings(t)]_vars

\* No booking waits for its payment for ever: it is confirmed, cancelled or
\* expired, also on a trip that was completed meanwhile.
PendingResolves ==
  \A b \in Requests : (status[b] = "PENDING_PAYMENT") ~> (status[b] # "PENDING_PAYMENT")

-----------------------------------------------------------------------------
(* What others are promised of a trip and its bookings                     *)

Lifecycle == INSTANCE BookingLifecycle

\* Transactions that read and write under a lock not everyone takes, keys looked
\* up outside of them, a counter kept beside the bookings, and events handled
\* at any time: each step is one whole operation of BookingLifecycle or nothing.
KeepsBookingPromise == Lifecycle!Spec

=============================================================================
