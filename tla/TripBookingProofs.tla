-------------------------- MODULE TripBookingProofs --------------------------
(***************************************************************************)
(* What TripBooking promises for every set of trips, passengers, requests  *)
(* and keys, checked by TLAPS.                                             *)
(***************************************************************************)
EXTENDS TripBooking, FiniteSetTheorems, TLAPS

\* The actions of Next by name: the case split of every step proof below.
LEMMA NextCases ==
  ASSUME Next
  PROVE  \/ \E t \in Trips, n \in 1..MaxSeats : CreateTrip(t, n)
         \/ \E t \in Trips : CancelTripRead(t)
         \/ \E t \in Trips : CompleteTripRead(t)
         \/ \E t \in Trips : CancelBookingCommit(t)
         \/ \E t \in Trips : CancelTripCommit(t)
         \/ \E t \in Trips : CompleteTripCommit(t)
         \/ \E t \in Trips : Abort(t)
         \/ \E r \in Requests : CheckKey(r)
         \/ \E r \in Requests : BookSeat(r)
         \/ \E r \in Requests : BookSeatFails(r)
         \/ \E r \in Requests : CancelBookingRead(r)
         \/ \E r \in Requests : Expire(r)
         \/ \E e \in EventIds, r \in Requests : HoldPlaced(e, r)
         \/ \E e \in EventIds, r \in Requests : IntentFailed(e, r)
  BY DEF Next

-----------------------------------------------------------------------------
\* What the helpers do to the tables they write.
LEMMA PublishType ==
  ASSUME NEW type \in BookingEvents, NEW bs \in SUBSET Requests,
         emitted \in [Requests -> [BookingEvents -> Nat]],
         Publish(type, bs)
  PROVE  emitted' \in [Requests -> [BookingEvents -> Nat]]
  BY DEF Publish

\* Setting a status of the enumeration keeps status well typed.
LEMMA SetStatusType ==
  ASSUME NEW s \in BookingStatus, NEW bs \in SUBSET Requests,
         status \in [Requests -> BookingStatus],
         SetStatus(bs, s)
  PROVE  status' \in [Requests -> BookingStatus]
  BY DEF SetStatus

\* Returning seats keeps seats_available a natural number.
LEMMA ReturnSeatsType ==
  ASSUME NEW b \in Requests, TypeOK, ReturnSeats(b)
  PROVE  seatsAvailable' \in [Trips -> Nat]
  BY SeatsAssumption DEF ReturnSeats, TypeOK, Arguments

\* A transaction that takes a trip's lock keeps txn well typed.
LEMMA BeginType ==
  ASSUME NEW t \in Trips, TypeOK,
         NEW op \in {"free", "cancelBooking", "cancelTrip", "completeTrip"},
         NEW rows \in SUBSET Requests,
         Begin(t, op, rows)
  PROVE  txn' \in [Trips -> Transactions]
  BY DEF Begin, TypeOK, Transactions

\* A request's transaction ends in a refusal, or it writes the booking with
\* every check passed.
LEMMA BookSeatCases ==
  ASSUME NEW r \in Requests, BookSeat(r)
  PROVE  \/ \E why \in {"TRIP_NOT_ACTIVE", "NOT_ENOUGH_SEATS", "BOOKING_EXISTS", "REPLAYED"} :
               Refuse(r, why)
         \/ /\ tripStatus[request[r].trip] = "ACTIVE"
            /\ EnoughSeats(request[r].trip, request[r].seats)
            /\ ~HasActiveBooking(request[r].passenger, request[r].trip)
            /\ RecordOf(r) = NoBooking
            /\ CreateBooking(r)
  BY DEF BookSeat, ViolatesUniqueKey

\* A free lock is a value of txn.
LEMMA FreeType == Free \in Transactions
  BY DEF Free, Transactions

-----------------------------------------------------------------------------
\* An empty database is well typed.
LEMMA InitType ==
  ASSUME Init
  PROVE  TypeOK
  BY FreeType DEF Init, TypeOK, TripStatus, Outcomes, BookingStatus

\* Every step keeps every row well typed; seats_available is decreased only after
\* EnoughSeats, in the same transaction.
LEMMA TypeStep ==
  ASSUME TypeOK, [Next]_vars
  PROVE  TypeOK'
<1> USE DEF TypeOK
<1>1. ASSUME NEW t \in Trips, NEW n \in 1..MaxSeats, CreateTrip(t, n)
      PROVE  TypeOK'
  BY <1>1 DEF CreateTrip, TripStatus, requestVars, tripEventVars
<1>2. ASSUME NEW t \in Trips, CancelTripRead(t) PROVE TypeOK'
  <2>1. txn' \in [Trips -> Transactions]
    <3>1. Begin(t, "cancelTrip", ActiveBookings(t)) /\ ActiveBookings(t) \in SUBSET Requests
      BY <1>2 DEF CancelTripRead, ActiveBookings, BookingsOf
    <3> HIDE DEF TypeOK
    <3> QED
      BY <3>1, BeginType
  <2> QED
    BY <1>2, <2>1 DEF CancelTripRead, OnlyTxnChanges, tripVars, requestVars, tripEventVars
<1>3. ASSUME NEW t \in Trips, CompleteTripRead(t) PROVE TypeOK'
  <2>1. txn' \in [Trips -> Transactions]
    <3>1. Begin(t, "completeTrip", ConfirmedBookings(t)) /\ ConfirmedBookings(t) \in SUBSET Requests
      BY <1>3 DEF CompleteTripRead, ConfirmedBookings, BookingsOf
    <3> HIDE DEF TypeOK
    <3> QED
      BY <3>1, BeginType
  <2> QED
    BY <1>3, <2>1 DEF CompleteTripRead, OnlyTxnChanges, tripVars, requestVars, tripEventVars
<1>4. ASSUME NEW t \in Trips, CancelBookingCommit(t) PROVE TypeOK'
  <2>1. PICK b \in txn[t].rows : SetStatus({b}, "CANCELLED") /\ ReturnSeats(b)
                                  /\ Publish("booking.cancelled", {b})
    BY <1>4 DEF CancelBookingCommit
  <2>2. b \in Requests
    BY DEF Transactions
  <2>3. status' \in [Requests -> BookingStatus]
    BY <2>1, <2>2, SetStatusType DEF BookingStatus
  <2>4. emitted' \in [Requests -> [BookingEvents -> Nat]]
    BY <2>1, <2>2, PublishType DEF BookingEvents
  <2>5. seatsAvailable' \in [Trips -> Nat]
    BY <2>1, <2>2, ReturnSeatsType
  <2> QED
    BY <1>4, <2>3, <2>4, <2>5, FreeType DEF CancelBookingCommit, requestVars, tripEventVars
<1>5. ASSUME NEW t \in Trips, CancelTripCommit(t) PROVE TypeOK'
  <2>1. status' \in [Requests -> BookingStatus]
    BY <1>5, SetStatusType DEF CancelTripCommit, BookingStatus, ActiveBookings, BookingsOf
  <2>2. txn[t].rows \in SUBSET Requests
    BY DEF Transactions
  <2>3. emitted' \in [Requests -> [BookingEvents -> Nat]]
    BY <1>5, <2>2, PublishType DEF CancelTripCommit, BookingEvents
  <2>4. tripEmitted' \in [Trips -> [TripEvents -> Nat]]
    BY <1>5 DEF CancelTripCommit, TripEvents
  <2> QED
    BY <1>5, <2>1, <2>3, <2>4, FreeType DEF CancelTripCommit, requestVars, TripStatus
<1>6. ASSUME NEW t \in Trips, CompleteTripCommit(t) PROVE TypeOK'
  <2>1. tripEmitted' \in [Trips -> [TripEvents -> Nat]]
    BY <1>6 DEF CompleteTripCommit, TripEvents
  <2>2. txn[t].rows \in SUBSET Requests
    BY DEF Transactions
  <2> QED
    BY <1>6, <2>1, <2>2, FreeType DEF CompleteTripCommit, requestVars, TripStatus
<1>7. ASSUME NEW t \in Trips, Abort(t) PROVE TypeOK'
  BY <1>7, FreeType DEF Abort, OnlyTxnChanges, tripVars, requestVars, tripEventVars
<1>8. ASSUME NEW r \in Requests, CheckKey(r) PROVE TypeOK'
  BY <1>8 DEF CheckKey, Outcomes, tripVars, tripEventVars
<1>9. ASSUME NEW r \in Requests, BookSeat(r) PROVE TypeOK'
  <2>1. CASE \E why \in {"TRIP_NOT_ACTIVE", "NOT_ENOUGH_SEATS", "BOOKING_EXISTS", "REPLAYED"} :
               Refuse(r, why)
    BY <1>9, <2>1 DEF BookSeat, Refuse, Outcomes, tripEventVars
  <2>2. CASE /\ EnoughSeats(request[r].trip, request[r].seats)
             /\ CreateBooking(r)
    <3>1. status' \in [Requests -> BookingStatus]
      BY <2>2, SetStatusType DEF CreateBooking, BookingStatus
    <3>2. emitted' \in [Requests -> [BookingEvents -> Nat]]
      BY <2>2, PublishType DEF CreateBooking, BookingEvents
    <3>3. seatsAvailable' \in [Trips -> Nat]
      BY <2>2, SeatsAssumption DEF CreateBooking, EnoughSeats, Arguments
    <3>4. idempotency' \in [Passengers -> [Keys -> Requests \cup {NoBooking}]]
      BY <2>2 DEF CreateBooking, Arguments
    <3> QED
      BY <1>9, <2>2, <3>1, <3>2, <3>3, <3>4
         DEF BookSeat, CreateBooking, Outcomes, tripEventVars
  <2> QED
    BY <1>9, <2>1, <2>2, BookSeatCases
<1>10. ASSUME NEW r \in Requests, BookSeatFails(r) PROVE TypeOK'
  BY <1>10 DEF BookSeatFails, Refuse, Outcomes, tripVars, requestVars, tripEventVars
<1>11. ASSUME NEW r \in Requests, CancelBookingRead(r) PROVE TypeOK'
  <2>1. request[r].trip \in Trips
    BY DEF Arguments
  <2>2. txn' \in [Trips -> Transactions]
    <3>1. Begin(request[r].trip, "cancelBooking", {r}) /\ {r} \in SUBSET Requests
      BY <1>11 DEF CancelBookingRead
    <3> HIDE DEF TypeOK
    <3> QED
      BY <2>1, <3>1, BeginType
  <2> QED
    BY <1>11, <2>2 DEF CancelBookingRead, OnlyTxnChanges, tripVars, requestVars, tripEventVars
<1>12. ASSUME NEW r \in Requests, Expire(r) PROVE TypeOK'
  <2>1. status' \in [Requests -> BookingStatus]
    BY <1>12, SetStatusType DEF Expire, BookingStatus
  <2>2. emitted' \in [Requests -> [BookingEvents -> Nat]]
    BY <1>12, PublishType DEF Expire, BookingEvents
  <2>3. seatsAvailable' \in [Trips -> Nat]
    BY <1>12, ReturnSeatsType DEF Expire
  <2> QED
    BY <1>12, <2>1, <2>2, <2>3 DEF Expire, requestVars, tripEventVars
<1>13. ASSUME NEW e \in EventIds, NEW r \in Requests, HoldPlaced(e, r) PROVE TypeOK'
  <2>1. status' \in [Requests -> BookingStatus]
    BY <1>13, SetStatusType DEF HoldPlaced, BookingStatus
  <2>2. emitted' \in [Requests -> [BookingEvents -> Nat]]
    BY <1>13, PublishType DEF HoldPlaced, BookingEvents
  <2> QED
    BY <1>13, <2>1, <2>2 DEF HoldPlaced, Consume, tripVars, requestVars, tripEventVars
<1>14. ASSUME NEW e \in EventIds, NEW r \in Requests, IntentFailed(e, r) PROVE TypeOK'
  <2>1. status' \in [Requests -> BookingStatus]
    BY <1>14, SetStatusType DEF IntentFailed, BookingStatus
  <2>2. emitted' \in [Requests -> [BookingEvents -> Nat]]
    BY <1>14, PublishType DEF IntentFailed, BookingEvents
  <2>3. seatsAvailable' \in [Trips -> Nat]
    BY <1>14, ReturnSeatsType DEF IntentFailed
  <2> QED
    BY <1>14, <2>1, <2>2, <2>3 DEF IntentFailed, Consume, requestVars, tripEventVars
<1>15. CASE UNCHANGED vars
  BY <1>15 DEF vars
<1> QED
  BY <1>1, <1>2, <1>3, <1>4, <1>5, <1>6, <1>7, <1>8, <1>9, <1>10, <1>11,
     <1>12, <1>13, <1>14, <1>15, NextCases

\* Type correctness of TripBooking: in particular seats_available never becomes
\* negative, although nothing in the schema forbids it.
THEOREM TypeCorrect == Spec => []TypeOK
  BY InitType, TypeStep, PTL DEF Spec

-----------------------------------------------------------------------------
\* How the bookings of a trip change with the status of some bookings.

\* With no booking changed, the bookings of a trip are the same.
LEMMA SameBookings ==
  ASSUME UNCHANGED <<status, request>>, NEW t \in Trips
  PROVE  /\ ActiveBookings(t)' = ActiveBookings(t)
         /\ ConfirmedBookings(t)' = ConfirmedBookings(t)
  BY DEF ActiveBookings, ConfirmedBookings, BookingsOf

\* A status set on bookings of other trips leaves a trip's bookings alone.
LEMMA BookingsOfOtherTrips ==
  ASSUME NEW t \in Trips, NEW bs \in SUBSET Requests, NEW s,
         SetStatus(bs, s), UNCHANGED request,
         \A b \in bs : request[b].trip # t
  PROVE  /\ ActiveBookings(t)' = ActiveBookings(t)
         /\ ConfirmedBookings(t)' = ConfirmedBookings(t)
  BY DEF ActiveBookings, ConfirmedBookings, BookingsOf, SetStatus

\* Book-seat adds one active booking to its trip, and no confirmed one.
LEMMA CreatedBookings ==
  ASSUME NEW b \in Requests, UNCHANGED request, TypeOK,
         status[b] = "ABSENT", SetStatus({b}, "PENDING_PAYMENT")
  PROVE  /\ ActiveBookings(request[b].trip)' = ActiveBookings(request[b].trip) \cup {b}
         /\ ConfirmedBookings(request[b].trip)' = ConfirmedBookings(request[b].trip)
  BY DEF ActiveBookings, ConfirmedBookings, BookingsOf, SetStatus, TypeOK, Active

\* hold_placed keeps the active bookings, and only adds confirmed ones.
LEMMA ConfirmedOne ==
  ASSUME NEW b \in Requests, UNCHANGED request, TypeOK, NEW t \in Trips,
         status[b] = "PENDING_PAYMENT", SetStatus({b}, "CONFIRMED")
  PROVE  /\ ActiveBookings(t)' = ActiveBookings(t)
         /\ ConfirmedBookings(t) \subseteq ConfirmedBookings(t)'
  BY DEF ActiveBookings, ConfirmedBookings, BookingsOf, SetStatus, TypeOK, Active

\* The end of a booking takes it, and it alone, from its trip.
LEMMA EndedOne ==
  ASSUME NEW b \in Requests, UNCHANGED request, TypeOK,
         NEW s \in Ended, SetStatus({b}, s)
  PROVE  ActiveBookings(request[b].trip)' = ActiveBookings(request[b].trip) \ {b}
  BY DEF ActiveBookings, BookingsOf, SetStatus, TypeOK, Active, Ended

\* cancel-trip leaves no active booking on the trip.
LEMMA EndedAll ==
  ASSUME NEW t \in Trips, UNCHANGED request, TypeOK,
         SetStatus(ActiveBookings(t), "CANCELLED")
  PROVE  ActiveBookings(t)' = {}
  BY DEF ActiveBookings, BookingsOf, SetStatus, TypeOK, Active

\* The seats taken on a trip depend on its active bookings only.
LEMMA SeatsFollowBookings ==
  ASSUME NEW t \in Trips, UNCHANGED request,
         ActiveBookings(t)' = ActiveBookings(t)
  PROVE  SeatsTaken(t)' = SeatsTaken(t)
  BY DEF SeatsTaken

-----------------------------------------------------------------------------
\* The ways a step changes bookings.  Three transactions end one booking: they
\* differ in the status and the event, and all hold the trip's lock.
EndsOne(b, s, e) ==
  /\ b \in Requests
  /\ status[b] \in Active
  /\ <<s, e>> \in {<<"CANCELLED", "booking.cancelled">>, <<"EXPIRED", "booking.expired">>}
  /\ s = "EXPIRED" => status[b] = "PENDING_PAYMENT"
  /\ SetStatus({b}, s)
  /\ ReturnSeats(b)
  /\ Publish(e, {b})
  /\ UNCHANGED <<tripStatus, seatsTotal, requestVars, tripEventVars>>
  /\ \/ /\ txn[request[b].trip] = Free
        /\ UNCHANGED txn
     \/ txn' = [txn EXCEPT ![request[b].trip] = Free]

Confirms(b) ==
  /\ b \in Requests
  /\ status[b] = "PENDING_PAYMENT"
  /\ SetStatus({b}, "CONFIRMED")
  /\ Publish("booking.confirmed", {b})
  /\ UNCHANGED <<tripVars, requestVars, tripEventVars, txn>>

\* Steps that leave trips, bookings and their events alone.
LeavesBookings ==
  /\ UNCHANGED <<tripVars, request, idempotency, status, emitted, tripEventVars, txn>>
  /\ \A r \in Requests : outcome'[r] = "BOOKED" <=> outcome[r] = "BOOKED"

\* A request's transaction that writes its booking, with every check passed.
Books(r) ==
  /\ r \in Requests
  /\ outcome[r] = "CHECKED"
  /\ Unlocked(request[r].trip)
  /\ tripStatus[request[r].trip] = "ACTIVE"
  /\ EnoughSeats(request[r].trip, request[r].seats)
  /\ ~HasActiveBooking(request[r].passenger, request[r].trip)
  /\ RecordOf(r) = NoBooking
  /\ CreateBooking(r)
  /\ UNCHANGED <<tripStatus, seatsTotal, request, tripEventVars, txn>>

StepKinds ==
  \/ \E t \in Trips, n \in 1..MaxSeats : CreateTrip(t, n)
  \/ \E t \in Trips : CancelTripRead(t) \/ CompleteTripRead(t) \/ Abort(t)
  \/ \E t \in Trips : CancelTripCommit(t)
  \/ \E t \in Trips : CompleteTripCommit(t)
  \/ \E r \in Requests : CancelBookingRead(r)
  \/ \E r \in Requests : Books(r)
  \/ \E b \in Requests, s \in Ended, e \in BookingEvents : EndsOne(b, s, e)
  \/ \E b \in Requests : Confirms(b)
  \/ LeavesBookings

\* Every step of the specification, from a state of the invariant, is of one of
\* these kinds: the case split of the proofs that follow.
LEMMA StepCases ==
  ASSUME Inv, [Next]_vars
  PROVE  StepKinds
<1> SUFFICES ASSUME TypeOK, ReadsStillHold, Next PROVE StepKinds
  BY DEF Inv, vars, LeavesBookings, tripVars, tripEventVars, StepKinds
<1>1. ASSUME NEW t \in Trips, CancelBookingCommit(t)
      PROVE  \E b \in Requests : EndsOne(b, "CANCELLED", "booking.cancelled")
  <2>1. PICK b \in ActiveBookings(t) : txn[t].rows = {b}
    BY <1>1 DEF CancelBookingCommit, ReadsStillHold
  <2>2. b \in Requests /\ status[b] \in Active /\ request[b].trip = t
    BY <2>1 DEF ActiveBookings, BookingsOf
  <2> QED
    BY <1>1, <2>1, <2>2 DEF CancelBookingCommit, EndsOne
<1>2. ASSUME NEW b \in Requests, Expire(b)
      PROVE  EndsOne(b, "EXPIRED", "booking.expired")
  BY <1>2 DEF Expire, StillPending, Unlocked, EndsOne, Active
<1>3. ASSUME NEW e \in EventIds, NEW b \in Requests, IntentFailed(e, b)
      PROVE  EndsOne(b, "CANCELLED", "booking.cancelled") \/ LeavesBookings
  BY <1>3 DEF IntentFailed, Unlocked, EndsOne, Active, LeavesBookings, tripVars,
              requestVars, tripEventVars
<1>4. ASSUME NEW e \in EventIds, NEW b \in Requests, HoldPlaced(e, b)
      PROVE  Confirms(b) \/ LeavesBookings
  BY <1>4 DEF HoldPlaced, Confirms, LeavesBookings, tripVars, requestVars, tripEventVars
<1>5. ASSUME NEW r \in Requests, CheckKey(r) \/ BookSeatFails(r)
      PROVE  LeavesBookings
  BY <1>5 DEF CheckKey, BookSeatFails, Refuse, LeavesBookings, tripVars, tripEventVars, TypeOK
<1>6. ASSUME NEW r \in Requests, BookSeat(r), 
             NEW why \in {"TRIP_NOT_ACTIVE", "NOT_ENOUGH_SEATS", "BOOKING_EXISTS", "REPLAYED"},
             Refuse(r, why)
      PROVE  LeavesBookings
  BY <1>6 DEF BookSeat, Refuse, LeavesBookings, tripVars, tripEventVars, TypeOK
<1>7. "CANCELLED" \in Ended /\ "EXPIRED" \in Ended
      /\ "booking.cancelled" \in BookingEvents /\ "booking.expired" \in BookingEvents
  BY DEF Ended, BookingEvents
<1>8. ASSUME NEW r \in Requests, BookSeat(r)
      PROVE  Books(r) \/ LeavesBookings
  BY <1>6, <1>8, BookSeatCases DEF Books, BookSeat
<1> QED
  BY <1>1, <1>2, <1>3, <1>4, <1>5, <1>7, <1>8, NextCases DEF StepKinds

-----------------------------------------------------------------------------
\* The tables agree after every step.
LEMMA RowsAgreeStep ==
  ASSUME Inv, [Next]_vars
  PROVE  RowsAgree'
<1> USE DEF Inv, RowsAgree
<1>1. ASSUME NEW t \in Trips, NEW n \in 1..MaxSeats, CreateTrip(t, n)
      PROVE  RowsAgree'
  BY <1>1 DEF CreateTrip, requestVars, RecordOf, TypeOK, Arguments
<1>2. ASSUME NEW t \in Trips, CancelTripRead(t) \/ CompleteTripRead(t) \/ Abort(t)
      PROVE  RowsAgree'
  BY <1>2 DEF CancelTripRead, CompleteTripRead, Abort, OnlyTxnChanges, tripVars,
              requestVars, RecordOf
<1>3. ASSUME NEW t \in Trips, CancelTripCommit(t)
      PROVE  RowsAgree'
  BY <1>3 DEF CancelTripCommit, requestVars, RecordOf, SetStatus, ActiveBookings,
              BookingsOf, TypeOK, Arguments, ReadsStillHold
<1>4. ASSUME NEW t \in Trips, CompleteTripCommit(t)
      PROVE  RowsAgree'
  BY <1>4 DEF CompleteTripCommit, requestVars, RecordOf, TypeOK, Arguments, ReadsStillHold
<1>5. ASSUME NEW r \in Requests, CancelBookingRead(r)
      PROVE  RowsAgree'
  BY <1>5 DEF CancelBookingRead, OnlyTxnChanges, tripVars, requestVars, RecordOf
<1>6. ASSUME NEW r \in Requests, Books(r)
      PROVE  RowsAgree'
  <2>1. \A b \in Requests : 
           /\ status'[b] = IF b = r THEN "PENDING_PAYMENT" ELSE status[b]
           /\ outcome'[b] = IF b = r THEN "BOOKED" ELSE outcome[b]
    BY <1>6 DEF Books, CreateBooking, SetStatus, TypeOK
  <2>2. \A b \in Requests : b # r /\ RecordOf(b) = b => RecordOf(b)' = b
    BY <1>6, RequestsAssumption DEF Books, CreateBooking, RecordOf, TypeOK, Arguments
  <2>3. request[r].key # NoKey => RecordOf(r)' = r
    BY <1>6 DEF Books, CreateBooking, RecordOf, TypeOK, Arguments
  <2>4. seatsTotal' = seatsTotal /\ tripStatus' = tripStatus /\ request' = request
        /\ tripStatus[request[r].trip] = "ACTIVE"
        /\ \A t \in Trips : t # request[r].trip => seatsAvailable'[t] = seatsAvailable[t]
    BY <1>6 DEF Books, CreateBooking, TypeOK
  <2> QED
    BY <2>1, <2>2, <2>3, <2>4
<1>7. ASSUME NEW b \in Requests, NEW s \in Ended, NEW e \in BookingEvents, EndsOne(b, s, e)
      PROVE  RowsAgree'
  <2>1. tripStatus[request[b].trip] # "ABSENT"
    BY <1>7 DEF EndsOne, Active, TypeOK
  <2> QED
    BY <1>7, <2>1 DEF EndsOne, SetStatus, ReturnSeats, requestVars, RecordOf, Active,
                      Ended, TypeOK, Arguments
<1>8. ASSUME NEW b \in Requests, Confirms(b)
      PROVE  RowsAgree'
  BY <1>8 DEF Confirms, SetStatus, tripVars, requestVars, RecordOf
<1>9. CASE LeavesBookings
  BY <1>9 DEF LeavesBookings, tripVars, RecordOf
<1> HIDE DEF Inv, RowsAgree
<1> QED
  BY <1>1, <1>2, <1>3, <1>4, <1>5, <1>6, <1>7, <1>8, <1>9, StepCases DEF StepKinds

-----------------------------------------------------------------------------
\* The part of ReadsStillHold about one trip.
ReadsHold(t) ==
  /\ txn[t].op = "free" => txn[t] = Free
  /\ txn[t].op = "cancelBooking" => \E b \in ActiveBookings(t) : txn[t].rows = {b}
  /\ txn[t].op = "cancelTrip" =>
       tripStatus[t] = "ACTIVE" /\ txn[t].rows = ActiveBookings(t)
  /\ txn[t].op = "completeTrip" =>
       tripStatus[t] = "ACTIVE" /\ txn[t].rows \subseteq ConfirmedBookings(t)

\* A trip whose transaction, status and active bookings stay as they are, and
\* that loses no confirmed one, keeps it.
LEMMA ReadsHoldFrame ==
  ASSUME NEW t \in Trips, ReadsHold(t),
         txn'[t] = txn[t], tripStatus'[t] = tripStatus[t],
         ActiveBookings(t)' = ActiveBookings(t),
         ConfirmedBookings(t) \subseteq ConfirmedBookings(t)'
  PROVE  ReadsHold(t)'
  BY DEF ReadsHold

\* A trip whose lock is released has no read left to keep.
LEMMA ReadsHoldFree ==
  ASSUME NEW t \in Trips, txn'[t] = Free
  PROVE  ReadsHold(t)'
  BY DEF ReadsHold, Free

\* No step of anyone else invalidates what an open transaction has read.
LEMMA ReadsStillHoldStep ==
  ASSUME Inv, [Next]_vars
  PROVE  ReadsStillHold'
<1> USE DEF Inv
<1> SUFFICES ASSUME NEW t \in Trips, ReadsHold(t) PROVE ReadsHold(t)'
  BY DEF ReadsStillHold, ReadsHold
<1>1. ASSUME NEW u \in Trips, NEW n \in 1..MaxSeats, CreateTrip(u, n)
      PROVE  ReadsHold(t)'
  BY <1>1, SameBookings DEF CreateTrip, requestVars, ReadsHold, TypeOK
<1>2. ASSUME NEW u \in Trips, CancelTripRead(u) \/ CompleteTripRead(u) \/ Abort(u)
      PROVE  ReadsHold(t)'
  <2>1. ActiveBookings(t)' = ActiveBookings(t) /\ ConfirmedBookings(t)' = ConfirmedBookings(t)
        /\ tripStatus' = tripStatus
    BY <1>2, SameBookings DEF CancelTripRead, CompleteTripRead, Abort, OnlyTxnChanges,
                              requestVars, tripVars
  <2>2. CASE t # u
    BY <1>2, <2>1, <2>2, ReadsHoldFrame
       DEF CancelTripRead, CompleteTripRead, Abort, Begin, TypeOK
  <2>3. CASE t = u
    <3>1. CASE CancelTripRead(u)
      BY <2>1, <2>3, <3>1 DEF CancelTripRead, Begin, ReadsHold, TypeOK
    <3>2. CASE CompleteTripRead(u)
      BY <2>1, <2>3, <3>2 DEF CompleteTripRead, Begin, ReadsHold, TypeOK
    <3>3. CASE Abort(u)
      BY <2>3, <3>3, ReadsHoldFree DEF Abort, TypeOK
    <3> QED
      BY <1>2, <3>1, <3>2, <3>3
  <2> QED
    BY <2>2, <2>3
<1>3. ASSUME NEW u \in Trips, CancelTripCommit(u)
      PROVE  ReadsHold(t)'
  <2>1. CASE t # u
    <3>1. ActiveBookings(u) \in SUBSET Requests
          /\ \A b \in ActiveBookings(u) : request[b].trip # t
      BY <2>1 DEF ActiveBookings, BookingsOf
    <3> QED
      BY <1>3, <2>1, <3>1, ReadsHoldFrame, BookingsOfOtherTrips
         DEF CancelTripCommit, requestVars, TypeOK
  <2>2. CASE t = u
    BY <1>3, <2>2, ReadsHoldFree DEF CancelTripCommit, TypeOK
  <2> QED
    BY <2>1, <2>2
<1>4. ASSUME NEW u \in Trips, CompleteTripCommit(u)
      PROVE  ReadsHold(t)'
  <2>1. ActiveBookings(t)' = ActiveBookings(t) /\ ConfirmedBookings(t)' = ConfirmedBookings(t)
    BY <1>4, SameBookings DEF CompleteTripCommit, requestVars
  <2>2. CASE t # u
    BY <1>4, <2>1, <2>2, ReadsHoldFrame DEF CompleteTripCommit, TypeOK
  <2>3. CASE t = u
    BY <1>4, <2>3, ReadsHoldFree DEF CompleteTripCommit, TypeOK
  <2> QED
    BY <2>2, <2>3
<1>5. ASSUME NEW r \in Requests, CancelBookingRead(r)
      PROVE  ReadsHold(t)'
  <2>1. ActiveBookings(t)' = ActiveBookings(t) /\ ConfirmedBookings(t)' = ConfirmedBookings(t)
        /\ tripStatus' = tripStatus
    BY <1>5, SameBookings DEF CancelBookingRead, OnlyTxnChanges, requestVars, tripVars
  <2>2. CASE t # request[r].trip
    BY <1>5, <2>1, <2>2, ReadsHoldFrame DEF CancelBookingRead, Begin, TypeOK
  <2>3. CASE t = request[r].trip
    <3>1. r \in ActiveBookings(t)
      BY <1>5, <2>3 DEF CancelBookingRead, ActiveBookings, BookingsOf, Active
    <3> QED
      BY <1>5, <2>1, <2>3, <3>1 DEF CancelBookingRead, Begin, ReadsHold, TypeOK
  <2> QED
    BY <2>2, <2>3
<1>6. ASSUME NEW r \in Requests, Books(r)
      PROVE  ReadsHold(t)'
  <2>1. CASE t # request[r].trip
    BY <1>6, <2>1, ReadsHoldFrame, BookingsOfOtherTrips DEF Books, CreateBooking
  <2>2. CASE t = request[r].trip
    BY <1>6, <2>2, ReadsHoldFree DEF Books, Unlocked
  <2> QED
    BY <2>1, <2>2
<1>7. ASSUME NEW b \in Requests, NEW s \in Ended, NEW e \in BookingEvents, EndsOne(b, s, e)
      PROVE  ReadsHold(t)'
  <2>1. CASE t # request[b].trip
    <3>1. ActiveBookings(t)' = ActiveBookings(t) /\ ConfirmedBookings(t)' = ConfirmedBookings(t)
      BY <1>7, <2>1, BookingsOfOtherTrips DEF EndsOne, requestVars
    <3>2. txn'[t] = txn[t] /\ tripStatus'[t] = tripStatus[t]
      BY <1>7, <2>1 DEF EndsOne, TypeOK
    <3> QED
      BY <3>1, <3>2, ReadsHoldFrame
  <2>2. CASE t = request[b].trip
    BY <1>7, <2>2, ReadsHoldFree DEF EndsOne, TypeOK
  <2> QED
    BY <2>1, <2>2
<1>8. ASSUME NEW b \in Requests, Confirms(b)
      PROVE  ReadsHold(t)'
  BY <1>8, ReadsHoldFrame, ConfirmedOne DEF Confirms, requestVars, tripVars
<1>9. CASE LeavesBookings
  BY <1>9, ReadsHoldFrame, SameBookings DEF LeavesBookings, tripVars
<1> HIDE DEF Inv
<1> QED
  BY <1>1, <1>2, <1>3, <1>4, <1>5, <1>6, <1>7, <1>8, <1>9, StepCases DEF StepKinds

-----------------------------------------------------------------------------
\* No step makes a passenger's second active booking, or one on a cancelled trip.
LEMMA ActiveBookingsAreLegitimateStep ==
  ASSUME Inv, [Next]_vars
  PROVE  ActiveBookingsAreLegitimate'
<1> USE DEF Inv
<1> DEFINE Legitimate(t) ==
      /\ tripStatus[t] = "CANCELLED" => ActiveBookings(t) = {}
      /\ \A b, c \in ActiveBookings(t) :
           request[b].passenger = request[c].passenger => b = c
<1> SUFFICES ASSUME NEW t \in Trips, Legitimate(t) PROVE Legitimate(t)'
  BY DEF ActiveBookingsAreLegitimate
\* Fewer active bookings on a trip that keeps its status cannot do harm.
<1>0. ASSUME ActiveBookings(t)' \subseteq ActiveBookings(t), request' = request,
             tripStatus'[t] = "CANCELLED" => tripStatus[t] = "CANCELLED" \/ ActiveBookings(t)' = {}
      PROVE  Legitimate(t)'
  BY <1>0
<1> HIDE DEF Legitimate
<1>1. ASSUME NEW u \in Trips, NEW n \in 1..MaxSeats, CreateTrip(u, n)
      PROVE  Legitimate(t)'
  BY <1>0, <1>1, SameBookings DEF CreateTrip, requestVars, TypeOK
<1>2. ASSUME NEW u \in Trips, CancelTripRead(u) \/ CompleteTripRead(u) \/ Abort(u)
      PROVE  Legitimate(t)'
  BY <1>0, <1>2, SameBookings DEF CancelTripRead, CompleteTripRead, Abort, OnlyTxnChanges,
                                  requestVars, tripVars
<1>3. ASSUME NEW u \in Trips, CancelTripCommit(u)
      PROVE  Legitimate(t)'
  <2>1. CASE t # u
    <3>1. ActiveBookings(u) \in SUBSET Requests
          /\ \A b \in ActiveBookings(u) : request[b].trip # t
      BY <2>1 DEF ActiveBookings, BookingsOf
    <3> QED
      BY <1>0, <1>3, <2>1, <3>1, BookingsOfOtherTrips DEF CancelTripCommit, requestVars, TypeOK
  <2>2. CASE t = u
    BY <1>0, <1>3, <2>2, EndedAll DEF CancelTripCommit, requestVars
  <2> QED
    BY <2>1, <2>2
<1>4. ASSUME NEW u \in Trips, CompleteTripCommit(u)
      PROVE  Legitimate(t)'
  BY <1>0, <1>4, SameBookings DEF CompleteTripCommit, requestVars, TypeOK
<1>5. ASSUME NEW r \in Requests, CancelBookingRead(r)
      PROVE  Legitimate(t)'
  BY <1>0, <1>5, SameBookings DEF CancelBookingRead, OnlyTxnChanges, requestVars, tripVars
<1>6. ASSUME NEW r \in Requests, Books(r)
      PROVE  Legitimate(t)'
  <2>1. CASE t # request[r].trip
    BY <1>0, <1>6, <2>1, BookingsOfOtherTrips DEF Books, CreateBooking
  <2>2. CASE t = request[r].trip
    <3>1. status[r] = "ABSENT"
      BY <1>6 DEF Books, RowsAgree
    <3>2. ActiveBookings(t)' = ActiveBookings(t) \cup {r}
      BY <1>6, <2>2, <3>1, CreatedBookings DEF Books, CreateBooking
    <3>3. \A b \in ActiveBookings(t) : request[b].passenger # request[r].passenger
      BY <1>6, <2>2 DEF Books, HasActiveBooking
    <3>4. tripStatus'[t] = "ACTIVE" /\ request' = request
      BY <1>6, <2>2 DEF Books
    <3> QED
      BY <3>2, <3>3, <3>4 DEF Legitimate
  <2> QED
    BY <2>1, <2>2
<1>7. ASSUME NEW b \in Requests, NEW s \in Ended, NEW e \in BookingEvents, EndsOne(b, s, e)
      PROVE  Legitimate(t)'
  <2>1. ActiveBookings(t)' \subseteq ActiveBookings(t)
    <3>1. CASE t # request[b].trip
      BY <1>7, <3>1, BookingsOfOtherTrips DEF EndsOne, requestVars
    <3>2. CASE t = request[b].trip
      BY <1>7, <3>2, EndedOne DEF EndsOne, requestVars
    <3> QED
      BY <3>1, <3>2
  <2> QED
    BY <1>0, <1>7, <2>1 DEF EndsOne, requestVars
<1>8. ASSUME NEW b \in Requests, Confirms(b)
      PROVE  Legitimate(t)'
  BY <1>0, <1>8, ConfirmedOne DEF Confirms, requestVars, tripVars
<1>9. CASE LeavesBookings
  BY <1>0, <1>9, SameBookings DEF LeavesBookings, tripVars
<1> HIDE DEF Inv
<1> QED
  BY <1>1, <1>2, <1>3, <1>4, <1>5, <1>6, <1>7, <1>8, <1>9, StepCases DEF StepKinds

-----------------------------------------------------------------------------
\* Whatever a step does to a booking's status, it publishes the event that goes
\* with it in the same transaction.
LEMMA EventsMatchStatusStep ==
  ASSUME Inv, [Next]_vars
  PROVE  EventsMatchStatus'
<1> USE DEF Inv
<1> SUFFICES ASSUME NEW x \in Requests, EmittedOnce(x) PROVE EmittedOnce(x)'
  BY DEF EventsMatchStatus
<1>0. ASSUME status'[x] = status[x], emitted'[x] = emitted[x]
      PROVE  EmittedOnce(x)'
  BY <1>0 DEF EmittedOnce
<1>a. emitted[x] \in [BookingEvents -> Nat] /\ status[x] \in BookingStatus
  BY DEF TypeOK
<1>1. ASSUME NEW u \in Trips, NEW n \in 1..MaxSeats, CreateTrip(u, n)
      PROVE  EmittedOnce(x)'
  BY <1>0, <1>1 DEF CreateTrip
<1>2. ASSUME NEW u \in Trips, CancelTripRead(u) \/ CompleteTripRead(u) \/ Abort(u)
      PROVE  EmittedOnce(x)'
  BY <1>0, <1>2 DEF CancelTripRead, CompleteTripRead, Abort, OnlyTxnChanges
<1>3. ASSUME NEW u \in Trips, CancelTripCommit(u)
      PROVE  EmittedOnce(x)'
  <2>1. txn[u].rows = ActiveBookings(u)
    BY <1>3 DEF CancelTripCommit, ReadsStillHold
  <2>2. CASE x \in ActiveBookings(u)
    <3>1. status[x] \in Active
      BY <2>2 DEF ActiveBookings
    <3>2. /\ status'[x] = "CANCELLED"
          /\ emitted'[x] = [emitted[x] EXCEPT !["booking.cancelled"] = @ + 1]
      BY <1>3, <2>1, <2>2 DEF CancelTripCommit, SetStatus, Publish
    <3> QED
      BY <1>a, <3>1, <3>2 DEF EmittedOnce, Active, BookingEvents
  <2>3. CASE x \notin ActiveBookings(u)
    BY <1>0, <1>3, <2>1, <2>3 DEF CancelTripCommit, SetStatus, Publish
  <2> QED
    BY <2>2, <2>3
<1>4. ASSUME NEW u \in Trips, CompleteTripCommit(u)
      PROVE  EmittedOnce(x)'
  BY <1>0, <1>4 DEF CompleteTripCommit
<1>5. ASSUME NEW r \in Requests, CancelBookingRead(r)
      PROVE  EmittedOnce(x)'
  BY <1>0, <1>5 DEF CancelBookingRead, OnlyTxnChanges
<1>6. ASSUME NEW r \in Requests, Books(r)
      PROVE  EmittedOnce(x)'
  <2>1. CASE x = r
    <3>1. status[x] = "ABSENT"
      BY <1>6, <2>1 DEF Books, RowsAgree
    <3>2. /\ status'[x] = "PENDING_PAYMENT"
          /\ emitted'[x] = [emitted[x] EXCEPT !["booking.created"] = @ + 1]
      BY <1>6, <2>1 DEF Books, CreateBooking, SetStatus, Publish
    <3> QED
      BY <1>a, <3>1, <3>2 DEF EmittedOnce, BookingEvents
  <2>2. CASE x # r
    BY <1>0, <1>6, <2>2 DEF Books, CreateBooking, SetStatus, Publish
  <2> QED
    BY <2>1, <2>2
<1>7. ASSUME NEW b \in Requests, NEW s \in Ended, NEW e \in BookingEvents, EndsOne(b, s, e)
      PROVE  EmittedOnce(x)'
  <2>1. CASE x = b
    <3>1. /\ status'[x] = s
          /\ emitted'[x] = [emitted[x] EXCEPT ![e] = @ + 1]
          /\ status[x] \in Active
      BY <1>7, <2>1 DEF EndsOne, SetStatus, Publish
    <3>2. CASE s = "CANCELLED" /\ e = "booking.cancelled"
      BY <1>a, <3>1, <3>2 DEF EmittedOnce, Active, BookingEvents
    <3>3. CASE s = "EXPIRED" /\ e = "booking.expired"
      <4>1. status[x] = "PENDING_PAYMENT"
        BY <1>7, <2>1, <3>3 DEF EndsOne
      <4> QED
        BY <1>a, <3>1, <3>3, <4>1 DEF EmittedOnce, BookingEvents
    <3> QED
      BY <1>7, <3>2, <3>3 DEF EndsOne
  <2>2. CASE x # b
    BY <1>0, <1>7, <2>2 DEF EndsOne, SetStatus, Publish
  <2> QED
    BY <2>1, <2>2
<1>8. ASSUME NEW b \in Requests, Confirms(b)
      PROVE  EmittedOnce(x)'
  <2>1. CASE x = b
    <3>1. /\ status'[x] = "CONFIRMED"
          /\ emitted'[x] = [emitted[x] EXCEPT !["booking.confirmed"] = @ + 1]
          /\ status[x] = "PENDING_PAYMENT"
      BY <1>8, <2>1 DEF Confirms, SetStatus, Publish
    <3> QED
      BY <1>a, <3>1 DEF EmittedOnce, BookingEvents
  <2>2. CASE x # b
    BY <1>0, <1>8, <2>2 DEF Confirms, SetStatus, Publish
  <2> QED
    BY <2>1, <2>2
<1>9. CASE LeavesBookings
  BY <1>0, <1>9 DEF LeavesBookings
<1> HIDE DEF Inv
<1> QED
  BY <1>1, <1>2, <1>3, <1>4, <1>5, <1>6, <1>7, <1>8, <1>9, StepCases DEF StepKinds

-----------------------------------------------------------------------------
\* Counting the seats of a booking that comes or goes.
LEMMA SeatsTakenFinite ==
  ASSUME NEW t \in Trips
  PROVE  IsFiniteSet(SeatsTaken(t))
<1>1. IsFiniteSet(1..MaxSeats)
  BY SeatsAssumption, FS_Interval
<1>2. IsFiniteSet(Requests \X (1..MaxSeats))
  BY <1>1, RequestsAssumption, FS_Product
<1>3. SeatsTaken(t) \subseteq Requests \X (1..MaxSeats)
  BY DEF SeatsTaken
<1> QED
  BY <1>2, <1>3, FS_Subset

\* A booking of n seats takes n of them.
LEMMA SeatsOfOneBooking ==
  ASSUME NEW b, NEW n \in Nat
  PROVE  IsFiniteSet({b} \X (1..n)) /\ Cardinality({b} \X (1..n)) = n
<1>1. IsFiniteSet({b}) /\ Cardinality({b}) = 1
  BY FS_Singleton
<1>2. IsFiniteSet(1..n) /\ Cardinality(1..n) = n
  BY FS_Interval
<1> DEFINE Seats == 1..n
<1>3. /\ IsFiniteSet({b} \X Seats)
      /\ Cardinality({b} \X Seats) = Cardinality({b}) * Cardinality(Seats)
  <2> HIDE DEF Seats
  <2>1. IsFiniteSet(Seats)
    BY <1>2 DEF Seats
  <2> QED
    BY ONLY <1>1, <2>1, FS_Product
<1>4. Cardinality({b} \X Seats) = 1 * n
  BY <1>1, <1>2, <1>3
<1> QED
  BY <1>3, <1>4

\* A new active booking takes its seats, none of which was taken.
LEMMA SeatsAdded ==
  ASSUME NEW b \in Requests, TypeOK, UNCHANGED request,
         b \notin ActiveBookings(request[b].trip),
         ActiveBookings(request[b].trip)' = ActiveBookings(request[b].trip) \cup {b}
  PROVE  Cardinality(SeatsTaken(request[b].trip)') =
           Cardinality(SeatsTaken(request[b].trip)) + request[b].seats
<1> DEFINE t == request[b].trip
           S == SeatsTaken(t)
           B == {b} \X (1..request[b].seats)
<1>1. t \in Trips /\ request[b].seats \in 1..MaxSeats /\ request[b].seats \in Nat
  BY SeatsAssumption DEF TypeOK, Arguments
<1>2. SeatsTaken(t)' = S \cup B
  <2>1. ASSUME NEW s \in Requests \X (1..MaxSeats)
        PROVE  s \in SeatsTaken(t)' <=> s \in S \cup B
    <3>1. s \in SeatsTaken(t)' <=> s[1] \in ActiveBookings(t)' /\ s[2] <= request[s[1]].seats
      BY DEF SeatsTaken
    <3>2. s \in S <=> s[1] \in ActiveBookings(t) /\ s[2] <= request[s[1]].seats
      BY DEF SeatsTaken
    <3>3. s \in B <=> s[1] = b /\ s[2] <= request[b].seats
      BY <1>1, SeatsAssumption
    <3> QED
      BY <3>1, <3>2, <3>3
  <2>2. SeatsTaken(t)' \subseteq Requests \X (1..MaxSeats) /\ S \subseteq Requests \X (1..MaxSeats)
    BY DEF SeatsTaken
  <2>3. B \subseteq Requests \X (1..MaxSeats)
    BY <1>1, SeatsAssumption
  <2> QED
    BY <2>1, <2>2, <2>3
<1>3. S \cap B = {}
  BY DEF SeatsTaken
<1>4. IsFiniteSet(S) /\ Cardinality(S) \in Nat
  BY <1>1, SeatsTakenFinite, FS_CardinalityType
<1>5. IsFiniteSet(B) /\ Cardinality(B) = request[b].seats
  BY <1>1, SeatsOfOneBooking
<1>6. Cardinality(S \cup B) = Cardinality(S) + Cardinality(B) - Cardinality(S \cap B)
  BY <1>4, <1>5, FS_Union
<1>7. Cardinality(S \cap B) = 0
  BY <1>3, FS_EmptySet
<1>8. Cardinality(S \cup B) = Cardinality(S) + request[b].seats
  <2> HIDE DEF S, B
  <2> QED
    BY <1>1, <1>4, <1>5, <1>6, <1>7
<1> QED
  BY <1>2, <1>8

\* A booking that ends gives back all of its seats.
LEMMA SeatsRemoved ==
  ASSUME NEW b \in Requests, TypeOK, UNCHANGED request,
         b \in ActiveBookings(request[b].trip),
         ActiveBookings(request[b].trip)' = ActiveBookings(request[b].trip) \ {b}
  PROVE  Cardinality(SeatsTaken(request[b].trip)') =
           Cardinality(SeatsTaken(request[b].trip)) - request[b].seats
<1> DEFINE t == request[b].trip
           S == SeatsTaken(t)
           B == {b} \X (1..request[b].seats)
<1>1. t \in Trips /\ request[b].seats \in 1..MaxSeats /\ request[b].seats \in Nat
  BY SeatsAssumption DEF TypeOK, Arguments
<1>2. ASSUME NEW s \in Requests \X (1..MaxSeats)
      PROVE  s \in B <=> s[1] = b /\ s[2] <= request[b].seats
  BY <1>1, SeatsAssumption
<1>3. B \subseteq Requests \X (1..MaxSeats)
  BY <1>1, SeatsAssumption
<1>4. SeatsTaken(t)' = S \ B
  BY <1>2, <1>3 DEF SeatsTaken
<1>5. S \cap B = B
  BY <1>2, <1>3 DEF SeatsTaken
<1>6. IsFiniteSet(S)
  BY <1>1, SeatsTakenFinite
<1>7. IsFiniteSet(B) /\ Cardinality(B) = request[b].seats
  BY <1>1, SeatsOfOneBooking
<1>8. Cardinality(S \ B) = Cardinality(S) - Cardinality(S \cap B)
  BY <1>6, FS_Difference
<1> QED
  BY <1>4, <1>5, <1>7, <1>8

\* A trip's seats add up.
Conserved(t) ==
  tripStatus[t] # "CANCELLED" =>
    seatsAvailable[t] + Cardinality(SeatsTaken(t)) = seatsTotal[t]

\* seats_available of a trip changes only in the transactions that end or create
\* one of its bookings, by that booking's seats.
LEMMA SeatConservationStep ==
  ASSUME Inv, [Next]_vars
  PROVE  SeatConservation'
<1> USE DEF Inv
<1> SUFFICES ASSUME NEW t \in Trips, Conserved(t) PROVE Conserved(t)'
  BY DEF SeatConservation, Conserved
<1>0. ASSUME tripStatus'[t] = tripStatus[t], seatsAvailable'[t] = seatsAvailable[t],
             seatsTotal'[t] = seatsTotal[t], request' = request,
             ActiveBookings(t)' = ActiveBookings(t)
      PROVE  Conserved(t)'
  BY <1>0, SeatsFollowBookings DEF Conserved
<1>a. Cardinality(SeatsTaken(t)) \in Nat
  BY SeatsTakenFinite, FS_CardinalityType
<1>b. seatsAvailable[t] \in Nat /\ seatsTotal[t] \in Nat
  BY DEF TypeOK
<1>1. ASSUME NEW u \in Trips, NEW n \in 1..MaxSeats, CreateTrip(u, n)
      PROVE  Conserved(t)'
  <2>1. ActiveBookings(t)' = ActiveBookings(t) /\ request' = request
    BY <1>1, SameBookings DEF CreateTrip, requestVars
  <2>2. CASE t # u
    BY <1>0, <1>1, <2>1, <2>2 DEF CreateTrip, TypeOK
  <2>3. CASE t = u
    <3>1. ActiveBookings(t) = {}
      BY <1>1, <2>3 DEF CreateTrip, RowsAgree, ActiveBookings, BookingsOf
    <3>2. SeatsTaken(t)' = {}
      BY <2>1, <3>1 DEF SeatsTaken
    <3>3. Cardinality(SeatsTaken(t)') = 0
      BY <3>2, FS_EmptySet
    <3>4. seatsAvailable'[t] = n /\ seatsTotal'[t] = n /\ n \in Nat
      BY <1>1, <2>3, SeatsAssumption DEF CreateTrip, TypeOK
    <3> QED
      BY <3>3, <3>4 DEF Conserved
  <2> QED
    BY <2>2, <2>3
<1>2. ASSUME NEW u \in Trips, CancelTripRead(u) \/ CompleteTripRead(u) \/ Abort(u)
      PROVE  Conserved(t)'
  BY <1>0, <1>2, SameBookings
     DEF CancelTripRead, CompleteTripRead, Abort, OnlyTxnChanges, tripVars, requestVars
<1>3. ASSUME NEW u \in Trips, CancelTripCommit(u)
      PROVE  Conserved(t)'
  <2>1. CASE t # u
    <3>1. ActiveBookings(u) \in SUBSET Requests
          /\ \A b \in ActiveBookings(u) : request[b].trip # t
      BY <2>1 DEF ActiveBookings, BookingsOf
    <3>2. ActiveBookings(t)' = ActiveBookings(t)
      BY <1>3, <3>1, BookingsOfOtherTrips DEF CancelTripCommit, requestVars
    <3> QED
      BY <1>0, <1>3, <2>1, <3>2 DEF CancelTripCommit, requestVars, TypeOK
  <2>2. CASE t = u
    BY <1>3, <2>2 DEF CancelTripCommit, Conserved, TypeOK
  <2> QED
    BY <2>1, <2>2
<1>4. ASSUME NEW u \in Trips, CompleteTripCommit(u)
      PROVE  Conserved(t)'
  <2>1. SeatsTaken(t)' = SeatsTaken(t)
    BY <1>4, SameBookings, SeatsFollowBookings DEF CompleteTripCommit, requestVars
  <2>2. tripStatus[t] = "CANCELLED" => tripStatus'[t] = "CANCELLED"
    BY <1>4 DEF CompleteTripCommit, ReadsStillHold, TypeOK
  <2> QED
    BY <1>4, <2>1, <2>2 DEF CompleteTripCommit, Conserved
<1>5. ASSUME NEW r \in Requests, CancelBookingRead(r)
      PROVE  Conserved(t)'
  BY <1>0, <1>5, SameBookings DEF CancelBookingRead, OnlyTxnChanges, tripVars, requestVars
<1>6. ASSUME NEW r \in Requests, Books(r)
      PROVE  Conserved(t)'
  <2>1. status[r] = "ABSENT" /\ request' = request
    BY <1>6 DEF Books, RowsAgree
  <2>2. CASE t # request[r].trip
    <3>1. ActiveBookings(t)' = ActiveBookings(t)
      BY <1>6, <2>1, <2>2, BookingsOfOtherTrips DEF Books, CreateBooking
    <3> QED
      BY <1>0, <1>6, <2>1, <2>2, <3>1 DEF Books, CreateBooking, TypeOK
  <2>3. CASE t = request[r].trip
    <3>1. ActiveBookings(t)' = ActiveBookings(t) \cup {r}
      BY <1>6, <2>1, <2>3, CreatedBookings DEF Books, CreateBooking
    <3>2. r \notin ActiveBookings(t)
      BY <2>1 DEF ActiveBookings, Active
    <3>3. Cardinality(SeatsTaken(t)') = Cardinality(SeatsTaken(t)) + request[r].seats
      BY <2>1, <2>3, <3>1, <3>2, SeatsAdded
    <3>4. seatsAvailable'[t] = seatsAvailable[t] - request[r].seats
          /\ seatsTotal'[t] = seatsTotal[t] /\ tripStatus'[t] = tripStatus[t]
      BY <1>6, <2>3 DEF Books, CreateBooking, TypeOK
    <3>5. request[r].seats \in Nat
      BY SeatsAssumption DEF TypeOK, Arguments
    <3> QED
      BY <1>a, <1>b, <3>3, <3>4, <3>5 DEF Conserved
  <2> QED
    BY <2>2, <2>3
<1>7. ASSUME NEW b \in Requests, NEW s \in Ended, NEW e \in BookingEvents, EndsOne(b, s, e)
      PROVE  Conserved(t)'
  <2>1. request' = request
    BY <1>7 DEF EndsOne, requestVars
  <2>2. CASE t # request[b].trip
    <3>1. ActiveBookings(t)' = ActiveBookings(t)
      BY <1>7, <2>1, <2>2, BookingsOfOtherTrips DEF EndsOne
    <3> QED
      BY <1>0, <1>7, <2>1, <2>2, <3>1 DEF EndsOne, ReturnSeats, TypeOK
  <2>3. CASE t = request[b].trip
    <3>1. ActiveBookings(t)' = ActiveBookings(t) \ {b}
      BY <1>7, <2>1, <2>3, EndedOne DEF EndsOne
    <3>2. b \in ActiveBookings(t)
      BY <1>7, <2>3 DEF EndsOne, ActiveBookings, BookingsOf, Active
    <3>3. Cardinality(SeatsTaken(t)') = Cardinality(SeatsTaken(t)) - request[b].seats
      BY <2>1, <2>3, <3>1, <3>2, SeatsRemoved
    <3>4. seatsAvailable'[t] = seatsAvailable[t] + request[b].seats
          /\ seatsTotal'[t] = seatsTotal[t] /\ tripStatus'[t] = tripStatus[t]
      BY <1>7, <2>3 DEF EndsOne, ReturnSeats, TypeOK
    <3>5. request[b].seats \in Nat
      BY SeatsAssumption DEF TypeOK, Arguments
    <3> QED
      BY <1>a, <1>b, <3>3, <3>4, <3>5 DEF Conserved
  <2> QED
    BY <2>2, <2>3
<1>8. ASSUME NEW b \in Requests, Confirms(b)
      PROVE  Conserved(t)'
  BY <1>0, <1>8, ConfirmedOne DEF Confirms, requestVars, tripVars
<1>9. CASE LeavesBookings
  BY <1>0, <1>9, SameBookings DEF LeavesBookings, tripVars
<1> HIDE DEF Inv
<1> QED
  BY <1>1, <1>2, <1>3, <1>4, <1>5, <1>6, <1>7, <1>8, <1>9, StepCases DEF StepKinds

-----------------------------------------------------------------------------
\* The database starts empty.
LEMMA InitInv ==
  ASSUME Init
  PROVE  Inv
<1> USE DEF Init
<1>1. \A t \in Trips : ActiveBookings(t) = {} /\ SeatsTaken(t) = {}
  BY DEF ActiveBookings, BookingsOf, SeatsTaken
<1>2. TypeOK
  BY InitType
<1>3. RowsAgree
  BY DEF RowsAgree
<1>4. ReadsStillHold
  BY DEF ReadsStillHold, Free
<1>5. ActiveBookingsAreLegitimate
  BY <1>1 DEF ActiveBookingsAreLegitimate
<1>6. EventsMatchStatus
  BY DEF EventsMatchStatus, EmittedOnce, BookingEvents
<1>7. SeatConservation
  <2>1. Cardinality({}) = 0
    BY FS_EmptySet
  <2>2. \A t \in Trips : Cardinality(SeatsTaken(t)) = 0
    BY <1>1, <2>1
  <2> QED
    BY <2>2 DEF SeatConservation
<1> QED
  BY <1>2, <1>3, <1>4, <1>5, <1>6, <1>7 DEF Inv

\* Inv is inductive: the strengthening under which a transaction's reads, the
\* rows and their events are known well enough to justify each step.
THEOREM Invariant == Spec => []Inv
<1>1. Inv /\ [Next]_vars => Inv'
  BY TypeStep, RowsAgreeStep, ReadsStillHoldStep, ActiveBookingsAreLegitimateStep,
     EventsMatchStatusStep, SeatConservationStep DEF Inv
<1> QED
  BY InitInv, <1>1, PTL DEF Spec

\* No seat is sold twice and none is lost, whatever the interleaving.
THEOREM SeatsAreConserved == Spec => []SeatConservation
<1>1. Inv => SeatConservation
  BY DEF Inv
<1> QED
  BY Invariant, <1>1, PTL

\* One active booking of a passenger on a trip, none on a cancelled one: checked
\* by the code under the trip's lock, with no help from the unique index.
THEOREM BookingsAreLegitimate == Spec => []ActiveBookingsAreLegitimate
<1>1. Inv => ActiveBookingsAreLegitimate
  BY DEF Inv
<1> QED
  BY Invariant, <1>1, PTL

\* Every booking's creation, confirmation and end is published exactly once.
THEOREM EventsArePublishedOnce == Spec => []EventsMatchStatus
<1>1. Inv => EventsMatchStatus
  BY DEF Inv
<1> QED
  BY Invariant, <1>1, PTL

\* What a transaction read under the lock of the trip holds until it commits.
THEOREM ReadsAreStable == Spec => []ReadsStillHold
<1>1. Inv => ReadsStillHold
  BY DEF Inv
<1> QED
  BY Invariant, <1>1, PTL

\* A key never makes two bookings: both would be the booking it has on record.
THEOREM KeysAreUnique == Spec => []OneBookingPerKey
<1>1. Inv => OneBookingPerKey
  BY DEF Inv, RowsAgree, RecordOf, OneBookingPerKey
<1> QED
  BY Invariant, <1>1, PTL

\* A booking only ever changes along ValidTransitions.
THEOREM TransitionsAreLegal == Spec => LegalTransitions
<1>1. ASSUME Inv, [Next]_vars, NEW b \in Requests,
             status'[b] # status[b], status[b] # "ABSENT"
      PROVE  <<status[b], status'[b]>> \in ValidTransitions
  <2> USE <1>1 DEF Inv, ValidTransitions
  <2>1. status[b] \in BookingStatus /\ request \in [Requests -> Arguments]
    BY DEF TypeOK
  <2>2. ASSUME NEW u \in Trips, CancelTripCommit(u)
        PROVE  <<status[b], status'[b]>> \in ValidTransitions
    <3>1. b \in ActiveBookings(u) /\ status'[b] = "CANCELLED"
      BY <2>2 DEF CancelTripCommit, SetStatus
    <3> QED
      BY <3>1 DEF ActiveBookings, Active
  <2>3. ASSUME NEW r \in Requests, Books(r)
        PROVE  FALSE
    BY <2>3 DEF Books, CreateBooking, SetStatus, RowsAgree
  <2>4. ASSUME NEW c \in Requests, NEW s \in Ended, NEW e \in BookingEvents, EndsOne(c, s, e)
        PROVE  <<status[b], status'[b]>> \in ValidTransitions
    <3>1. b = c /\ status'[b] = s /\ status[b] \in Active
      BY <2>4 DEF EndsOne, SetStatus
    <3> QED
      BY <2>4, <3>1 DEF EndsOne, Active, Ended
  <2>5. ASSUME NEW c \in Requests, Confirms(c)
        PROVE  <<status[b], status'[b]>> \in ValidTransitions
    BY <2>5 DEF Confirms, SetStatus
  <2>6. status' # status
    BY DEF TypeOK
  <2> HIDE DEF Inv, ValidTransitions
  <2> QED
    BY <1>1, <2>2, <2>3, <2>4, <2>5, <2>6, StepCases
       DEF StepKinds, CreateTrip, CancelTripRead, CompleteTripRead, Abort, CompleteTripCommit,
           CancelBookingRead, OnlyTxnChanges, LeavesBookings
<1> DEFINE Legal == \A b \in Requests :
                      status'[b] # status[b] /\ status[b] # "ABSENT" =>
                        <<status[b], status'[b]>> \in ValidTransitions
<1>2. Inv /\ [Next]_vars => [Legal]_vars
  BY <1>1
<1> QED
  BY Invariant, <1>2, PTL DEF Spec, LegalTransitions

\* Whoever trip.completed lists has a confirmed booking: what the transaction
\* listed under the lock is still confirmed when it commits.
THEOREM CompletedListsConfirmed == Spec => ListedAreConfirmed
<1>1. ASSUME Inv, [Next]_vars, NEW t \in Trips,
             tripStatus[t] # "COMPLETED", tripStatus'[t] = "COMPLETED"
      PROVE  completedWith'[t] \subseteq ConfirmedBookings(t)
  <2> USE <1>1 DEF Inv
  <2>1. ASSUME NEW u \in Trips, NEW n \in 1..MaxSeats, CreateTrip(u, n) PROVE FALSE
    BY <2>1 DEF CreateTrip, TypeOK
  <2>2. ASSUME NEW u \in Trips, CancelTripCommit(u) PROVE FALSE
    BY <2>2 DEF CancelTripCommit, TypeOK
  <2>3. ASSUME NEW u \in Trips, CompleteTripCommit(u)
        PROVE  completedWith'[t] \subseteq ConfirmedBookings(t)
    <3>1. t = u
      BY <2>3 DEF CompleteTripCommit, TypeOK
    <3>2. completedWith'[t] = txn[t].rows
      BY <2>3, <3>1 DEF CompleteTripCommit, TypeOK
    <3> QED
      BY <2>3, <3>1, <3>2 DEF CompleteTripCommit, ReadsStillHold
  <2>4. tripStatus' # tripStatus
    OBVIOUS
  <2> HIDE DEF Inv
  <2> QED
    BY <1>1, <2>1, <2>2, <2>3, <2>4, StepCases
       DEF StepKinds, CancelTripRead, CompleteTripRead, Abort, CancelBookingRead,
           OnlyTxnChanges, LeavesBookings, tripVars, Books, EndsOne, Confirms
<1> DEFINE Listed == \A t \in Trips :
                       tripStatus[t] # "COMPLETED" /\ tripStatus'[t] = "COMPLETED" =>
                         completedWith'[t] \subseteq ConfirmedBookings(t)
<1>2. Inv /\ [Next]_vars => [Listed]_vars
  BY <1>1
<1> QED
  BY Invariant, <1>2, PTL DEF Spec, ListedAreConfirmed

-----------------------------------------------------------------------------
\* The bookings and the seats BookingLifecycle counts are the ones counted here.
LEMMA SamePromises ==
  ASSUME NEW t \in Trips
  PROVE  /\ Lifecycle!On(t, Lifecycle!Active) = ActiveBookings(t)
         /\ Lifecycle!On(t, {"CONFIRMED"}) = ConfirmedBookings(t)
         /\ Lifecycle!Taken(t) = SeatsTaken(t)
<1>1. /\ Lifecycle!On(t, Lifecycle!Active) = ActiveBookings(t)
      /\ Lifecycle!On(t, {"CONFIRMED"}) = ConfirmedBookings(t)
  BY DEF Lifecycle!On, Lifecycle!Active, ActiveBookings, ConfirmedBookings, BookingsOf, Active
<1>2. ActiveBookings(t) \subseteq Requests
  BY DEF ActiveBookings, BookingsOf
<1>3. Lifecycle!Taken(t) = SeatsTaken(t)
  BY <1>1, <1>2 DEF Lifecycle!Taken, SeatsTaken
<1> QED
  BY <1>1, <1>3

\* BookingLifecycle counts with a Cardinality of its own, defined the same.
LEMMA SameCount ==
  ASSUME NEW S
  PROVE  Lifecycle!Cardinality(S) = Cardinality(S)
  BY DEF Lifecycle!Cardinality, Cardinality

\* A status set with its event is what BookingLifecycle calls a move.
LEMMA SameMove ==
  ASSUME NEW bs, NEW to, NEW e,
         SetStatus(bs, to), Publish(e, bs), UNCHANGED request
  PROVE  Lifecycle!Move(bs, to, e)
  BY DEF SetStatus, Publish, Lifecycle!Move

\* The checks of the transaction under the trip's lock, and the unique key, say
\* what a booking needs: the counter of free seats is right, and a record of the
\* key exists if it was ever booked with.
LEMMA BooksRefines ==
  ASSUME Inv, NEW r \in Requests, Books(r)
  PROVE  Lifecycle!Book(r)
<1> DEFINE t == request[r].trip
<1> USE DEF Inv
<1>1. /\ t \in Trips /\ request[r].seats \in Nat
      /\ seatsAvailable[t] \in Nat /\ seatsTotal[t] \in Nat
  BY SeatsAssumption DEF TypeOK, Arguments
<1>2. status[r] = "ABSENT" /\ tripStatus[t] = "ACTIVE"
  BY DEF Books, RowsAgree
<1>3. Lifecycle!Fits(r)
  <2>1. seatsAvailable[t] + Cardinality(SeatsTaken(t)) = seatsTotal[t]
    BY <1>1, <1>2 DEF SeatConservation
  <2>2. seatsAvailable[t] >= request[r].seats
    BY DEF Books, EnoughSeats
  <2>3. Cardinality(SeatsTaken(t)) \in Nat
    BY <1>1, SeatsTakenFinite, FS_CardinalityType
  <2>4. Cardinality(SeatsTaken(t)) + request[r].seats <= seatsTotal[t]
    BY <1>1, <2>1, <2>2, <2>3
  <2> QED
    BY <1>1, <2>4, SamePromises, SameCount DEF Lifecycle!Fits
<1>4. ASSUME NEW b \in Requests, request[b].passenger = request[r].passenger,
             b \in ActiveBookings(t)
      PROVE  FALSE
  BY <1>4 DEF Books, HasActiveBooking
<1>5. ASSUME NEW b \in Requests, request[b].passenger = request[r].passenger,
             status[b] # "ABSENT", request[b].key = request[r].key, request[r].key # NoKey
      PROVE  FALSE
  <2>1. RecordOf(b) = b
    BY <1>5 DEF RowsAgree
  <2>2. RecordOf(b) = RecordOf(r)
    BY <1>5 DEF RecordOf
  <2> QED
    BY <2>1, <2>2, RequestsAssumption DEF Books
<1>6. Lifecycle!Rivals(r) = {}
  BY <1>1, <1>4, <1>5, SamePromises DEF Lifecycle!Rivals
<1>7. Lifecycle!Move({r}, "PENDING_PAYMENT", "booking.created")
  BY SameMove DEF Books, CreateBooking
<1> QED
  BY <1>2, <1>3, <1>6, <1>7 DEF Lifecycle!Book, Lifecycle!tripVars, Books, tripEventVars

\* Whichever transaction ends a booking, it ends it once.
LEMMA EndsOneRefines ==
  ASSUME NEW b \in Requests, NEW s \in Ended, NEW e \in BookingEvents, EndsOne(b, s, e)
  PROVE  Lifecycle!End(b)
<1>1. Lifecycle!Move({b}, s, e)
  BY SameMove DEF EndsOne, requestVars
<1>2. Lifecycle!Active = Active
  BY DEF Lifecycle!Active, Active
<1>3. UNCHANGED Lifecycle!tripVars
  BY DEF EndsOne, tripEventVars, Lifecycle!tripVars
<1>4. \/ status[b] \in Active /\ s = "CANCELLED" /\ e = "booking.cancelled"
      \/ status[b] = "PENDING_PAYMENT" /\ s = "EXPIRED" /\ e = "booking.expired"
  BY DEF EndsOne
<1> QED
  BY <1>1, <1>2, <1>3, <1>4 DEF Lifecycle!End

\* The bookings cancelled are those active at the commit, the ones told those
\* read before: they are the same.
LEMMA CancelTripRefines ==
  ASSUME Inv, NEW t \in Trips, CancelTripCommit(t)
  PROVE  Lifecycle!CancelTrip(t)
<1>1. tripStatus[t] = "ACTIVE" /\ txn[t].rows = ActiveBookings(t)
  BY DEF Inv, ReadsStillHold, CancelTripCommit
<1>2. Lifecycle!Move(ActiveBookings(t), "CANCELLED", "booking.cancelled")
  BY <1>1, SameMove DEF CancelTripCommit, requestVars
<1> QED
  BY <1>1, <1>2, SamePromises DEF Lifecycle!CancelTrip, CancelTripCommit

\* The bookings listed were confirmed when they were read, and still are.
LEMMA CompleteTripRefines ==
  ASSUME Inv, NEW t \in Trips, CompleteTripCommit(t)
  PROVE  Lifecycle!CompleteTrip(t)
<1>1. tripStatus[t] = "ACTIVE" /\ txn[t].rows \in SUBSET ConfirmedBookings(t)
  BY DEF Inv, ReadsStillHold, CompleteTripCommit
<1>2. \E bs \in SUBSET Lifecycle!On(t, {"CONFIRMED"}) :
         completedWith' = [completedWith EXCEPT ![t] = bs]
  BY <1>1, SamePromises DEF CompleteTripCommit
<1> QED
  BY <1>1, <1>2 DEF Lifecycle!CompleteTrip, CompleteTripCommit, requestVars

\* Every step is an operation of BookingLifecycle, or changes nothing it sees.
LEMMA StepRefines ==
  ASSUME Inv, [Next]_vars
  PROVE  [Lifecycle!Next]_(Lifecycle!vars)
<1>1. ASSUME NEW t \in Trips, NEW n \in 1..MaxSeats, CreateTrip(t, n)
      PROVE  Lifecycle!Open(t, n)
  BY <1>1 DEF CreateTrip, requestVars, tripEventVars, Lifecycle!Open
<1>2. ASSUME OnlyTxnChanges \/ LeavesBookings
      PROVE  UNCHANGED Lifecycle!vars
  BY <1>2 DEF OnlyTxnChanges, LeavesBookings, tripVars, requestVars, tripEventVars, Lifecycle!vars
<1>3. ASSUME NEW t \in Trips, CancelTripRead(t) \/ CompleteTripRead(t) \/ Abort(t)
      PROVE  OnlyTxnChanges
  BY <1>3 DEF CancelTripRead, CompleteTripRead, Abort
<1>4. ASSUME NEW r \in Requests, CancelBookingRead(r)
      PROVE  OnlyTxnChanges
  BY <1>4 DEF CancelBookingRead
<1>5. ASSUME NEW b \in Requests, Confirms(b)
      PROVE  Lifecycle!Confirm(b)
  BY <1>5, SameMove
     DEF Confirms, tripVars, requestVars, tripEventVars, Lifecycle!Confirm, Lifecycle!tripVars
<1> QED
  BY <1>1, <1>2, <1>3, <1>4, <1>5, StepCases, BooksRefines, EndsOneRefines,
     CancelTripRefines, CompleteTripRefines
     DEF StepKinds, Lifecycle!Next

\* Locks, transactions, the counter, the keys and the order of events are the
\* service's own business: to others each step is one operation done whole.
THEOREM BookingPromiseIsKept == Spec => KeepsBookingPromise
<1>1. Init => Lifecycle!Init
  BY DEF Init, Lifecycle!Init, Arguments, BookingEvents, TripEvents,
         Lifecycle!BookingEvents, Lifecycle!TripEvents
<1>2. Inv /\ [Next]_vars => [Lifecycle!Next]_(Lifecycle!vars)
  BY StepRefines
<1> QED
  BY <1>1, <1>2, Invariant, PTL DEF Spec, KeepsBookingPromise, Lifecycle!Spec
=============================================================================
