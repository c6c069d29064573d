------------------------- MODULE BookingSagaProofs -------------------------
(***************************************************************************)
(* What trips-service and payments-service promise together, for every set *)
(* of bookings, trips, holds and operations, checked by TLAPS.  Each side  *)
(* keeps what it promises alone (TripBookingProofs, PaymentIntentProofs);  *)
(* what is added here is what one side may conclude from an event of the   *)
(* other.                                                                  *)
(***************************************************************************)
EXTENDS BookingSaga, PaymentIntentProofs

\* The theorems of trips-service, about the same tables as Booking.
Booked == INSTANCE TripBookingProofs
  WITH Requests <- Intents, Keys <- {}, NoKey <- NoHold, NoBooking <- NoIntent,
       EventIds <- Intents \X Answers, status <- booking, consumed <- heard, emitted <- told

\* The events of a hold, and of one that failed.
Held == "payment.intent.hold_placed"
Broken == "payment.intent.failed"

-----------------------------------------------------------------------------
(* Each side alone                                                         *)

\* Booking and Booked are the same module, instantiated twice.
LEMMA SameTrips ==
  /\ Booking!Init = Booked!Init
  /\ Booking!Next = Booked!Next
  /\ \A e, b : Booking!HoldPlaced(e, b) = Booked!HoldPlaced(e, b)
  /\ \A e, b : Booking!IntentFailed(e, b) = Booked!IntentFailed(e, b)
  BY DEF
    Booking!tripVars, Booked!tripVars, Booking!requestVars,
    Booked!requestVars, Booking!tripEventVars, Booked!tripEventVars, Booking!Active,
    Booked!Active, Booking!BookingEvents, Booked!BookingEvents, Booking!TripEvents,
    Booked!TripEvents, Booking!Arguments, Booked!Arguments, Booking!Free,
    Booked!Free, Booking!BookingsOf, Booked!BookingsOf, Booking!ActiveBookings,
    Booked!ActiveBookings, Booking!ConfirmedBookings, Booked!ConfirmedBookings,
    Booking!Unlocked, Booked!Unlocked, Booking!Publish, Booked!Publish,
    Booking!SetStatus, Booked!SetStatus, Booking!ReturnSeats, Booked!ReturnSeats,
    Booking!Init, Booked!Init, Booking!CreateTrip, Booked!CreateTrip,
    Booking!RecordOf, Booked!RecordOf, Booking!CheckKey, Booked!CheckKey,
    Booking!EnoughSeats, Booked!EnoughSeats, Booking!HasActiveBooking,
    Booked!HasActiveBooking, Booking!ViolatesUniqueKey, Booked!ViolatesUniqueKey,
    Booking!Refuse, Booked!Refuse, Booking!CreateBooking, Booked!CreateBooking,
    Booking!BookSeat, Booked!BookSeat, Booking!BookSeatFails, Booked!BookSeatFails,
    Booking!Begin, Booked!Begin, Booking!OnlyTxnChanges, Booked!OnlyTxnChanges,
    Booking!CancelBookingRead, Booked!CancelBookingRead,
    Booking!CancelBookingCommit, Booked!CancelBookingCommit, Booking!CancelTripRead,
    Booked!CancelTripRead, Booking!CancelTripCommit, Booked!CancelTripCommit,
    Booking!CompleteTripRead, Booked!CompleteTripRead, Booking!CompleteTripCommit,
    Booked!CompleteTripCommit, Booking!Abort, Booked!Abort, Booking!Consume,
    Booked!Consume, Booking!HoldPlaced, Booked!HoldPlaced, Booking!IntentFailed,
    Booked!IntentFailed, Booking!StillPending, Booked!StillPending, Booking!Expire,
    Booked!Expire, Booking!Next, Booked!Next

\* A step of the saga is a step of trips-service or leaves its tables alone.
LEMMA TripsStep ==
  ASSUME [SagaNext]_sagaVars
  PROVE  [Booked!Next]_(Booked!vars)
<1>1. ASSUME TripsActs PROVE Booked!Next
  BY <1>1, SameTrips DEF TripsActs
<1>2. ASSUME NEW b \in Intents, TripsHears(b) PROVE Booked!Next
  BY <1>2, SameTrips DEF TripsHears, Booked!Next, Answers
<1>3. ASSUME UNCHANGED tripsVars PROVE UNCHANGED Booked!vars
  BY <1>3 DEF tripsVars, Booked!vars
<1> QED
  BY <1>1, <1>2, <1>3
  DEF SagaNext, Calm, PaymentsActs, PaymentsHears, PaymentsFail, sagaVars

\* A step of the saga is a step of payments-service or leaves its tables alone.
LEMMA PaymentsStep ==
  ASSUME [SagaNext]_sagaVars
  PROVE  [Next]_vars
<1>1. ASSUME PaymentsActs PROVE Next
  BY <1>1 DEF PaymentsActs, Next
<1>2. ASSUME NEW b \in Intents, PaymentsHears(b) PROVE Next
  BY <1>2 DEF PaymentsHears, Next
<1>3. ASSUME PaymentsFail PROVE Next
  BY <1>3 DEF PaymentsFail, Next
<1> QED
  BY <1>1, <1>2, <1>3 DEF SagaNext, Calm, TripsActs, TripsHears, sagaVars

\* So each side keeps its own invariant.
LEMMA SidesAreSound == SagaSpec => [](Inv /\ Booked!Inv)
<1>1. Spec => []Inv
  BY Invariant
<1>2. Booked!Spec => []Booked!Inv
  BY BookingsAssumption, IntentsAssumption, Booked!Invariant
  DEF Booked!Invariant, Booked!IsFiniteSet, IsFiniteSet
<1>3. SagaInit => Init /\ Booked!Init
  BY SameTrips DEF SagaInit
<1>4. [SagaNext]_sagaVars => [Next]_vars
  BY PaymentsStep
<1>5. [SagaNext]_sagaVars => [Booked!Next]_(Booked!vars)
  BY TripsStep
<1> QED
  BY <1>1, <1>2, <1>3, <1>4, <1>5, PTL DEF SagaSpec, Spec, Booked!Spec

-----------------------------------------------------------------------------
(* What an event of the other side says                                    *)

\* A booking comes before its payment.
BookedBeforePaid ==
  \A b \in Intents : status[b] # "ABSENT" => told[b]["booking.created"] > 0

\* trips-service has heard only what payments-service has said.
HeardWasSaid ==
  \A b \in Intents, e \in Answers : <<b, e>> \in heard => emitted[b][e] > 0

\* It has said "confirmed" only after it heard of a hold.
ConfirmedWasHeard ==
  \A b \in Intents : told[b]["booking.confirmed"] > 0 => <<b, Held>> \in heard

\* A booking whose payment failed does not wait for it.
FailureWasHeard ==
  \A b \in Intents : <<b, Broken>> \in heard => booking[b] # "PENDING_PAYMENT"

\* A hold is placed for an intent, or its placement failed, but never both.
PlacedOrBroken ==
  \A b \in Intents :
    /\ emitted[b][Held] > 0 => pspId[b] # NoHold
    /\ emitted[b][Broken] > 0 => pspId[b] = NoHold

\* Money is taken, or about to be, for a seat that was confirmed.
TakenForSeats ==
  /\ \A s \in Slots :
       slot[s].op = "capture" => told[slot[s].intent]["booking.confirmed"] > 0
  /\ \A h \in Holds :
       holdFor[h] \in Intents /\ ledger[h] \in Taken =>
         told[holdFor[h]]["booking.confirmed"] > 0

\* What the two sides know of each other.
Known ==
  /\ BookedBeforePaid
  /\ HeardWasSaid
  /\ ConfirmedWasHeard
  /\ FailureWasHeard
  /\ PlacedOrBroken
  /\ TakenForSeats

-----------------------------------------------------------------------------
(* What a step of one side does to what the other relies on                *)

\* The actions of trips-service by name.
LEMMA BookedCases ==
  ASSUME Booked!Next
  PROVE  \/ \E t \in Trips, n \in 1..MaxSeats : Booked!CreateTrip(t, n)
         \/ \E t \in Trips : Booked!CancelTripRead(t) \/ Booked!CompleteTripRead(t)
                              \/ Booked!CompleteTripCommit(t) \/ Booked!Abort(t)
         \/ \E t \in Trips : Booked!CancelBookingCommit(t)
         \/ \E t \in Trips : Booked!CancelTripCommit(t)
         \/ \E r \in Intents : Booked!CheckKey(r) \/ Booked!BookSeatFails(r)
                               \/ Booked!CancelBookingRead(r)
         \/ \E r \in Intents : Booked!BookSeat(r)
         \/ \E r \in Intents : Booked!Expire(r)
         \/ \E e \in Intents \X Answers, r \in Intents : Booked!HoldPlaced(e, r)
         \/ \E e \in Intents \X Answers, r \in Intents : Booked!IntentFailed(e, r)
  BY DEF Booked!Next

\* What a step of trips-service publishes: nothing, or a row for some bookings.
LEMMA ToldSteps ==
  ASSUME [Booked!Next]_(Booked!vars)
  PROVE  \/ told' = told
         \/ \E e \in {"booking.created", "booking.cancelled", "booking.expired"} : \E bs :
              Booked!Publish(e, bs)
         \/ \E e \in Intents \X Answers, b \in Intents :
              Booked!HoldPlaced(e, b) /\ Booked!Publish("booking.confirmed", {b})
<1>1. ASSUME NEW r \in Intents, Booked!BookSeat(r)
      PROVE  told' = told \/ Booked!Publish("booking.created", {r})
  BY <1>1 DEF Booked!BookSeat, Booked!Refuse, Booked!CreateBooking
<1>2. ASSUME NEW e \in Intents \X Answers, NEW b \in Intents, Booked!HoldPlaced(e, b)
      PROVE  told' = told \/ Booked!Publish("booking.confirmed", {b})
  BY <1>2 DEF Booked!HoldPlaced
<1>3. ASSUME NEW t \in Trips, Booked!CancelBookingCommit(t) \/ Booked!CancelTripCommit(t)
      PROVE  \E bs : Booked!Publish("booking.cancelled", bs)
  BY <1>3 DEF Booked!CancelBookingCommit, Booked!CancelTripCommit
<1>4. ASSUME NEW e \in Intents \X Answers, NEW b \in Intents, Booked!IntentFailed(e, b)
      PROVE  told' = told \/ Booked!Publish("booking.cancelled", {b})
  BY <1>4 DEF Booked!IntentFailed
<1>5. ASSUME NEW b \in Intents, Booked!Expire(b)
      PROVE  Booked!Publish("booking.expired", {b})
  BY <1>5 DEF Booked!Expire
<1>6. ASSUME \/ \E t \in Trips, n \in 1..MaxSeats : Booked!CreateTrip(t, n)
             \/ \E t \in Trips : Booked!CancelTripRead(t) \/ Booked!CompleteTripRead(t)
                                  \/ Booked!CompleteTripCommit(t) \/ Booked!Abort(t)
             \/ \E r \in Intents : Booked!CheckKey(r) \/ Booked!BookSeatFails(r)
                                   \/ Booked!CancelBookingRead(r)
             \/ UNCHANGED Booked!vars
      PROVE  told' = told
  BY <1>6
  DEF Booked!CreateTrip, Booked!CancelTripRead, Booked!CompleteTripRead, Booked!vars,
      Booked!CompleteTripCommit, Booked!Abort, Booked!CheckKey, Booked!BookSeatFails,
      Booked!Refuse, Booked!CancelBookingRead, Booked!OnlyTxnChanges
<1> QED
  BY <1>1, <1>2, <1>3, <1>4, <1>5, <1>6, BookedCases

\* Nothing that was published is taken back, and booking.confirmed is published
\* only by the handler of a placed hold.
LEMMA ToldStays ==
  ASSUME Booked!Inv, [Booked!Next]_(Booked!vars), NEW b \in Intents
  PROVE  /\ told'[b]["booking.created"] >= told[b]["booking.created"]
         /\ told'[b]["booking.confirmed"] >= told[b]["booking.confirmed"]
         /\ \/ told'[b]["booking.confirmed"] = told[b]["booking.confirmed"]
            \/ \E e \in Intents \X Answers : Booked!HoldPlaced(e, b)
<1> DEFINE Stays(e) == told'[b][e] \in {told[b][e], told[b][e] + 1}
<1>1. told \in [Intents -> [Booked!BookingEvents -> Nat]]
  BY DEF Booked!Inv, Booked!TypeOK
<1>2. ASSUME NEW bs, NEW type \in Booked!BookingEvents, Booked!Publish(type, bs)
      PROVE  /\ \A e \in Booked!BookingEvents : Stays(e)
             /\ \A e \in Booked!BookingEvents \ {type} : told'[b][e] = told[b][e]
             /\ b \notin bs => told'[b] = told[b]
  BY <1>1, <1>2 DEF Booked!Publish
<1>3. {"booking.created", "booking.confirmed", "booking.cancelled", "booking.expired"}
        \subseteq Booked!BookingEvents
  BY DEF Booked!BookingEvents
<1>4. told[b]["booking.created"] \in Nat /\ told[b]["booking.confirmed"] \in Nat
  BY <1>1, <1>3
<1> DEFINE Kept ==
      /\ told'[b]["booking.created"] >= told[b]["booking.created"]
      /\ told'[b]["booking.confirmed"] >= told[b]["booking.confirmed"]
      /\ \/ told'[b]["booking.confirmed"] = told[b]["booking.confirmed"]
         \/ \E e \in Intents \X Answers : Booked!HoldPlaced(e, b)
<1>5. ASSUME told' = told PROVE Kept
  BY <1>4, <1>5
<1>6. ASSUME NEW e \in {"booking.created", "booking.cancelled", "booking.expired"}, NEW bs,
             Booked!Publish(e, bs)
      PROVE  Kept
  <2>1. Stays("booking.created") /\ told'[b]["booking.confirmed"] = told[b]["booking.confirmed"]
    BY <1>2, <1>3, <1>6
  <2> QED
    BY <1>4, <2>1
<1>7. ASSUME NEW e \in Intents \X Answers, NEW c \in Intents, Booked!HoldPlaced(e, c),
             Booked!Publish("booking.confirmed", {c})
      PROVE  Kept
  <2>1. Stays("booking.created") /\ Stays("booking.confirmed")
    BY <1>2, <1>3, <1>7
  <2>2. \/ told'[b]["booking.confirmed"] = told[b]["booking.confirmed"]
        \/ \E x \in Intents \X Answers : Booked!HoldPlaced(x, b)
    BY <1>2, <1>3, <1>7
  <2> QED
    BY <1>4, <2>1, <2>2
<1> HIDE DEF Kept
<1>8. Kept
  BY <1>5, <1>6, <1>7, ToldSteps
<1> QED
  BY <1>8 DEF Kept

\* A booking waits for its payment from the start, or never again.
LEMMA PendingIsFirst ==
  ASSUME Booked!Inv, [Booked!Next]_(Booked!vars), NEW b \in Intents,
         told[b]["booking.created"] > 0, booking[b] # "PENDING_PAYMENT"
  PROVE  booking'[b] # "PENDING_PAYMENT"
<1>0. booking[b] # "ABSENT" /\ booking \in [Intents -> Booked!BookingStatus]
  BY DEF Booked!Inv, Booked!TypeOK, Booked!EventsMatchStatus, Booked!EmittedOnce
<1>1. ASSUME NEW r \in Intents, Booked!BookSeat(r) PROVE booking'[b] # "PENDING_PAYMENT"
  BY <1>0, <1>1
  DEF Booked!BookSeat, Booked!Refuse, Booked!CreateBooking, Booked!SetStatus, Booked!Inv,
      Booked!RowsAgree
<1>2. ASSUME NEW bs, NEW s \in {"CONFIRMED", "CANCELLED", "EXPIRED"}, Booked!SetStatus(bs, s)
      PROVE  booking'[b] # "PENDING_PAYMENT"
  BY <1>2 DEF Booked!SetStatus
<1>3. ASSUME NEW e, NEW r \in Intents, Booked!HoldPlaced(e, r) \/ Booked!IntentFailed(e, r)
      PROVE  booking'[b] # "PENDING_PAYMENT"
  BY <1>2, <1>3 DEF Booked!HoldPlaced, Booked!IntentFailed
<1>4. ASSUME NEW t \in Trips, Booked!CancelBookingCommit(t) \/ Booked!CancelTripCommit(t)
      PROVE  booking'[b] # "PENDING_PAYMENT"
  BY <1>2, <1>4 DEF Booked!CancelBookingCommit, Booked!CancelTripCommit
<1>5. ASSUME NEW r \in Intents, Booked!Expire(r) PROVE booking'[b] # "PENDING_PAYMENT"
  BY <1>2, <1>5 DEF Booked!Expire
<1>6. ASSUME \/ \E t \in Trips, n \in 1..MaxSeats : Booked!CreateTrip(t, n)
             \/ \E t \in Trips : Booked!CancelTripRead(t) \/ Booked!CompleteTripRead(t)
                                  \/ Booked!CompleteTripCommit(t) \/ Booked!Abort(t)
             \/ \E r \in Intents : Booked!CheckKey(r) \/ Booked!BookSeatFails(r)
                                   \/ Booked!CancelBookingRead(r)
             \/ UNCHANGED Booked!vars
      PROVE  booking'[b] # "PENDING_PAYMENT"
  BY <1>6
  DEF Booked!CreateTrip, Booked!CancelTripRead, Booked!CompleteTripRead, Booked!vars,
      Booked!CompleteTripCommit, Booked!Abort, Booked!CheckKey, Booked!BookSeatFails,
      Booked!Refuse, Booked!CancelBookingRead, Booked!OnlyTxnChanges
<1> QED
  BY <1>1, <1>3, <1>4, <1>5, <1>6, BookedCases

\* What a step of payments-service announces: an answer once given stays given; a
\* hold it speaks of is the intent's; a failure means that there is none.
LEMMA EmittedStays ==
  ASSUME Inv, [Next]_vars, NEW i \in Intents
  PROVE  /\ \A e \in PaymentEvents : emitted'[i][e] >= emitted[i][e]
         /\ emitted'[i][Held] # emitted[i][Held] => pspId'[i] # NoHold
         /\ pspId'[i] # pspId[i] => pspId'[i] # NoHold /\ status[i] \in Waiting
<1>1. StepMoves
  BY Movements DEF Inv
<1>2. CASE UNCHANGED rows
  BY <1>2 DEF rows, Inv, TypeOK
<1>3. ASSUME NEW j \in Intents, RowMove(j)
      PROVE  /\ \A e \in PaymentEvents : emitted'[i][e] >= emitted[i][e]
             /\ emitted'[i][Held] # emitted[i][Held] => pspId'[i] # NoHold
             /\ pspId'[i] # pspId[i] => pspId'[i] # NoHold /\ status[i] \in Waiting
  <2>1. ASSUME NEW e \in PaymentEvents, Publish(j, e)
        PROVE  /\ \A f \in PaymentEvents : emitted'[i][f] >= emitted[i][f]
               /\ e # Held => emitted'[i][Held] = emitted[i][Held]
               /\ j # i => emitted'[i] = emitted[i]
    BY <2>1 DEF Publish, Inv, TypeOK, PaymentEvents, Held
  <2>2. ASSUME UNCHANGED emitted PROVE \A f \in PaymentEvents : emitted'[i][f] >= emitted[i][f]
    BY <2>2 DEF Inv, TypeOK
  <2>3. ASSUME NEW s \in Slots, PlacedBy(s, j)
        PROVE  /\ pspId'[j] # NoHold /\ status[j] \in Waiting
               /\ \A k \in Intents : k # j => pspId'[k] = pspId[k]
               /\ Publish(j, "payment.intent.hold_placed")
    BY <2>3 DEF PlacedBy, Moves, Waiting, Placing, Inv, TypeOK, SlotsAreSound, SlotShape, Idle
  <2>4. CASE \E s \in Slots : PlacedBy(s, j)
    BY <2>1, <2>3, <2>4 DEF PaymentEvents
  <2>5. CASE UNCHANGED <<pspId, emitted>>
    BY <2>2, <2>5
  <2>6. CASE /\ UNCHANGED pspId
             /\ \E e \in PaymentEvents \ {Held} : Publish(j, e)
    BY <2>1, <2>6
  <2> QED
    BY <1>3, <2>4, <2>5, <2>6 DEF RowMove, PaymentEvents, Held
<1> QED
  BY <1>1, <1>2, <1>3 DEF StepMoves

\* payment.intent.failed is the worker's word for a placement that failed.
LEMMA FailureStep ==
  ASSUME Inv, [Next]_vars, NEW i \in Intents, emitted'[i][Broken] # emitted[i][Broken]
  PROVE  status[i] = "HOLD_REQUESTED" /\ pspId' = pspId
<1> USE DEF Broken
<1>1. ASSUME NEW s \in Slots, Commit(s)
      PROVE  RecordHoldFailure(s)
  <2>1. ASSUME NEW allowed, NEW e \in PaymentEvents \ {"payment.intent.failed"},
               Settle(s, allowed, e)
        PROVE  FALSE
    BY <2>1 DEF Settle, Publish, Inv, TypeOK, PaymentEvents
  <2>2. Reconciled(slot[s].to) \in PaymentEvents \ {"payment.intent.failed"}
    BY DEF Reconciled, PaymentEvents
  <2> QED
    BY <1>1, <2>1, <2>2
    DEF Commit, CommitCapture, CommitCancel, CommitCancelHold, CommitCancelByPayer,
        CommitRefund, CommitHold, CommitReconcile, RecordCreateFailure, PaymentEvents
<1>2. ASSUME NEW s \in Slots, RecordHoldFailure(s)
      PROVE  status[i] = "HOLD_REQUESTED" /\ pspId' = pspId
  BY <1>2 DEF RecordHoldFailure, Still, Publish, Inv, TypeOK, PaymentEvents
<1>3. \E s \in Slots : Commit(s)
  BY NextCases
  DEF vars, BookingCreated, BookingConfirmed, BookingEnded, DisputeResolved, CreateIntent,
      CaptureIntent, CancelIntent, RefundIntent, PlaceHold, Reconcile, PspAnswers, PspFails,
      PspReports, Crash, PspDropsHold, Webhook
<1> QED
  BY <1>1, <1>2, <1>3

\* In the saga a capture begins with booking.confirmed.
LEMMA CaptureStep ==
  ASSUME Inv, [SagaNext]_sagaVars, NEW s \in Slots, slot'[s].op = "capture"
  PROVE  \/ slot[s].op = "capture" /\ slot'[s].intent = slot[s].intent
         \/ /\ slot'[s].intent \in Intents
            /\ told[slot'[s].intent]["booking.confirmed"] > 0
<1> DEFINE Continues(t) == slot[t].op = "capture" /\ slot'[t].intent = slot[t].intent
           Starts(t) == /\ slot'[t].intent \in Intents
                        /\ told[slot'[t].intent]["booking.confirmed"] > 0
<1>0. slot \in [Slots -> Slot]
  BY DEF Inv, TypeOK
<1>1. ASSUME NEW t \in Slots, NEW i \in Intents, NEW op, NEW at, NEW to,
             Begin(t, op, i, at, to), op = "capture" => told[i]["booking.confirmed"] > 0
      PROVE  Continues(s) \/ Starts(s)
  BY <1>0, <1>1 DEF Begin
<1>2. ASSUME NEW t \in Slots, Ends(t) PROVE Continues(s) \/ Starts(s)
  BY <1>0, <1>2 DEF Ends, Idle
<1>3. ASSUME UNCHANGED slot PROVE Continues(s) \/ Starts(s)
  BY <1>3
<1>4. ASSUME NEW b \in Intents, PaymentsHears(b) PROVE Continues(s) \/ Starts(s)
  BY <1>1, <1>3, <1>4
  DEF PaymentsHears, Published, BookingCreated, BookingConfirmed, BookingEnded
<1>5. ASSUME NEW t \in Slots, NEW b \in Intents, PlaceHold(t, b) \/ Reconcile(t, b)
      PROVE  Continues(s) \/ Starts(s)
  BY <1>1, <1>5 DEF PlaceHold, Reconcile
<1>6. ASSUME NEW t \in Slots, PspAnswers(t) \/ PspFails(t) \/ PspReports(t)
      PROVE  Continues(s) \/ Starts(s)
  <2>1. Ends(t) \/ Continues(s)
    BY <1>0, <1>6 DEF PspAnswers, PspFails, AfterFailure, PspReports, Slot
  <2> QED
    BY <1>2, <2>1
<1>7. ASSUME NEW t \in Slots, Commit(t) \/ Crash(t) PROVE Continues(s) \/ Starts(s)
  <2>1. Ends(t)
    BY <1>7
    DEF Commit, CommitCapture, CommitCancel, CommitCancelHold, CommitCancelByPayer, CommitRefund,
        CommitHold, RecordHoldFailure, RecordCreateFailure, CommitReconcile, Settle, Crash
  <2> QED
    BY <1>2, <2>1
<1>8. ASSUME \/ TripsActs \/ UNCHANGED sagaVars
             \/ \E b \in Intents : TripsHears(b)
             \/ \E h \in Holds : PspDropsHold(h)
             \/ \E b \in Intents, h \in Holds, w \in WebhookTypes : Webhook(b, h, w)
      PROVE  Continues(s) \/ Starts(s)
  BY <1>3, <1>8 DEF TripsActs, TripsHears, PspDropsHold, Webhook, sagaVars, vars
<1> QED
  BY <1>4, <1>5, <1>6, <1>7, <1>8 DEF SagaNext, Calm, PaymentsActs, PaymentsFail

\* Money is taken by a capture, through the hold its intent names.
LEMMA TakingStep ==
  ASSUME Inv, [Next]_vars, NEW h \in Holds, ledger'[h] \in Taken, ledger[h] \notin Taken
  PROVE  /\ \E s \in Slots : slot[s].op = "capture" /\ slot[s].intent = holdFor[h]
         /\ holdFor'[h] = holdFor[h]
<1>0. ledger \in [Holds -> HoldStates] /\ slot \in [Slots -> Slot]
  BY DEF Inv, TypeOK
<1>1. ASSUME NEW s \in Slots, slot[s].at = "psp", slot[s].op \in DOMAIN Needs, Applies(s)
      PROVE  /\ slot[s].op = "capture" /\ slot[s].hold = h
             /\ holdFor' = holdFor
  BY <1>0, <1>1 DEF Applies, Needs, Makes, Taken
<1>2. ASSUME NEW s \in Slots, slot[s].op = "capture", slot[s].hold = h
      PROVE  slot[s].intent = holdFor[h]
  <2>1. slot[s].intent \in Intents /\ slot[s].hold # NoHold
    BY <1>2 DEF Inv, SlotsAreSound, SlotShape, Idle
  <2>2. pspId[slot[s].intent] = slot[s].hold
    BY <1>2, <2>1 DEF Inv, SlotsAreSound, SlotFacts, Asking
  <2> QED
    BY <1>2, <2>1, <2>2 DEF Inv, RowsAreSound, RowIsSound
<1>3. ASSUME NEW s \in Slots, NEW k \in Holds, Places(s, k) PROVE FALSE
  BY <1>0, <1>3 DEF Places, Taken
<1>4. \E s \in Slots : PspAnswers(s) \/ PspFails(s)
  <2>1. ASSUME NEW s \in Slots, Commit(s) PROVE UNCHANGED ledger
    BY <2>1
    DEF Commit, CommitCapture, CommitCancel, CommitCancelHold, CommitCancelByPayer, CommitRefund,
        CommitHold, RecordHoldFailure, RecordCreateFailure, CommitReconcile, psp
  <2>2. ASSUME NEW k \in Holds, PspDropsHold(k)
        PROVE  ledger'[h] = ledger[h] \/ ledger'[h] = "dropped"
    BY <1>0, <2>2 DEF PspDropsHold
  <2>3. "dropped" \notin Taken
    BY DEF Taken
  <2> QED
    BY <2>1, <2>2, <2>3, NextCases
    DEF vars, psp, BookingCreated, BookingConfirmed, BookingEnded, DisputeResolved, CreateIntent,
        CaptureIntent, CancelIntent, RefundIntent, PlaceHold, Reconcile, PspReports, Crash, Webhook
<1> QED
  BY <1>1, <1>2, <1>3, <1>4 DEF PspAnswers, PspFails, Refuses

-----------------------------------------------------------------------------
(* The invariant of the saga                                               *)

\* What trips-service hears.
LEMMA HearingStep ==
  ASSUME [SagaNext]_sagaVars, heard' # heard
  PROVE  \E b \in Intents, e \in Answers :
           /\ heard' = heard \cup {<<b, e>>}
           /\ emitted[b][e] > 0 /\ emitted' = emitted
           /\ e = Held => Booked!HoldPlaced(<<b, e>>, b)
           /\ e = Broken => Booked!IntentFailed(<<b, e>>, b)
<1>1. PICK b \in Intents : TripsHears(b)
  BY DEF SagaNext, Calm, PaymentsActs, PaymentsFail, PaymentsHears, TripsActs, sagaVars, tripsVars
<1>2. \/ emitted[b][Held] > 0 /\ Booked!HoldPlaced(<<b, Held>>, b)
      \/ emitted[b][Broken] > 0 /\ Booked!IntentFailed(<<b, Broken>>, b)
  BY <1>1, SameTrips DEF TripsHears, Published, Held, Broken
<1>3. emitted' = emitted
  BY <1>1 DEF TripsHears, vars
<1> QED
  BY <1>2, <1>3
  DEF Booked!HoldPlaced, Booked!IntentFailed, Booked!Consume, Answers, Held, Broken

\* In the saga an intent begins with booking.created.
LEMMA StartStep ==
  ASSUME Inv, [SagaNext]_sagaVars, NEW b \in Intents, status[b] = "ABSENT", status'[b] # "ABSENT"
  PROVE  told[b]["booking.created"] > 0
<1>0. status \in [Intents -> Status]
  BY DEF Inv, TypeOK
<1>1. ASSUME NEW s \in Slots, Commit(s) PROVE FALSE
  <2>1. ASSUME NEW allowed, NEW e, Settle(s, allowed, e), "ABSENT" \notin allowed PROVE FALSE
    BY <1>0, <2>1 DEF Settle, Still
  <2>2. ASSUME RecordCreateFailure(s) PROVE FALSE
    BY <1>0, <2>2 DEF RecordCreateFailure, Inv, SlotsAreSound, SlotFacts
  <2>3. ASSUME slot[s].op = "reconcile" PROVE slot[s].saw # "ABSENT"
    BY <2>3 DEF Inv, SlotsAreSound, SlotShape, Idle, Waiting
  <2>4. ASSUME RecordHoldFailure(s) PROVE FALSE
    BY <1>0, <2>4 DEF RecordHoldFailure, Still
  <2> QED
    BY <1>1, <2>1, <2>2, <2>3, <2>4
    DEF Commit, CommitCapture, CommitCancel, CommitCancelHold, CommitCancelByPayer, CommitRefund,
        CommitHold, CommitReconcile
<1>2. ASSUME NEW i \in Intents, NEW h \in Holds, NEW w \in WebhookTypes, Webhook(i, h, w)
      PROVE  FALSE
  BY <1>0, <1>2 DEF Webhook, ValidTransitions
<1>3. ASSUME NEW c \in Intents, PaymentsHears(c)
      PROVE  c = b /\ Published(told[b], {"booking.created"})
  BY <1>0, <1>3 DEF PaymentsHears, BookingCreated, BookingConfirmed, BookingEnded
<1>4. \E c \in Intents : PaymentsHears(c)
  BY <1>1, <1>2
  DEF SagaNext, Calm, PaymentsActs, PaymentsFail, TripsActs, TripsHears, sagaVars, vars,
      PlaceHold, Reconcile, PspAnswers, PspFails, PspReports, Crash, PspDropsHold
<1> QED
  BY <1>3, <1>4 DEF Published

\* A hold stays its booking's.
LEMMA HoldForStays ==
  ASSUME Inv, [Next]_vars, NEW h \in Holds, ledger[h] # "none"
  PROVE  holdFor'[h] = holdFor[h]
<1>1. StepMoves
  BY Movements DEF Inv
<1> QED
  BY <1>1 DEF StepMoves, MoneyMove, psp, Inv, TypeOK

\* Each of these is kept by every step of the saga.
LEMMA KnownStep ==
  ASSUME Inv, Booked!Inv, Inv', Booked!Inv', Known, [SagaNext]_sagaVars
  PROVE  Known'
<1>0. [Next]_vars /\ [Booked!Next]_(Booked!vars)
  BY PaymentsStep, TripsStep
<1>1. \A b \in Intents :
        /\ told[b]["booking.created"] \in Nat /\ told'[b]["booking.created"] \in Nat
        /\ told[b]["booking.confirmed"] \in Nat /\ told'[b]["booking.confirmed"] \in Nat
  BY DEF Booked!Inv, Booked!TypeOK, Booked!BookingEvents
<1>2. \A b \in Intents : /\ emitted[b][Held] \in Nat /\ emitted'[b][Held] \in Nat
                         /\ emitted[b][Broken] \in Nat /\ emitted'[b][Broken] \in Nat
  BY DEF Inv, TypeOK, PaymentEvents, Held, Broken
<1>3. \A b \in Intents : emitted[b][Broken] > 0 => status[b] = "FAILED"
  BY DEF Inv, OutboxesAreSound, OutboxIsSound, Broken
<1>4. BookedBeforePaid'
  <2> SUFFICES ASSUME NEW b \in Intents, status'[b] # "ABSENT"
               PROVE  told'[b]["booking.created"] > 0
    BY DEF BookedBeforePaid
  <2>1. told[b]["booking.created"] > 0
    BY StartStep DEF Known, BookedBeforePaid
  <2> QED
    BY <1>0, <1>1, <2>1, ToldStays
<1>5. HeardWasSaid'
  <2> SUFFICES ASSUME NEW b \in Intents, NEW e \in Answers, <<b, e>> \in heard'
               PROVE  emitted'[b][e] > 0
    BY DEF HeardWasSaid
  <2>1. emitted[b][e] > 0
    <3>1. CASE <<b, e>> \in heard
      BY <3>1 DEF Known, HeardWasSaid
    <3>2. CASE <<b, e>> \notin heard
      <4>1. PICK c \in Intents, f \in Answers :
              heard' = heard \cup {<<c, f>>} /\ emitted[c][f] > 0
        BY <3>2, HearingStep
      <4> QED
        BY <3>2, <4>1
    <3> QED
      BY <3>1, <3>2
  <2> QED
    BY <1>0, <1>2, <2>1, EmittedStays DEF Answers, PaymentEvents, Held, Broken
<1>6. ConfirmedWasHeard'
  <2> SUFFICES ASSUME NEW b \in Intents, told'[b]["booking.confirmed"] > 0,
                      <<b, Held>> \notin heard'
               PROVE  FALSE
    BY DEF ConfirmedWasHeard
  <2>1. <<b, Held>> \notin heard
    BY HearingStep
  <2>2. told'[b]["booking.confirmed"] # told[b]["booking.confirmed"]
    BY <1>1, <2>1 DEF Known, ConfirmedWasHeard
  <2>3. heard' # heard
    BY <1>0, <2>2, ToldStays DEF Booked!HoldPlaced, Booked!Consume
  <2>4. PICK c \in Intents, e \in Answers :
          /\ heard' = heard \cup {<<c, e>>}
          /\ e = Held => Booked!HoldPlaced(<<c, e>>, c)
          /\ e = Broken => Booked!IntentFailed(<<c, e>>, c)
    BY <2>3, HearingStep
  <2>5. CASE e = Held
    <3>1. b # c
      BY <2>4, <2>5
    <3> QED
      BY <2>2, <2>4, <2>5, <3>1 DEF Booked!HoldPlaced, Booked!Publish
  <2>6. CASE e = Broken
    <3>1. told \in [Intents -> [Booked!BookingEvents -> Nat]]
      BY DEF Booked!Inv, Booked!TypeOK
    <3>2. told' = told \/ Booked!Publish("booking.cancelled", {c})
      BY <2>4, <2>6 DEF Booked!IntentFailed
    <3> QED
      BY <2>2, <3>1, <3>2 DEF Booked!Publish, Booked!BookingEvents
  <2> QED
    BY <2>5, <2>6 DEF Answers, Held, Broken
<1>7. FailureWasHeard'
  <2> SUFFICES ASSUME NEW b \in Intents, <<b, Broken>> \in heard'
               PROVE  booking'[b] # "PENDING_PAYMENT"
    BY DEF FailureWasHeard
  <2>1. CASE <<b, Broken>> \in heard
    <3>1. status[b] = "FAILED" /\ booking[b] # "PENDING_PAYMENT"
      BY <1>3, <2>1 DEF Known, HeardWasSaid, FailureWasHeard, Answers, Broken
    <3> QED
      BY <1>0, <3>1, PendingIsFirst DEF Known, BookedBeforePaid
  <2>2. CASE <<b, Broken>> \notin heard
    <3>1. Booked!IntentFailed(<<b, Broken>>, b)
      <4>1. PICK c \in Intents, e \in Answers :
              /\ heard' = heard \cup {<<c, e>>}
              /\ e = Broken => Booked!IntentFailed(<<c, e>>, c)
        BY <2>2, HearingStep
      <4>2. c = b /\ e = Broken
        BY <2>2, <4>1
      <4> QED
        BY <4>1, <4>2
    <3> QED
      BY <3>1 DEF Booked!IntentFailed, Booked!SetStatus
  <2> QED
    BY <2>1, <2>2
<1>8. PlacedOrBroken'
  <2> SUFFICES ASSUME NEW b \in Intents
               PROVE  /\ emitted'[b][Held] > 0 => pspId'[b] # NoHold
                      /\ emitted'[b][Broken] > 0 => pspId'[b] = NoHold
    BY DEF PlacedOrBroken
  <2>1. emitted'[b][Held] > 0 => pspId'[b] # NoHold
    BY <1>0, EmittedStays DEF Known, PlacedOrBroken
  <2>2. CASE emitted'[b][Broken] # emitted[b][Broken]
    BY <1>0, <2>1, <2>2, FailureStep DEF Inv, RowsAreSound, RowIsSound, Unplaced, Waiting
  <2>3. CASE emitted'[b][Broken] = emitted[b][Broken]
    BY <1>0, <1>3, <2>1, <2>3, EmittedStays DEF Known, PlacedOrBroken, Waiting
  <2> QED
    BY <2>2, <2>3
<1>9. TakenForSeats'
  <2>1. ASSUME NEW s \in Slots, slot'[s].op = "capture"
        PROVE  told'[slot'[s].intent]["booking.confirmed"] > 0
    <3>1. slot'[s].intent \in Intents
      BY <2>1 DEF Inv, SlotsAreSound, SlotShape, Idle
    <3>2. told[slot'[s].intent]["booking.confirmed"] > 0
      BY <2>1, CaptureStep DEF Known, TakenForSeats
    <3> QED
      BY <1>0, <1>1, <3>1, <3>2, ToldStays
  <2>2. ASSUME NEW h \in Holds, holdFor'[h] \in Intents, ledger'[h] \in Taken
        PROVE  told'[holdFor'[h]]["booking.confirmed"] > 0
    <3>1. CASE ledger[h] \in Taken
      <4>1. holdFor'[h] = holdFor[h]
        BY <1>0, <3>1, HoldForStays DEF Taken
      <4> QED
        BY <1>0, <1>1, <2>2, <3>1, <4>1, ToldStays DEF Known, TakenForSeats
    <3>2. CASE ledger[h] \notin Taken
      <4>1. told[holdFor'[h]]["booking.confirmed"] > 0
        BY <1>0, <2>2, <3>2, TakingStep DEF Known, TakenForSeats
      <4> QED
        BY <1>0, <1>1, <2>2, <4>1, ToldStays
    <3> QED
      BY <3>1, <3>2
  <2> QED
    BY <2>1, <2>2 DEF TakenForSeats
<1> QED
  BY <1>4, <1>5, <1>6, <1>7, <1>8, <1>9 DEF Known

-----------------------------------------------------------------------------
(* The theorems                                                            *)

\* Whatever crashes, fails, is late or comes in another order, each side is sound
\* and what it has concluded from the other's events is so.
THEOREM SagaIsSound == SagaSpec => [](Inv /\ Booked!Inv /\ Known)
<1>1. SagaInit => Known
  <2> SUFFICES ASSUME Init, Booked!Init PROVE Known
    BY SameTrips DEF SagaInit
  <2>1. \A b \in Intents : ~(told[b]["booking.confirmed"] > 0)
    BY DEF Booked!Init, Booked!BookingEvents
  <2>2. heard = {} /\ \A b \in Intents : status[b] = "ABSENT"
    BY DEF Init, Booked!Init
  <2>3. PlacedOrBroken
    BY DEF Init, PlacedOrBroken, PaymentEvents, Held, Broken
  <2>4. TakenForSeats
    BY DEF Init, TakenForSeats, Idle, Taken
  <2> QED
    BY <2>1, <2>2, <2>3, <2>4
    DEF Known, BookedBeforePaid, HeardWasSaid, ConfirmedWasHeard, FailureWasHeard
<1>2. /\ Inv /\ Booked!Inv /\ (Inv /\ Booked!Inv)'
      /\ Known /\ [SagaNext]_sagaVars
      => Known'
  BY KnownStep
<1>3. SagaSpec => [](Inv /\ Booked!Inv)
  BY SidesAreSound
<1> QED
  BY <1>1, <1>2, <1>3, PTL DEF SagaSpec

\* A seat is confirmed only against money held for this very booking.
THEOREM SeatsArePaidFor == SagaSpec => []ConfirmedWasHeld
<1>1. Inv /\ Booked!Inv /\ Known => ConfirmedWasHeld
  <2> SUFFICES ASSUME Inv, Booked!Inv, Known, NEW b \in Intents, booking[b] = "CONFIRMED"
               PROVE  /\ pspId[b] # NoHold
                      /\ holdFor[pspId[b]] = b
                      /\ status[b] \notin {"ABSENT", "CREATED", "HOLD_REQUESTED"}
    BY DEF ConfirmedWasHeld
  <2>1. told[b]["booking.confirmed"] = 1
    BY DEF Booked!Inv, Booked!EventsMatchStatus, Booked!EmittedOnce
  <2>2. emitted[b][Held] > 0
    <3>1. told[b]["booking.confirmed"] > 0
      BY <2>1
    <3> QED
      BY <3>1 DEF Known, ConfirmedWasHeard, HeardWasSaid, Answers, Held
  <2>3. pspId[b] # NoHold
    BY <2>2 DEF Known, PlacedOrBroken
  <2>4. status[b] \notin Unplaced
    BY <2>2 DEF Inv, OutboxesAreSound, OutboxIsSound, Held
  <2> QED
    BY <2>3, <2>4 DEF Inv, RowsAreSound, RowIsSound, Unplaced, Waiting
<1> QED
  BY <1>1, SagaIsSound, PTL

\* Unless the payer asks for it, money is taken only for a confirmed seat.
THEOREM ChargedForSeats == SagaSpec => []CapturedWasConfirmed
<1>1. Booked!Inv /\ Known => CapturedWasConfirmed
  <2> SUFFICES ASSUME Booked!Inv, Known, NEW b \in Intents, NEW h \in Holds,
                      holdFor[h] = b, ledger[h] \in Taken
               PROVE  told[b]["booking.confirmed"] = 1
    BY DEF CapturedWasConfirmed, Taken
  <2>1. told[b]["booking.confirmed"] > 0
    BY DEF Known, TakenForSeats
  <2> QED
    BY <2>1 DEF Booked!Inv, Booked!EventsMatchStatus, Booked!EmittedOnce
<1> QED
  BY <1>1, SagaIsSound, PTL

\* A booking ended by a failed payment was never confirmed, and its payment is
\* over: the two sides do not each believe that the other went on.
THEOREM FailuresAreMutual == SagaSpec => []FailureIsMutual
<1>1. Inv /\ Booked!Inv /\ Known => FailureIsMutual
  <2> SUFFICES ASSUME Inv, Booked!Inv, Known, NEW b \in Intents, <<b, Broken>> \in heard
               PROVE  /\ booking[b] # "PENDING_PAYMENT"
                      /\ status[b] = "FAILED"
                      /\ told[b]["booking.confirmed"] = 0
    BY DEF FailureIsMutual, Broken
  <2>1. emitted[b][Broken] > 0
    BY DEF Known, HeardWasSaid, Answers, Broken
  <2>2. status[b] = "FAILED"
    BY <2>1 DEF Inv, OutboxesAreSound, OutboxIsSound, Broken
  <2>3. ~(emitted[b][Held] > 0)
    BY <2>1 DEF Known, PlacedOrBroken
  <2>4. ~(told[b]["booking.confirmed"] > 0)
    BY <2>3 DEF Known, ConfirmedWasHeard, HeardWasSaid, Answers, Held
  <2>5. told[b]["booking.confirmed"] \in Nat
    BY DEF Booked!Inv, Booked!TypeOK, Booked!BookingEvents
  <2> QED
    BY <2>2, <2>4, <2>5 DEF Known, FailureWasHeard
<1> QED
  BY <1>1, SagaIsSound, PTL

\* Composed with trips-service payments-service keeps its promise.
THEOREM PromiseIsKeptTogether == SagaSpec => KeepsPromise
<1>1. SagaInit => Init
  BY DEF SagaInit
<1>2. [SagaNext]_sagaVars => [Next]_vars
  BY PaymentsStep
<1>3. Spec => KeepsPromise
  BY PromiseIsKept
<1> QED
  BY <1>1, <1>2, <1>3, PTL DEF SagaSpec, Spec

\* And trips-service keeps its own, whatever payments-service tells it and in
\* whatever order.
THEOREM BookingPromiseIsKeptTogether == SagaSpec => Booked!KeepsBookingPromise
<1>1. Booked!Spec => Booked!KeepsBookingPromise
  BY BookingsAssumption, IntentsAssumption, Booked!BookingPromiseIsKept
  DEF Booked!BookingPromiseIsKept, Booked!IsFiniteSet, IsFiniteSet
<1>2. SagaInit => Booked!Init
  BY SameTrips DEF SagaInit
<1>3. [SagaNext]_sagaVars => [Booked!Next]_(Booked!vars)
  BY TripsStep
<1> QED
  BY <1>1, <1>2, <1>3, PTL DEF SagaSpec, Booked!Spec

=============================================================================
