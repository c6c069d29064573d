----------------------------- MODULE BookingSaga -----------------------------
(***************************************************************************)
(* The booking saga: trips-service and payments-service, each as its own   *)
(* module has it, and the events between them.  An outbox delivers what    *)
(* was published at least once, late and in any order, so that an event is *)
(* received at any time after its row was written; a repeated one is found *)
(* in consumed_events.  OUTBOX_TARGETS says which events go where: of what *)
(* payments publishes trips hears hold_placed and payment.intent.failed    *)
(* only.  An intent is named as its booking.  What payers ask for by       *)
(* themselves and disputes are PaymentIntent's alone.                      *)
(***************************************************************************)
EXTENDS PaymentIntent

CONSTANTS
  Trips,
  Passengers,
  MaxSeats

ASSUME BookingsAssumption == IsFiniteSet(Intents) /\ MaxSeats \in Nat \ {0}

VARIABLES
  tripStatus, seatsTotal, seatsAvailable, request, outcome, idempotency,
  tripEmitted, completedWith, txn,   \* as in TripBooking
  booking,   \* bookings.status
  heard,     \* consumed_events of trips-service
  told       \* rows of trips-service's outbox_events about a booking, by type

tripsVars == <<tripStatus, seatsTotal, seatsAvailable, request, outcome, idempotency,
               tripEmitted, completedWith, txn, booking, heard, told>>
sagaVars == <<vars, tripsVars>>

\* The events of payments-service that have trips-service for a target.
Answers == {"payment.intent.hold_placed", "payment.intent.failed"}

Booking == INSTANCE TripBooking
  WITH Requests <- Intents, Keys <- {}, NoKey <- NoHold, NoBooking <- NoIntent,
       EventIds <- Intents \X Answers, status <- booking, consumed <- heard, emitted <- told

SagaInit == Init /\ Booking!Init

-----------------------------------------------------------------------------
\* Mutant: rows are handed over when they are asked for, published or not.
Published_Always(rows, types) == types \subseteq DOMAIN rows

\* The outbox has a row of one of these types to deliver.
Published(rows, types) == \E e \in types : rows[e] > 0

\* Requests to trips-service and its expiration worker.
TripsActs ==
  /\ Booking!Next
  /\ UNCHANGED <<heard, vars>>

\* POST /internal/events of trips-service.
TripsHears(b) ==
  /\ \/ /\ Published(emitted[b], {"payment.intent.hold_placed"})
        /\ Booking!HoldPlaced(<<b, "payment.intent.hold_placed">>, b)
     \/ /\ Published(emitted[b], {"payment.intent.failed"})
        /\ Booking!IntentFailed(<<b, "payment.intent.failed">>, b)
  /\ UNCHANGED vars

\* POST /internal/events of payments-service, up to the PSP call.
PaymentsHears(b) ==
  /\ \/ Published(told[b], {"booking.created"}) /\ BookingCreated(b)
     \/ \E s \in Slots :
          \/ Published(told[b], {"booking.confirmed"}) /\ BookingConfirmed(s, b)
          \/ Published(told[b], {"booking.cancelled", "booking.expired"}) /\ BookingEnded(s, b)
  /\ UNCHANGED tripsVars

\* The workers of payments-service, the PSP and its webhooks, the transactions
\* that settle an operation.
PaymentsActs ==
  /\ \/ \E s \in Slots, b \in Intents : PlaceHold(s, b) \/ Reconcile(s, b)
     \/ \E s \in Slots : PspAnswers(s) \/ PspReports(s) \/ Commit(s)
     \/ \E b \in Intents, h \in Holds, w \in WebhookTypes : Webhook(b, h, w)
  /\ UNCHANGED tripsVars

\* What may go wrong at the PSP and in payments-service.
PaymentsFail ==
  /\ \/ \E s \in Slots : PspFails(s) \/ Crash(s)
     \/ \E h \in Holds : PspDropsHold(h)
  /\ UNCHANGED tripsVars

Calm == TripsActs \/ PaymentsActs \/ \E b \in Intents : TripsHears(b) \/ PaymentsHears(b)

SagaNext == Calm \/ PaymentsFail

SagaSpec == SagaInit /\ [][SagaNext]_sagaVars

\* A booking is reached by the expiration worker as in TripBooking.
FairSagaSpec == SagaSpec /\ Booking!Fairness

\* Nothing goes wrong in payments-service or at the PSP, and every event comes.
CalmSpec ==
  /\ SagaInit /\ [][Calm]_sagaVars
  /\ Booking!Fairness /\ Fairness
  /\ \A b \in Intents : SF_sagaVars(TripsHears(b)) /\ SF_sagaVars(PaymentsHears(b))

-----------------------------------------------------------------------------
(* Properties                                                              *)

\* A seat is confirmed only against money: the intent of a confirmed booking
\* has a hold placed for this very booking, whatever crashes, late answers,
\* second holds and reordered events came in between.
ConfirmedWasHeld ==
  \A b \in Intents :
    booking[b] = "CONFIRMED" =>
      /\ pspId[b] # NoHold
      /\ holdFor[pspId[b]] = b
      /\ status[b] \notin {"ABSENT", "CREATED", "HOLD_REQUESTED"}

\* Without a request of the payer, money is taken only for a seat that was
\* confirmed: no capture overtakes the confirmation, or outlives a booking that
\* ended unconfirmed.
CapturedWasConfirmed ==
  \A b \in Intents, h \in Holds :
    booking[b] # "ABSENT" /\ holdFor[h] = b /\ ledger[h] \in {"captured", "refunded"} =>
      told[b]["booking.confirmed"] = 1

\* trips and payments never both think the other has given up: a booking ended
\* by payment.intent.failed has no money held by its intent.
FailureIsMutual ==
  \A b \in Intents :
    <<b, "payment.intent.failed">> \in heard =>
      /\ booking[b] # "PENDING_PAYMENT"
      /\ status[b] = "FAILED"
      /\ told[b]["booking.confirmed"] = 0

\* "Payments receives the event -> cancel hold or refund": when a booking has
\* ended, its passenger's money does not stay held or taken.
EndedIsPaidBack ==
  \A b \in Intents :
    (booking[b] \in Booking!Ended) ~>
      \A h \in Holds : holdFor[h] = b => ledger[h] \notin {"held", "captured"}

=============================================================================
