--------------------------- MODULE IntentLifecycle ---------------------------
(***************************************************************************)
(* What payments-service promises of the payment of a booking, whatever    *)
(* requests, events, webhooks and workers do to it at the same time: how   *)
(* its status may change, what must be so of the money when it does, and   *)
(* what is announced of it.  PaymentIntent implements it.                  *)
(***************************************************************************)
EXTENDS Integers

CONSTANT Intents

VARIABLES
  status,   \* payment_intents.status, "ABSENT" before the row exists
  money,    \* what became of the hold the intent names, "none" without one
  emitted   \* events announced, by type

vars == <<status, money, emitted>>

Status == {"ABSENT", "CREATED", "HOLD_REQUESTED", "HOLD_PLACED", "CAPTURED",
           "CANCELLED", "REFUNDED", "FAILED"}
Waiting == {"CREATED", "HOLD_REQUESTED"}

PaymentEvents ==
  {"payment.intent.hold_placed", "payment.intent.failed", "payment.captured",
   "payment.cancelled", "payment.refunded", "payment.failed"}

Init ==
  /\ status = [i \in Intents |-> "ABSENT"]
  /\ money = [i \in Intents |-> "none"]
  /\ emitted = [i \in Intents |-> [e \in PaymentEvents |-> 0]]

Announce(i, e) == emitted' = [emitted EXCEPT ![i][e] = @ + 1]

\* The status of i goes from one of a set to another.
Move(i, from, to) ==
  /\ status[i] \in from
  /\ status' = [status EXCEPT ![i] = to]

\* A booking is created, or its payer asks for a payment.
Request(i) ==
  /\ \E to \in Waiting : Move(i, {"ABSENT"}, to)
  /\ UNCHANGED <<money, emitted>>

\* The intent takes a hold for its own: it had none, and nobody could capture
\* or release this one before.
Place(i) ==
  /\ Move(i, Waiting, "HOLD_PLACED")
  /\ money[i] = "none"
  /\ \E m \in {"held", "dropped"} : money' = [money EXCEPT ![i] = m]
  /\ Announce(i, "payment.intent.hold_placed")

\* What the PSP does to the hold shows in the status only later.
MoneyMoves(i) ==
  /\ \E m \in ({"held"} \X {"captured", "released", "dropped"})
                 \cup {<<"captured", "refunded">>} :
       money[i] = m[1] /\ money' = [money EXCEPT ![i] = m[2]]
  /\ UNCHANGED <<status, emitted>>

\* Money was taken; a webhook tells nobody.
Capture(i) ==
  /\ Move(i, {"HOLD_PLACED"}, "CAPTURED")
  /\ money[i] \in {"captured", "refunded"}
  /\ Announce(i, "payment.captured") \/ UNCHANGED emitted
  /\ UNCHANGED money

\* Money was given back.
Refund(i) ==
  /\ Move(i, {"CAPTURED"}, "REFUNDED")
  /\ money[i] = "refunded"
  /\ Announce(i, "payment.refunded") \/ UNCHANGED emitted
  /\ UNCHANGED money

\* Nothing is promised of the money: a cancellation that needed no PSP when it
\* began may end after the hold was placed, or placed and captured.
Cancel(i) ==
  /\ Move(i, Waiting \cup {"HOLD_PLACED", "CAPTURED"}, "CANCELLED")
  /\ Announce(i, "payment.cancelled")
  /\ UNCHANGED money

\* No hold, or one the PSP gave up or refused to capture.  Of the money of a
\* hold nothing is promised: refused once, it may be captured when asked again.
Fail(i) ==
  /\ \/ Move(i, Waiting, "FAILED") /\ money[i] = "none"
     \/ Move(i, {"HOLD_PLACED"}, "FAILED") /\ money[i] # "none"
  /\ \E e \in {"payment.failed", "payment.intent.failed"} :
       Announce(i, e) \/ UNCHANGED emitted
  /\ UNCHANGED money

\* A creation that fails is recorded over a cancellation, and announced to
\* nobody.
FailLate(i) ==
  /\ Move(i, {"CANCELLED", "FAILED"}, "FAILED")
  /\ money[i] = "none"
  /\ UNCHANGED <<money, emitted>>

Step(i) ==
  Request(i) \/ Place(i) \/ MoneyMoves(i) \/ Capture(i) \/ Refund(i)
    \/ Cancel(i) \/ Fail(i) \/ FailLate(i)

Next == \E i \in Intents : Step(i)

Spec == Init /\ [][Next]_vars
=============================================================================
