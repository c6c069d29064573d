---------------------------- MODULE PaymentIntent ----------------------------
(***************************************************************************)
(* payments-service: the payment intent of each booking and the money the  *)
(* payment provider (PSP) holds for it.                                    *)
(*                                                                         *)
(* Every operation has the same shape.  It looks at the intent, calls the  *)
(* PSP outside of any transaction, and settles the result in a short       *)
(* transaction that locks the intent's row and looks at its status again.  *)
(* Between the three, other operations run: those of other requests and    *)
(* events, of the workers, of a second instance of the service.  A slot    *)
(* is one operation under way.  The PSP may refuse a call, or answer it    *)
(* only after withTimeout has given up: then its effect is there, and the  *)
(* caller sees an error.                                                   *)
(***************************************************************************)
EXTENDS Integers, FiniteSets

CONSTANTS
  Intents,   \* payment intents, at most one for each booking
  Holds,     \* ids of holds at the PSP
  NoHold,    \* psp_intent_id is null
  NoIntent,  \* the booking of a hold not placed yet
  Slots      \* operations that may be under way at once

ASSUME HoldsAssumption == NoHold \notin Holds
ASSUME IntentsAssumption == NoIntent \notin Intents

VARIABLES
  status,    \* payment_intents.status, "ABSENT" before the row exists
  pspId,     \* payment_intents.psp_intent_id
  receipts,  \* rows of receipts of the intent
  emitted,   \* rows of outbox_events about the intent, by type
  consumed,  \* consumed_events of payments-service
  webhooks,  \* external event ids in payment_events
  ledger,    \* what became of each hold at the PSP
  holdFor,   \* the booking in the metadata of each hold at the PSP
  refused,   \* holds the PSP has refused to capture
  slot       \* the operations under way

vars == <<status, pspId, receipts, emitted, consumed, webhooks, ledger, holdFor, refused, slot>>
psp == <<ledger, holdFor, refused>>

-----------------------------------------------------------------------------
Status == {"ABSENT", "CREATED", "HOLD_REQUESTED", "HOLD_PLACED", "CAPTURED",
           "CANCELLED", "REFUNDED", "FAILED"}
Terminal == {"CANCELLED", "REFUNDED", "FAILED"}

\* VALID_TRANSITIONS of the domain.
ValidTransitions ==
  ({"CREATED"} \X {"HOLD_REQUESTED", "HOLD_PLACED", "CANCELLED", "FAILED"})
    \cup ({"HOLD_REQUESTED"} \X {"HOLD_PLACED", "CANCELLED", "FAILED"})
    \cup ({"HOLD_PLACED"} \X {"CAPTURED", "CANCELLED", "FAILED"})
    \cup {<<"CAPTURED", "REFUNDED">>}

PaymentEvents ==
  {"payment.intent.hold_placed", "payment.intent.failed", "payment.captured",
   "payment.cancelled", "payment.refunded", "payment.failed"}

\* Events with a handler that calls the PSP; booking.expired has the handler
\* of booking.cancelled, and a booking is ended by one of the two.
BookingEvents == {"booking.created", "booking.confirmed", "booking.ended", "dispute.resolved"}

\* PSP callbacks, with the status each one asks for.
WebhookTypes ==
  {"hold.succeeded", "capture.succeeded", "refund.succeeded", "hold.failed", "capture.failed"}
WebhookStatus ==
  [w \in WebhookTypes |->
     CASE w = "hold.succeeded" -> "HOLD_PLACED"
       [] w = "capture.succeeded" -> "CAPTURED"
       [] w = "refund.succeeded" -> "REFUNDED"
       [] OTHER -> "FAILED"]

\* What a hold at the PSP may be.
HoldStates == {"none", "held", "captured", "released", "refunded", "dropped"}

\* PSP_STATUS_MAP: what getStatus says of it, as the status of an intent.
PspStatus ==
  [s \in HoldStates |->
     CASE s = "held" -> "HOLD_PLACED"
       [] s = "captured" -> "CAPTURED"
       [] s = "released" -> "CANCELLED"
       [] s = "refunded" -> "REFUNDED"
       [] OTHER -> "FAILED"]

Operations == {"none", "create", "hold", "capture", "cancel", "cancelHold",
               "cancelByPayer", "refund", "reconcile"}

\* An operation waits for the PSP ("psp"), has its answer and settles it
\* ("done"), or has its refusal and records it ("failed").
Slot == [at : {"idle", "psp", "done", "failed"}, op : Operations,
         intent : Intents \cup {NoIntent}, hold : Holds \cup {NoHold},
         saw : Status, to : Status]
Idle == [at |-> "idle", op |-> "none", intent |-> NoIntent, hold |-> NoHold,
         saw |-> "ABSENT", to |-> "ABSENT"]

-----------------------------------------------------------------------------
Init ==
  /\ status = [i \in Intents |-> "ABSENT"]
  /\ pspId = [i \in Intents |-> NoHold]
  /\ receipts = [i \in Intents |-> 0]
  /\ emitted = [i \in Intents |-> [e \in PaymentEvents |-> 0]]
  /\ consumed = {}
  /\ webhooks = {}
  /\ ledger = [h \in Holds |-> "none"]
  /\ holdFor = [h \in Holds |-> NoIntent]
  /\ refused = {}
  /\ slot = [s \in Slots |-> Idle]

\* OutboxService.publish in the caller's transaction.
Publish(i, e) == emitted' = [emitted EXCEPT ![i][e] = @ + 1]

\* Operation op on intent i begins in slot s; what it has read is kept.
Begin(s, op, i, at, to) ==
  /\ slot[s] = Idle
  /\ slot' = [slot EXCEPT ![s] =
                [at |-> at, op |-> op, intent |-> i, hold |-> pspId[i],
                 saw |-> status[i], to |-> to]]

\* Mutant: the flag "running" is not reset.
Ends_Running(s) == slot' = [slot EXCEPT ![s].at = "idle"]

\* The operation in slot s is over.
Ends(s) == slot' = [slot EXCEPT ![s] = Idle]

\* InternalEventsController for a handler with side effects: the event id is
\* recorded first, in a transaction of its own, then the handler runs.  If the
\* handler fails, a redelivery finds the id and is answered "duplicate".
Receive(i, e) ==
  /\ <<i, e>> \notin consumed
  /\ consumed' = consumed \cup {<<i, e>>}

-----------------------------------------------------------------------------
(* Events of trips-service and admin-service.  The outbox of the sender    *)
(* keeps no order between them; a booking is confirmed only by hold_placed. *)

\* HandleBookingCreatedHandler, in one transaction with the consumed event.
BookingCreated(i) ==
  /\ Receive(i, "booking.created")
  /\ status' = IF status[i] = "ABSENT"
               THEN [status EXCEPT ![i] = "HOLD_REQUESTED"] ELSE status
  /\ UNCHANGED <<pspId, receipts, emitted, webhooks, psp, slot>>

\* OnBookingConfirmedHandler up to the PSP call.
BookingConfirmed(s, i) ==
  /\ emitted[i]["payment.intent.hold_placed"] > 0
  /\ Receive(i, "booking.confirmed")
  /\ IF status[i] = "HOLD_PLACED" THEN Begin(s, "capture", i, "psp", "CAPTURED")
     ELSE UNCHANGED slot
  /\ UNCHANGED <<status, pspId, receipts, emitted, webhooks, psp>>

\* OnBookingCancelledHandler up to the PSP call: nothing to do, cancel without
\* the PSP, release the hold, or refund.
BookingEnded(s, i) ==
  /\ Receive(i, "booking.ended")
  /\ CASE status[i] \in {"CREATED", "HOLD_REQUESTED"} ->
            Begin(s, "cancel", i, "done", "CANCELLED")
       [] status[i] = "HOLD_PLACED" -> Begin(s, "cancelHold", i, "psp", "CANCELLED")
       [] status[i] = "CAPTURED" -> Begin(s, "refund", i, "psp", "REFUNDED")
       [] OTHER -> UNCHANGED slot
  /\ UNCHANGED <<status, pspId, receipts, emitted, webhooks, psp>>

\* OnDisputeResolvedHandler up to the PSP call, for REFUND and PARTIAL.
DisputeResolved(s, i) ==
  /\ Receive(i, "dispute.resolved")
  /\ IF status[i] = "CAPTURED" THEN Begin(s, "refund", i, "psp", "REFUNDED")
     ELSE UNCHANGED slot
  /\ UNCHANGED <<status, pspId, receipts, emitted, webhooks, psp>>

-----------------------------------------------------------------------------
(* Requests of the payer                                                   *)

\* CreateIntentUseCase up to the PSP call; an intent of the booking, if there
\* is one, is returned as it is.
CreateIntent(s, i) ==
  /\ status[i] = "ABSENT"
  /\ status' = [status EXCEPT ![i] = "CREATED"]
  /\ slot[s] = Idle
  /\ slot' = [slot EXCEPT ![s] =
                [at |-> "psp", op |-> "create", intent |-> i, hold |-> NoHold,
                 saw |-> "CREATED", to |-> "HOLD_PLACED"]]
  /\ UNCHANGED <<pspId, receipts, emitted, consumed, webhooks, psp>>

CaptureIntent(s, i) ==
  /\ status[i] = "HOLD_PLACED"
  /\ Begin(s, "capture", i, "psp", "CAPTURED")
  /\ UNCHANGED <<status, pspId, receipts, emitted, consumed, webhooks, psp>>

\* CancelIntentUseCase; without a psp_intent_id it calls no PSP.
CancelIntent(s, i) ==
  /\ status[i] \in {"CREATED", "HOLD_PLACED"}
  /\ Begin(s, "cancelByPayer", i, IF pspId[i] = NoHold THEN "done" ELSE "psp", "CANCELLED")
  /\ UNCHANGED <<status, pspId, receipts, emitted, consumed, webhooks, psp>>

RefundIntent(s, i) ==
  /\ status[i] = "CAPTURED"
  /\ Begin(s, "refund", i, "psp", "REFUNDED")
  /\ UNCHANGED <<status, pspId, receipts, emitted, consumed, webhooks, psp>>

-----------------------------------------------------------------------------
(* Workers                                                                 *)

\* HoldPlacementWorker: the row is read without a lock, so that two instances,
\* or one before and after a crash, may both place a hold for it.
PlaceHold(s, i) ==
  /\ status[i] = "HOLD_REQUESTED"
  /\ Begin(s, "hold", i, "psp", "HOLD_PLACED")
  /\ UNCHANGED <<status, pspId, receipts, emitted, consumed, webhooks, psp>>

\* ReconciliationWorker: an intent not updated for RECONCILIATION_STALE_MINUTES
\* (time is abstract).  Without a psp_intent_id it is given up, with one the PSP
\* is asked.
Reconcile(s, i) ==
  /\ status[i] \in {"CREATED", "HOLD_REQUESTED", "HOLD_PLACED", "CAPTURED"}
  /\ IF pspId[i] # NoHold THEN Begin(s, "reconcile", i, "psp", "ABSENT")
     ELSE /\ status[i] \in {"CREATED", "HOLD_REQUESTED"}
          /\ Begin(s, "reconcile", i, "done", "FAILED")
  /\ UNCHANGED <<status, pspId, receipts, emitted, consumed, webhooks, psp>>

-----------------------------------------------------------------------------
(* The PSP                                                                 *)

\* What a call needs the hold to be, and what it makes of it.  Asked twice for
\* the same, the PSP may agree or refuse.
Needs == [op \in {"capture", "cancelHold", "cancelByPayer", "refund"} |->
            CASE op = "capture" -> {"held", "captured"}
              [] op = "refund" -> {"captured", "refunded"}
              [] OTHER -> {"held", "released"}]
Makes == [op \in {"capture", "cancelHold", "cancelByPayer", "refund"} |->
            CASE op = "capture" -> "captured"
              [] op = "refund" -> "refunded"
              [] OTHER -> "released"]

Applies(s) ==
  /\ ledger[slot[s].hold] \in Needs[slot[s].op]
  /\ ledger' = [ledger EXCEPT ![slot[s].hold] = Makes[slot[s].op]]
  /\ UNCHANGED <<holdFor, refused>>

\* A capture that is refused leaves the hold as it is.
Refuses(s) ==
  /\ refused' = IF slot[s].op = "capture" THEN refused \cup {slot[s].hold} ELSE refused
  /\ UNCHANGED <<ledger, holdFor>>

\* A hold is placed under a new id.
Places(s, h) ==
  /\ ledger[h] = "none"
  /\ ledger' = [ledger EXCEPT ![h] = "held"]
  /\ holdFor' = [holdFor EXCEPT ![h] = slot[s].intent]
  /\ UNCHANGED refused

\* The PSP does what it was asked.
PspAnswers(s) ==
  /\ slot[s].at = "psp"
  /\ \/ /\ slot[s].op \in DOMAIN Needs
        /\ Applies(s)
        /\ slot' = [slot EXCEPT ![s].at = "done"]
     \/ /\ slot[s].op \in {"hold", "create"}
        /\ \E h \in Holds :
             /\ Places(s, h)
             /\ slot' = [slot EXCEPT ![s].at = "done", ![s].hold = h]
  /\ UNCHANGED <<status, pspId, receipts, emitted, consumed, webhooks>>

\* Mutant: a failed PSP call is settled like an answered one.
AfterFailure_Settles(s) ==
  slot' = [slot EXCEPT ![s].at = IF @ = "psp" /\ slot[s].op \in {"hold", "create"}
                                 THEN "failed" ELSE "done"]

\* A placement that failed is recorded; any other operation throws.
AfterFailure(s) ==
  IF slot[s].op \in {"hold", "create"} THEN slot' = [slot EXCEPT ![s].at = "failed"]
  ELSE Ends(s)

\* The PSP refuses, or answers too late, its effect in place: an error.
PspFails(s) ==
  /\ slot[s].at = "psp"
  /\ AfterFailure(s)
  /\ \/ Refuses(s)
     \/ slot[s].op \in DOMAIN Needs /\ Applies(s)
     \/ slot[s].op \in {"hold", "create"} /\ \E h \in Holds : Places(s, h)
  /\ UNCHANGED <<status, pspId, receipts, emitted, consumed, webhooks>>

\* getStatus for the reconciliation.
PspReports(s) ==
  /\ slot[s].at = "psp" /\ slot[s].op = "reconcile"
  /\ LET st == PspStatus[ledger[slot[s].hold]] IN
       IF st = slot[s].saw THEN Ends(s)
       ELSE slot' = [slot EXCEPT ![s].at = "done", ![s].to = st]
  /\ UNCHANGED <<status, pspId, receipts, emitted, consumed, webhooks, psp>>

\* The PSP gives up a hold on its own (it expires, the card is blocked).
PspDropsHold(h) ==
  /\ ledger[h] = "held"
  /\ ledger' = [ledger EXCEPT ![h] = "dropped"]
  /\ UNCHANGED <<status, pspId, receipts, emitted, consumed, webhooks, holdFor, refused, slot>>

\* The PSP calls back only with what has happened, in any order and late: a
\* capture it refused may have been asked for again and carried out since.
Happened(h, w) ==
  CASE w = "hold.succeeded" -> ledger[h] # "none"
    [] w = "capture.succeeded" -> ledger[h] \in {"captured", "refunded"}
    [] w = "refund.succeeded" -> ledger[h] = "refunded"
    [] w = "capture.failed" -> h \in refused
    [] OTHER -> ledger[h] = "dropped"

\* HandleWebhookUseCase, one transaction under the intent's lock.  It publishes
\* nothing and creates no receipt.
Webhook(i, h, w) ==
  /\ Happened(h, w)
  /\ pspId[i] = h
  /\ <<h, w>> \notin webhooks
  /\ webhooks' = webhooks \cup {<<h, w>>}
  /\ status' = IF <<status[i], WebhookStatus[w]>> \in ValidTransitions
               THEN [status EXCEPT ![i] = WebhookStatus[w]] ELSE status
  /\ UNCHANGED <<pspId, receipts, emitted, consumed, psp, slot>>

-----------------------------------------------------------------------------
(* The transaction that settles an operation, under the intent's lock      *)

\* Mutant: the status is not looked at again.
Still_Unchecked(s, allowed) == allowed \subseteq Status

\* The status is, at this second look, one the operation expects.
Still(s, allowed) == status[slot[s].intent] \in allowed

\* If so the new status and event e are written, otherwise nothing is.
Settle(s, allowed, e) ==
  /\ slot[s].at = "done"
  /\ IF Still(s, allowed)
     THEN /\ status' = [status EXCEPT ![slot[s].intent] = slot[s].to]
          /\ Publish(slot[s].intent, e)
     ELSE UNCHANGED <<status, emitted>>
  /\ Ends(s)

CommitCapture(s) ==
  /\ slot[s].op = "capture"
  /\ Settle(s, {"HOLD_PLACED"}, "payment.captured")
  /\ receipts' = IF Still(s, {"HOLD_PLACED"})
                 THEN [receipts EXCEPT ![slot[s].intent] = @ + 1] ELSE receipts
  /\ UNCHANGED <<pspId, consumed, webhooks, psp>>

\* cancelWithoutPsp: refused when the hold was placed meanwhile (the handler
\* throws), not when it was also captured.
CommitCancel(s) ==
  /\ slot[s].op = "cancel"
  /\ Settle(s, {"CREATED", "HOLD_REQUESTED", "CAPTURED"}, "payment.cancelled")
  /\ UNCHANGED <<pspId, receipts, consumed, webhooks, psp>>

CommitCancelHold(s) ==
  /\ slot[s].op = "cancelHold"
  /\ Settle(s, {"HOLD_PLACED"}, "payment.cancelled")
  /\ UNCHANGED <<pspId, receipts, consumed, webhooks, psp>>

CommitCancelByPayer(s) ==
  /\ slot[s].op = "cancelByPayer"
  /\ Settle(s, {"CREATED", "HOLD_PLACED"}, "payment.cancelled")
  /\ UNCHANGED <<pspId, receipts, consumed, webhooks, psp>>

CommitRefund(s) ==
  /\ slot[s].op = "refund"
  /\ Settle(s, {"CAPTURED"}, "payment.refunded")
  /\ UNCHANGED <<pspId, receipts, consumed, webhooks, psp>>

\* Mutant: the hold is announced although the status has moved on.
CommitHold_AnnouncesAnyway(s) ==
  /\ slot[s].at = "done" /\ slot[s].op \in {"hold", "create"}
  /\ IF Still(s, {"CREATED", "HOLD_REQUESTED"})
     THEN /\ status' = [status EXCEPT ![slot[s].intent] = "HOLD_PLACED"]
          /\ pspId' = [pspId EXCEPT ![slot[s].intent] = slot[s].hold]
     ELSE UNCHANGED <<status, pspId>>
  /\ Publish(slot[s].intent, "payment.intent.hold_placed")
  /\ Ends(s)
  /\ UNCHANGED <<receipts, consumed, webhooks, psp>>

\* The worker's and CreateIntentUseCase's: if the status has moved on, the hold
\* just placed is forgotten.
CommitHold(s) ==
  LET expected == IF slot[s].op = "hold" THEN {"HOLD_REQUESTED"} ELSE {"CREATED"} IN
  /\ slot[s].op \in {"hold", "create"}
  /\ Settle(s, expected, "payment.intent.hold_placed")
  /\ pspId' = IF Still(s, expected)
              THEN [pspId EXCEPT ![slot[s].intent] = slot[s].hold] ELSE pspId
  /\ UNCHANGED <<receipts, consumed, webhooks, psp>>

\* The worker's failed placement.
RecordHoldFailure(s) ==
  /\ slot[s].at = "failed" /\ slot[s].op = "hold"
  /\ IF Still(s, {"HOLD_REQUESTED"})
     THEN /\ status' = [status EXCEPT ![slot[s].intent] = "FAILED"]
          /\ Publish(slot[s].intent, "payment.intent.failed")
     ELSE UNCHANGED <<status, emitted>>
  /\ Ends(s)
  /\ UNCHANGED <<pspId, receipts, consumed, webhooks, psp>>

\* CreateIntentUseCase's: no lock, no second look, no event.
RecordCreateFailure(s) ==
  /\ slot[s].at = "failed" /\ slot[s].op = "create"
  /\ status' = [status EXCEPT ![slot[s].intent] = "FAILED"]
  /\ Ends(s)
  /\ UNCHANGED <<pspId, receipts, emitted, consumed, webhooks, psp>>

\* OUTBOX_EVENT_MAP of the reconciliation.
Reconciled(st) ==
  CASE st = "CAPTURED" -> "payment.captured"
    [] st = "REFUNDED" -> "payment.refunded"
    [] st = "CANCELLED" -> "payment.cancelled"
    [] st = "HOLD_PLACED" -> "payment.intent.hold_placed"
    [] OTHER -> "payment.failed"

\* If the status is still the one read; no receipt is created.
CommitReconcile(s) ==
  /\ slot[s].op = "reconcile"
  /\ Settle(s, {slot[s].saw}, Reconciled(slot[s].to))
  /\ UNCHANGED <<pspId, receipts, consumed, webhooks, psp>>

\* The process dies, or its transaction fails: whatever was under way is gone.
Crash(s) ==
  /\ slot[s] # Idle
  /\ Ends(s)
  /\ UNCHANGED <<status, pspId, receipts, emitted, consumed, webhooks, psp>>

-----------------------------------------------------------------------------
Commit(s) ==
  \/ CommitCapture(s)
  \/ CommitCancel(s)
  \/ CommitCancelHold(s)
  \/ CommitCancelByPayer(s)
  \/ CommitRefund(s)
  \/ CommitHold(s)
  \/ RecordHoldFailure(s)
  \/ RecordCreateFailure(s)
  \/ CommitReconcile(s)

Next ==
  \/ \E i \in Intents : BookingCreated(i)
  \/ \E s \in Slots, i \in Intents :
       \/ BookingConfirmed(s, i)
       \/ BookingEnded(s, i)
       \/ DisputeResolved(s, i)
       \/ CreateIntent(s, i)
       \/ CaptureIntent(s, i)
       \/ CancelIntent(s, i)
       \/ RefundIntent(s, i)
       \/ PlaceHold(s, i)
       \/ Reconcile(s, i)
  \/ \E s \in Slots : PspAnswers(s) \/ PspFails(s) \/ PspReports(s) \/ Commit(s) \/ Crash(s)
  \/ \E h \in Holds : PspDropsHold(h)
  \/ \E i \in Intents, h \in Holds, w \in WebhookTypes : Webhook(i, h, w)

Spec == Init /\ [][Next]_vars

\* Workers tick for ever; a call to the PSP ends within PSP_TIMEOUT_MS, and a
\* restarted service does not die at the same place every time: strong fairness,
\* for a crash or another operation may take the step's turn again and again.
Call(s) == PspAnswers(s) \/ PspFails(s) \/ PspReports(s)

Fairness ==
  /\ \A s \in Slots : SF_vars(Call(s)) /\ SF_vars(Commit(s))
  /\ \A i \in Intents : SF_vars(\E s \in Slots : PlaceHold(s, i))
  /\ \A i \in Intents : SF_vars(\E s \in Slots : Reconcile(s, i))

FairSpec == Spec /\ Fairness

-----------------------------------------------------------------------------
(* Properties                                                              *)

\* Every variable holds rows of its table, or a state of the PSP.
TypeOK ==
  /\ status \in [Intents -> Status]
  /\ pspId \in [Intents -> Holds \cup {NoHold}]
  /\ receipts \in [Intents -> Nat]
  /\ emitted \in [Intents -> [PaymentEvents -> Nat]]
  /\ consumed \subseteq Intents \X BookingEvents
  /\ webhooks \subseteq Holds \X WebhookTypes
  /\ ledger \in [Holds -> HoldStates]
  /\ holdFor \in [Holds -> Intents \cup {NoIntent}]
  /\ refused \subseteq Holds
  /\ slot \in [Slots -> Slot]

\* The hold an intent names was placed for its booking, so that no intent's
\* money is captured or given back through another's.
HoldsAreOwned ==
  \A i \in Intents :
    /\ pspId[i] # NoHold => holdFor[pspId[i]] = i
    /\ status[i] \in {"HOLD_PLACED", "CAPTURED", "REFUNDED"} => pspId[i] # NoHold

\* An intent says CAPTURED only of money taken, REFUNDED only of money given
\* back, and FAILED only of a hold given up or refused to a capture, whichever
\* answers, webhooks and reconciliations overtake each other.
MoneyMatchesStatus ==
  \A i \in Intents :
    pspId[i] # NoHold =>
      LET l == ledger[pspId[i]] IN
      /\ status[i] = "CAPTURED" => l \in {"captured", "refunded"}
      /\ status[i] = "REFUNDED" => l = "refunded"
      /\ status[i] = "FAILED" => l = "dropped" \/ pspId[i] \in refused

\* Nobody is charged twice for a booking: of the holds two instances, a crash or
\* a late answer may have placed for it, at most one is ever captured.
ChargedOnce ==
  \A h, k \in Holds :
    ledger[h] \in {"captured", "refunded"} /\ ledger[k] \in {"captured", "refunded"}
      /\ holdFor[h] = holdFor[k] => h = k

\* No event of an intent is published twice, at most one says that it is over,
\* and a capture makes at most one receipt, although the same event, request
\* and reconciliation may all have settled the same PSP operation.
Over == {"payment.cancelled", "payment.refunded", "payment.failed", "payment.intent.failed"}
AnnouncedOnce ==
  \A i \in Intents :
    /\ \A e \in PaymentEvents : emitted[i][e] \in {0, 1}
    /\ \A e, f \in Over : emitted[i][e] = 1 /\ emitted[i][f] = 1 => e = f
    /\ receipts[i] <= emitted[i]["payment.captured"]

\* What is announced is so: payment.captured only of money taken, and
\* payment.refunded only of money given back.
AnnouncedTruly ==
  \A i \in Intents :
    /\ emitted[i]["payment.captured"] > 0 =>
         pspId[i] # NoHold /\ ledger[pspId[i]] \in {"captured", "refunded"}
    /\ emitted[i]["payment.refunded"] > 0 => status[i] = "REFUNDED"

\* Every change of an intent is a declared one, but for two: a cancellation that
\* found HOLD_REQUESTED settles over CAPTURED, and a failed creation over
\* CANCELLED.  In particular nothing ever leaves the terminal statuses.
Exceptions == {<<"CAPTURED", "CANCELLED">>, <<"CANCELLED", "FAILED">>}
TransitionsAreKnown ==
  [][\A i \in Intents :
       status'[i] # status[i] /\ status[i] # "ABSENT" =>
         <<status[i], status'[i]>> \in ValidTransitions \cup Exceptions]_vars

\* No hold is requested for ever: the worker places it, or it is given up.
HoldRequestsResolve ==
  \A i \in Intents : (status[i] = "HOLD_REQUESTED") ~> (status[i] # "HOLD_REQUESTED")
-----------------------------------------------------------------------------
(* What others are promised of a payment                                   *)

\* What became of the money the intent names.
Money(i) == IF pspId[i] = NoHold THEN "none" ELSE ledger[pspId[i]]

Lifecycle == INSTANCE IntentLifecycle WITH money <- [i \in Intents |-> Money(i)]

\* Requests, events, webhooks and workers, all under way at once, keep to the
\* life of a payment IntentLifecycle describes: one status change at a time,
\* each with the money it claims and at most one event.
KeepsPromise == Lifecycle!Spec
=============================================================================
