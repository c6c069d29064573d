------------------------ MODULE PaymentIntentProofs ------------------------
(***************************************************************************)
(* What PaymentIntent promises for every set of intents, holds and         *)
(* operations under way, checked by TLAPS.                                 *)
(***************************************************************************)
EXTENDS PaymentIntent, TLAPS

-----------------------------------------------------------------------------
(* The inductive invariant                                                 *)

\* Charges, statuses and calls by what they have in common.
Taken == {"captured", "refunded"}
Waiting == {"CREATED", "HOLD_REQUESTED"}
Unplaced == {"ABSENT"} \cup Waiting
WithHold == {"HOLD_PLACED", "CAPTURED", "REFUNDED"}
Placing == {"hold", "create"}
Cancelling == {"cancel", "cancelHold", "cancelByPayer"}
Asking == {"capture", "cancelHold", "cancelByPayer", "refund", "reconcile"}

\* An intent names a hold once its status says that one was placed; the hold was
\* placed for it, and its status agrees with the money.  Money is given back only
\* after the intent said that it was taken.
RowIsSound(i) ==
  /\ status[i] \in Unplaced => pspId[i] = NoHold
  /\ status[i] \in WithHold => pspId[i] # NoHold
  /\ pspId[i] # NoHold =>
       /\ holdFor[pspId[i]] = i
       /\ ledger[pspId[i]] # "none"
       /\ status[i] = "CAPTURED" => ledger[pspId[i]] \in Taken
       /\ status[i] = "REFUNDED" => ledger[pspId[i]] = "refunded"
       /\ status[i] = "FAILED" => ledger[pspId[i]] = "dropped" \/ pspId[i] \in refused
       /\ ledger[pspId[i]] = "refunded" => status[i] # "HOLD_PLACED"

\* What an operation under way is about to do, by its kind.
SlotShape(sl) ==
  \/ sl = Idle
  \/ /\ sl.at # "idle" /\ sl.op # "none" /\ sl.intent \in Intents
     /\ sl.at = "failed" => sl.op \in Placing
     /\ sl.op = "cancel" => sl.at = "done"
     /\ sl.op = "capture" => sl.to = "CAPTURED" /\ sl.hold # NoHold
     /\ sl.op = "refund" => sl.to = "REFUNDED" /\ sl.hold # NoHold
     /\ sl.op = "cancelHold" => sl.hold # NoHold
     /\ sl.op \in Cancelling => sl.to = "CANCELLED"
     /\ sl.op \in Placing => sl.to = "HOLD_PLACED" /\ (sl.at = "done" => sl.hold # NoHold)
     /\ sl.at = "psp" /\ sl.op \notin Placing => sl.hold # NoHold
     /\ sl.op = "reconcile" =>
          IF sl.hold = NoHold THEN sl.to = "FAILED" /\ sl.saw \in Waiting
          ELSE sl.saw \in {"HOLD_PLACED", "CAPTURED"}

\* What it has read or been answered still holds.
SlotFacts(sl) ==
  LET i == sl.intent
      money == ledger[sl.hold] IN
  /\ sl.op \in Asking /\ sl.hold # NoHold => pspId[i] = sl.hold
  /\ sl.op = "refund" => status[i] # "HOLD_PLACED"
  /\ sl.op = "capture" /\ sl.at = "done" => money \in Taken
  /\ sl.op = "refund" /\ sl.at = "done" => money = "refunded"
  /\ sl.op \in Placing /\ sl.at = "done" =>
       money \in {"held", "dropped"} /\ holdFor[sl.hold] = i /\ pspId[i] # sl.hold
  /\ sl.op = "create" => status[i] \in {"CREATED", "CANCELLED", "FAILED"} /\ pspId[i] = NoHold
  /\ sl.op = "reconcile" /\ sl.hold # NoHold =>
       /\ sl.saw = "CAPTURED" => money \in Taken
       /\ sl.at = "done" =>
            /\ sl.to # sl.saw
            /\ \/ sl.to = "CAPTURED" /\ money \in Taken
               \/ sl.to = "REFUNDED" /\ money = "refunded"
               \/ sl.to = "FAILED" /\ money = "dropped"
               \/ sl.to = "CANCELLED" /\ money = "released"

\* What was announced of an intent is in its status.
OutboxIsSound(i) ==
  LET said(e) == emitted[i][e] > 0 IN
  /\ \A e \in PaymentEvents : emitted[i][e] \in {0, 1}
  /\ said("payment.intent.hold_placed") => status[i] \notin Unplaced
  /\ said("payment.captured") =>
       status[i] \in {"CAPTURED", "CANCELLED", "REFUNDED"} /\ pspId[i] # NoHold
         /\ ledger[pspId[i]] \in Taken
  /\ said("payment.cancelled") => status[i] \in {"CANCELLED", "FAILED"}
  /\ said("payment.refunded") => status[i] = "REFUNDED"
  /\ said("payment.failed") \/ said("payment.intent.failed") => status[i] = "FAILED"
  /\ \A e, f \in Over : said(e) /\ said(f) => e = f
  /\ receipts[i] <= emitted[i]["payment.captured"]

\* An intent is created by one operation, and no two were given the same hold.
SlotsAreApart ==
  \A s, t \in Slots :
    \/ slot[s].op = "create" /\ slot[t].op = "create" /\ slot[s].intent = slot[t].intent
    \/ /\ slot[s].op \in Placing /\ slot[s].at = "done"
       /\ slot[t].op \in Placing /\ slot[t].at = "done" /\ slot[s].hold = slot[t].hold
    => s = t

\* The PSP captures, releases and gives back only the hold an intent names.
HoldsAreSound ==
  \A h \in Holds :
    ledger[h] \in {"captured", "released", "refunded"} =>
      holdFor[h] \in Intents /\ pspId[holdFor[h]] = h

\* What RowIsSound, SlotFacts and OutboxIsSound say, of all of them.
RowsAreSound == \A i \in Intents : RowIsSound(i)
SlotsAreSound == \A s \in Slots : SlotShape(slot[s]) /\ SlotFacts(slot[s])
OutboxesAreSound == \A i \in Intents : OutboxIsSound(i)

\* The inductive invariant.
Inv ==
  /\ TypeOK
  /\ RowsAreSound
  /\ SlotsAreSound
  /\ OutboxesAreSound
  /\ SlotsAreApart
  /\ HoldsAreSound

-----------------------------------------------------------------------------
(* Types                                                                   *)

\* The actions of Next by name: the case split of every step proof below.
LEMMA NextCases ==
  ASSUME Next
  PROVE  \/ \E i \in Intents : BookingCreated(i)
         \/ \E s \in Slots, i \in Intents :
              BookingConfirmed(s, i) \/ BookingEnded(s, i) \/ DisputeResolved(s, i)
         \/ \E s \in Slots, i \in Intents : CreateIntent(s, i)
         \/ \E s \in Slots, i \in Intents :
              CaptureIntent(s, i) \/ CancelIntent(s, i) \/ RefundIntent(s, i)
         \/ \E s \in Slots, i \in Intents : PlaceHold(s, i) \/ Reconcile(s, i)
         \/ \E s \in Slots : PspAnswers(s)
         \/ \E s \in Slots : PspFails(s)
         \/ \E s \in Slots : PspReports(s)
         \/ \E s \in Slots : Commit(s)
         \/ \E s \in Slots : Crash(s)
         \/ \E h \in Holds : PspDropsHold(h)
         \/ \E i \in Intents, h \in Holds, w \in WebhookTypes : Webhook(i, h, w)
  BY DEF Next

\* No operation is a value of slot.
LEMMA IdleType == Idle \in Slot
  BY DEF Idle, Slot, Operations, Status

\* An operation that begins keeps slot well typed.
LEMMA BeginType ==
  ASSUME NEW s \in Slots, NEW i \in Intents, TypeOK,
         NEW at \in {"psp", "done"}, NEW op \in Operations, NEW to \in Status,
         Begin(s, op, i, at, to)
  PROVE  slot' \in [Slots -> Slot]
  BY DEF Begin, TypeOK, Slot

\* So does one that ends.
LEMMA EndsType ==
  ASSUME NEW s \in Slots, TypeOK, Ends(s)
  PROVE  slot' \in [Slots -> Slot]
  BY IdleType DEF Ends, TypeOK

\* And a call that moves it to another stage, with another hold or answer.
LEMMA CallType ==
  ASSUME NEW s \in Slots, TypeOK, NEW at \in {"done", "failed"},
         NEW h \in Holds \cup {NoHold}, NEW to \in Status,
         \/ slot' = [slot EXCEPT ![s].at = at]
         \/ slot' = [slot EXCEPT ![s].at = at, ![s].hold = h]
         \/ slot' = [slot EXCEPT ![s].at = at, ![s].to = to]
  PROVE  slot' \in [Slots -> Slot]
<1> DEFINE sl == slot[s]
<1>1. sl \in Slot
  BY DEF TypeOK
<1>2. /\ [sl EXCEPT !.at = at] \in Slot
      /\ [[sl EXCEPT !.at = at] EXCEPT !.hold = h] \in Slot
      /\ [[sl EXCEPT !.at = at] EXCEPT !.to = to] \in Slot
  <2> HIDE DEF sl
  <2>1. [sl EXCEPT !.at = at] \in Slot
    BY <1>1 DEF Slot
  <2>2. ASSUME NEW r \in Slot PROVE [r EXCEPT !.hold = h] \in Slot /\ [r EXCEPT !.to = to] \in Slot
    BY DEF Slot
  <2> QED
    BY <2>1, <2>2
<1>3. \/ slot' = [slot EXCEPT ![s] = [sl EXCEPT !.at = at]]
      \/ slot' = [slot EXCEPT ![s] = [[sl EXCEPT !.at = at] EXCEPT !.hold = h]]
      \/ slot' = [slot EXCEPT ![s] = [[sl EXCEPT !.at = at] EXCEPT !.to = to]]
  BY DEF TypeOK
<1> QED
  BY <1>2, <1>3 DEF TypeOK

\* What the PSP makes of a hold is a state of a hold.
LEMMA LedgerType ==
  ASSUME NEW s \in Slots, TypeOK, slot[s].op \in DOMAIN Needs \cup Placing,
         \/ Refuses(s) /\ (slot[s].op = "capture" => slot[s].hold \in Holds)
         \/ slot[s].op \in DOMAIN Needs /\ Applies(s)
         \/ \E h \in Holds : Places(s, h)
  PROVE  /\ ledger' \in [Holds -> HoldStates]
         /\ holdFor' \in [Holds -> Intents \cup {NoIntent}]
         /\ refused' \subseteq Holds
  BY DEF TypeOK, Applies, Places, Refuses, Needs, Makes, HoldStates, Placing, Slot

\* A new row of the outbox.
LEMMA PublishType ==
  ASSUME NEW i \in Intents, NEW e \in PaymentEvents, TypeOK, Publish(i, e)
  PROVE  emitted' \in [Intents -> [PaymentEvents -> Nat]]
  BY DEF Publish, TypeOK

\* A settling transaction writes a status and an event.
LEMMA SettleType ==
  ASSUME NEW s \in Slots, TypeOK, SlotsAreSound, NEW allowed, NEW e \in PaymentEvents,
         Settle(s, allowed, e)
  PROVE  /\ status' \in [Intents -> Status]
         /\ emitted' \in [Intents -> [PaymentEvents -> Nat]]
         /\ slot' \in [Slots -> Slot]
<1>1. slot[s].intent \in Intents /\ slot[s].to \in Status
  BY DEF SlotsAreSound, SlotShape, Settle, Idle, TypeOK, Slot
<1>2. slot' \in [Slots -> Slot]
  BY EndsType DEF Settle
<1>3. CASE Still(s, allowed)
  <2>1. emitted' \in [Intents -> [PaymentEvents -> Nat]]
    BY <1>1, <1>3, PublishType DEF Settle
  <2> QED
    BY <1>1, <1>2, <1>3, <2>1 DEF Settle, TypeOK
<1>4. CASE ~Still(s, allowed)
  BY <1>2, <1>4 DEF Settle, TypeOK
<1> QED
  BY <1>3, <1>4

\* The service starts with empty tables.
LEMMA InitType ==
  ASSUME Init
  PROVE  TypeOK
  BY IdleType DEF Init, TypeOK, Status, HoldStates

\* Every step keeps every row, hold and operation well typed.
LEMMA TypeStep ==
  ASSUME TypeOK, SlotsAreSound, [Next]_vars
  PROVE  TypeOK'
<1> USE DEF TypeOK
<1>1. ASSUME NEW i \in Intents, BookingCreated(i) PROVE TypeOK'
  BY <1>1 DEF BookingCreated, Receive, psp, Status, BookingEvents
<1>2. ASSUME NEW s \in Slots, NEW i \in Intents,
             BookingConfirmed(s, i) \/ BookingEnded(s, i) \/ DisputeResolved(s, i)
      PROVE  TypeOK'
  <2>1. slot' \in [Slots -> Slot]
    BY <1>2, BeginType DEF BookingConfirmed, BookingEnded, DisputeResolved, Operations, Status
  <2> QED
    BY <1>2, <2>1 DEF BookingConfirmed, BookingEnded, DisputeResolved, Receive, psp, BookingEvents
<1>3. ASSUME NEW s \in Slots, NEW i \in Intents, CreateIntent(s, i) PROVE TypeOK'
  BY <1>3 DEF CreateIntent, psp, Status, Slot, Operations
<1>4. ASSUME NEW s \in Slots, NEW i \in Intents,
             CaptureIntent(s, i) \/ CancelIntent(s, i) \/ RefundIntent(s, i)
      PROVE  TypeOK'
  <2>1. slot' \in [Slots -> Slot]
    BY <1>4, BeginType DEF CaptureIntent, CancelIntent, RefundIntent, Operations, Status
  <2> QED
    BY <1>4, <2>1 DEF CaptureIntent, CancelIntent, RefundIntent, psp
<1>5. ASSUME NEW s \in Slots, NEW i \in Intents, PlaceHold(s, i) \/ Reconcile(s, i)
      PROVE  TypeOK'
  <2>1. slot' \in [Slots -> Slot]
    BY <1>5, BeginType DEF PlaceHold, Reconcile, Operations, Status
  <2> QED
    BY <1>5, <2>1 DEF PlaceHold, Reconcile, psp
<1>6. ASSUME NEW s \in Slots, PspAnswers(s) PROVE TypeOK'
  <2>1. /\ ledger' \in [Holds -> HoldStates] /\ holdFor' \in [Holds -> Intents \cup {NoIntent}]
        /\ refused' \subseteq Holds
    BY <1>6, LedgerType DEF PspAnswers, Placing
  <2>2. slot' \in [Slots -> Slot]
    BY <1>6, CallType DEF PspAnswers, Status
  <2> QED
    BY <1>6, <2>1, <2>2 DEF PspAnswers
<1>7. ASSUME NEW s \in Slots, PspFails(s) PROVE TypeOK'
  <2>0. slot[s].op = "capture" => slot[s].hold \in Holds
    BY <1>7 DEF PspFails, SlotsAreSound, SlotShape, Idle, Slot
  <2>1. /\ ledger' \in [Holds -> HoldStates] /\ holdFor' \in [Holds -> Intents \cup {NoIntent}]
        /\ refused' \subseteq Holds
    BY <1>7, <2>0, LedgerType DEF PspFails, AfterFailure, Placing, Refuses
  <2>2. slot' \in [Slots -> Slot]
    BY <1>7, EndsType, CallType DEF PspFails, AfterFailure, Status
  <2> QED
    BY <1>7, <2>1, <2>2 DEF PspFails
<1>8. ASSUME NEW s \in Slots, PspReports(s) PROVE TypeOK'
  <2>1. slot[s].hold \in Holds
    BY <1>8 DEF PspReports, SlotsAreSound, SlotShape, Idle, Placing, Slot
  <2>2. PspStatus[ledger[slot[s].hold]] \in Status
    BY <2>1 DEF PspStatus, Status, HoldStates
  <2>3. slot' \in [Slots -> Slot]
    BY <1>8, <2>2, EndsType, CallType DEF PspReports
  <2> QED
    BY <1>8, <2>3 DEF PspReports, psp
<1>9. ASSUME NEW s \in Slots, Commit(s) PROVE TypeOK'
  <2>1. ASSUME NEW allowed, NEW e \in PaymentEvents, Settle(s, allowed, e),
               UNCHANGED <<consumed, webhooks, psp>>,
               receipts' \in [Intents -> Nat], pspId' \in [Intents -> Holds \cup {NoHold}]
        PROVE  TypeOK'
    BY <2>1, SettleType DEF psp
  <2>2. slot[s] # Idle => slot[s].intent \in Intents /\ slot[s].hold \in Holds \cup {NoHold}
    BY DEF SlotsAreSound, SlotShape, Slot
  <2>3. CASE CommitCapture(s)
    <3>1. receipts' \in [Intents -> Nat]
      BY <2>2, <2>3 DEF CommitCapture, Idle
    <3> QED
      BY <2>1, <2>3, <3>1 DEF CommitCapture, PaymentEvents
  <2>4. CASE CommitCancel(s) \/ CommitCancelHold(s) \/ CommitCancelByPayer(s) \/ CommitRefund(s)
    BY <2>1, <2>4 DEF CommitCancel, CommitCancelHold, CommitCancelByPayer, CommitRefund, PaymentEvents
  <2>5. CASE CommitHold(s)
    <3>1. pspId' \in [Intents -> Holds \cup {NoHold}]
      BY <2>5 DEF CommitHold, Slot
    <3> QED
      BY <2>1, <2>5, <3>1 DEF CommitHold, PaymentEvents
  <2>6. CASE CommitReconcile(s)
    BY <2>1, <2>6 DEF CommitReconcile, Reconciled, PaymentEvents
  <2>7. CASE RecordHoldFailure(s)
    <3>1. emitted' \in [Intents -> [PaymentEvents -> Nat]]
      BY <2>2, <2>7, PublishType DEF RecordHoldFailure, Idle, PaymentEvents
    <3> QED
      BY <2>7, <3>1, EndsType DEF RecordHoldFailure, psp, Status
  <2>8. CASE RecordCreateFailure(s)
    BY <2>8, EndsType DEF RecordCreateFailure, psp, Status
  <2> QED
    BY <1>9, <2>3, <2>4, <2>5, <2>6, <2>7, <2>8 DEF Commit
<1>10. ASSUME NEW s \in Slots, Crash(s) PROVE TypeOK'
  BY <1>10, EndsType DEF Crash, psp
<1>11. ASSUME NEW h \in Holds, PspDropsHold(h) PROVE TypeOK'
  BY <1>11 DEF PspDropsHold, HoldStates
<1>12. ASSUME NEW i \in Intents, NEW h \in Holds, NEW w \in WebhookTypes, Webhook(i, h, w)
       PROVE  TypeOK'
  BY <1>12 DEF Webhook, WebhookStatus, psp, Status
<1>13. CASE UNCHANGED vars
  BY <1>13 DEF vars, psp
<1> QED
  BY <1>1, <1>2, <1>3, <1>4, <1>5, <1>6, <1>7, <1>8, <1>9, <1>10, <1>11, <1>12, <1>13, NextCases

-----------------------------------------------------------------------------
(* What a step does to the money and to the rows                           *)

rows == <<status, pspId, emitted, receipts>>

\* The PSP changes one hold: it places it, drops it, or does what an intent that
\* names it asks for.
MoneyMove(h) ==
  \/ /\ ledger[h] = "none"
     /\ ledger' = [ledger EXCEPT ![h] = "held"]
     /\ \E i \in Intents : holdFor' = [holdFor EXCEPT ![h] = i]
  \/ /\ ledger[h] = "held"
     /\ ledger' = [ledger EXCEPT ![h] = "dropped"]
     /\ UNCHANGED holdFor
  \/ /\ ledger[h] = "held"
     /\ \E m \in {"captured", "released"} : ledger' = [ledger EXCEPT ![h] = m]
     /\ \E i \in Intents : pspId[i] = h
     /\ UNCHANGED holdFor
  \/ /\ ledger[h] = "captured"
     /\ ledger' = [ledger EXCEPT ![h] = "refunded"]
     /\ \E i \in Intents : pspId[i] = h /\ status[i] # "HOLD_PLACED"
     /\ UNCHANGED holdFor

\* The status of i goes from one of a set to another.
Moves(i, from, to) ==
  /\ status[i] \in from
  /\ status' = [status EXCEPT ![i] = to]

\* The operation in slot s makes the hold it was given the intent's own.
PlacedBy(s, i) ==
  /\ slot[s].op \in Placing /\ slot[s].at = "done" /\ slot[s].intent = i
  /\ slot' = [slot EXCEPT ![s] = Idle]
  /\ Moves(i, IF slot[s].op = "hold" THEN {"HOLD_REQUESTED"} ELSE {"CREATED"}, "HOLD_PLACED")
  /\ pspId' = [pspId EXCEPT ![i] = slot[s].hold]
  /\ Publish(i, "payment.intent.hold_placed")
  /\ UNCHANGED receipts

\* The row of i moves along the life of a payment, with what may be announced.
RowMove(i) ==
  \/ \E to \in Waiting : Moves(i, {"ABSENT"}, to) /\ UNCHANGED <<pspId, emitted, receipts>>
  \/ \E s \in Slots : PlacedBy(s, i)
  \/ /\ Moves(i, {"HOLD_PLACED"}, "CAPTURED") /\ ledger[pspId[i]] \in Taken
     /\ \/ UNCHANGED <<emitted, receipts>>
        \/ /\ Publish(i, "payment.captured")
           /\ receipts' \in {receipts, [receipts EXCEPT ![i] = @ + 1]}
     /\ UNCHANGED pspId
  \/ /\ Moves(i, {"CAPTURED"}, "REFUNDED") /\ ledger[pspId[i]] = "refunded"
     /\ UNCHANGED emitted \/ Publish(i, "payment.refunded")
     /\ UNCHANGED <<pspId, receipts>>
  \/ /\ Moves(i, Waiting \cup {"HOLD_PLACED", "CAPTURED"}, "CANCELLED")
     /\ Publish(i, "payment.cancelled")
     /\ UNCHANGED <<pspId, receipts>>
  \/ /\ \/ Moves(i, Waiting, "FAILED")
        \/ /\ Moves(i, {"HOLD_PLACED"}, "FAILED")
           /\ ledger[pspId[i]] = "dropped" \/ pspId[i] \in refused
     /\ \/ UNCHANGED emitted
        \/ \E e \in {"payment.failed", "payment.intent.failed"} : Publish(i, e)
     /\ UNCHANGED <<pspId, receipts>>
  \/ /\ Moves(i, {"CANCELLED", "FAILED"}, "FAILED") /\ pspId[i] = NoHold
     /\ UNCHANGED <<pspId, emitted, receipts>>

\* A step changes one hold or one row, or neither, and never both; one that
\* changes neither may have been refused a capture.
StepMoves ==
  \/ UNCHANGED <<ledger, holdFor, rows>> /\ refused \subseteq refused'
  \/ UNCHANGED rows /\ UNCHANGED refused /\ \E h \in Holds : MoneyMove(h)
  \/ UNCHANGED psp /\ \E i \in Intents : RowMove(i)

\* What a call does to the money.
LEMMA CallMoves ==
  ASSUME NEW s \in Slots, TypeOK, RowsAreSound, SlotsAreSound, slot[s].at = "psp", UNCHANGED rows,
         \/ Refuses(s)
         \/ slot[s].op \in DOMAIN Needs /\ Applies(s)
         \/ slot[s].op \in Placing /\ \E h \in Holds : Places(s, h)
  PROVE  StepMoves
<1>1. slot[s].intent \in Intents
  BY DEF SlotsAreSound, SlotShape, Idle
<1>2. CASE slot[s].op \in Placing /\ \E h \in Holds : Places(s, h)
  BY <1>1, <1>2 DEF StepMoves, MoneyMove, Places
<1>3. ASSUME slot[s].op \in DOMAIN Needs, Applies(s) PROVE StepMoves
  <2> DEFINE h == slot[s].hold
             i == slot[s].intent
             op == slot[s].op
  <2>1. op \in {"capture", "cancelHold", "cancelByPayer", "refund"}
    BY <1>3 DEF Needs
  <2>2. h \in Holds /\ pspId[i] = h
    BY <1>1, <2>1 DEF SlotsAreSound, SlotShape, SlotFacts, Idle, Asking, Placing, TypeOK, Slot
  <2>3. ledger[h] \in Needs[op] /\ ledger' = [ledger EXCEPT ![h] = Makes[op]]
        /\ UNCHANGED holdFor /\ UNCHANGED refused
    BY <1>3 DEF Applies
  <2>4. CASE op = "capture"
    <3>1. ledger[h] \in {"held", "captured"} /\ Makes[op] = "captured"
      BY <2>3, <2>4 DEF Needs, Makes
    <3> QED
      BY <1>1, <2>2, <2>3, <3>1 DEF StepMoves, MoneyMove, TypeOK, psp
  <2>5. CASE op = "refund"
    <3>1. ledger[h] \in {"captured", "refunded"} /\ Makes[op] = "refunded"
      BY <2>3, <2>5 DEF Needs, Makes
    <3>2. status[i] # "HOLD_PLACED"
      BY <2>5 DEF SlotsAreSound, SlotFacts
    <3> QED
      BY <1>1, <2>2, <2>3, <3>1, <3>2 DEF StepMoves, MoneyMove, TypeOK, psp
  <2>6. CASE op \in {"cancelHold", "cancelByPayer"}
    <3>1. ledger[h] \in {"held", "released"} /\ Makes[op] = "released"
      BY <2>3, <2>6 DEF Needs, Makes
    <3> QED
      BY <1>1, <2>2, <2>3, <3>1 DEF StepMoves, MoneyMove, TypeOK, psp
  <2> QED
    BY <2>1, <2>4, <2>5, <2>6
<1>4. CASE Refuses(s)
  BY <1>4 DEF Refuses, StepMoves, rows
<1> QED
  BY <1>2, <1>3, <1>4

\* A webhook is applied only to an intent that names the hold it is about.
LEMMA WebhookMoves ==
  ASSUME TypeOK, RowsAreSound, NEW i \in Intents, NEW h \in Holds, NEW w \in WebhookTypes,
         Webhook(i, h, w)
  PROVE  StepMoves
<1> DEFINE to == WebhookStatus[w]
<1>1. pspId[i] = h /\ pspId[i] # NoHold /\ status[i] \notin Unplaced
  BY HoldsAssumption DEF Webhook, RowsAreSound, RowIsSound
<1>2. UNCHANGED <<pspId, emitted, receipts, psp>>
  BY DEF Webhook
<1>3. CASE <<status[i], to>> \notin ValidTransitions
  BY <1>2, <1>3 DEF Webhook, StepMoves, psp, rows
<1>4. CASE <<status[i], to>> \in ValidTransitions
  <2>1. \/ status[i] = "HOLD_PLACED" /\ to \in {"CAPTURED", "CANCELLED", "FAILED"}
        \/ status[i] = "CAPTURED" /\ to = "REFUNDED"
    BY <1>1, <1>4 DEF ValidTransitions, Unplaced, Waiting
  <2>2. \/ to = "CAPTURED" /\ ledger[h] \in Taken
        \/ to = "REFUNDED" /\ ledger[h] = "refunded"
        \/ to = "FAILED" /\ (ledger[h] = "dropped" \/ h \in refused)
        \/ to = "HOLD_PLACED"
    BY DEF Webhook, Happened, WebhookStatus, WebhookTypes, Taken
  <2>3. status' = [status EXCEPT ![i] = to]
    BY <1>4 DEF Webhook
  <2> QED
    BY <1>1, <1>2, <2>1, <2>2, <2>3 DEF StepMoves, psp, RowMove, Moves
<1> QED
  BY <1>3, <1>4

\* A settling transaction writes one row, of an intent its slot names, and only
\* after the second look; its slot is over.
LEMMA SettleMoves ==
  ASSUME NEW s \in Slots, SlotsAreSound, NEW allowed, NEW e, Settle(s, allowed, e)
  PROVE  /\ slot[s].intent \in Intents /\ slot[s].at = "done" /\ SlotShape(slot[s])
         /\ slot' = [slot EXCEPT ![s] = Idle]
         /\ \/ UNCHANGED <<status, emitted>> /\ ~Still(s, allowed)
            \/ /\ Moves(slot[s].intent, allowed, slot[s].to)
               /\ Publish(slot[s].intent, e) /\ Still(s, allowed)
  BY DEF SlotsAreSound, SlotShape, Settle, Still, Moves, Idle, Ends

\* So every commit moves one row or none.
LEMMA CommitMoves ==
  ASSUME NEW s \in Slots, TypeOK, RowsAreSound, SlotsAreSound, Commit(s)
  PROVE  StepMoves
<1> DEFINE sl == slot[s]
           i == slot[s].intent
<1>1. CASE CommitCapture(s)
  <2>1. sl.op = "capture" /\ Settle(s, {"HOLD_PLACED"}, "payment.captured")
    BY <1>1 DEF CommitCapture
  <2>2. sl.to = "CAPTURED" /\ ledger[pspId[i]] \in Taken
    BY <2>1, SettleMoves DEF SlotShape, SlotsAreSound, SlotFacts, Asking, Idle
  <2> QED
    BY <1>1, <2>1, <2>2, SettleMoves DEF CommitCapture, StepMoves, psp, RowMove, Moves, rows
<1>2. CASE CommitCancel(s)
  <2>1. sl.op = "cancel" /\ Settle(s, {"CREATED", "HOLD_REQUESTED", "CAPTURED"}, "payment.cancelled")
    BY <1>2 DEF CommitCancel
  <2> QED
    BY <1>2, <2>1, SettleMoves
    DEF CommitCancel, SlotShape, Idle, Cancelling, StepMoves, psp, RowMove, Moves, Waiting, rows
<1>3. CASE CommitCancelHold(s)
  <2>1. sl.op = "cancelHold" /\ Settle(s, {"HOLD_PLACED"}, "payment.cancelled")
    BY <1>3 DEF CommitCancelHold
  <2> QED
    BY <1>3, <2>1, SettleMoves
    DEF CommitCancelHold, SlotShape, Idle, Cancelling, StepMoves, psp, RowMove, Moves, Waiting, rows
<1>4. CASE CommitCancelByPayer(s)
  <2>1. sl.op = "cancelByPayer" /\ Settle(s, {"CREATED", "HOLD_PLACED"}, "payment.cancelled")
    BY <1>4 DEF CommitCancelByPayer
  <2> QED
    BY <1>4, <2>1, SettleMoves
    DEF CommitCancelByPayer, SlotShape, Idle, Cancelling, StepMoves, psp, RowMove, Moves, Waiting, rows
<1>5. CASE CommitRefund(s)
  <2>1. sl.op = "refund" /\ Settle(s, {"CAPTURED"}, "payment.refunded")
    BY <1>5 DEF CommitRefund
  <2>2. sl.to = "REFUNDED" /\ ledger[pspId[i]] = "refunded"
    BY <2>1, SettleMoves DEF SlotShape, SlotsAreSound, SlotFacts, Asking, Idle
  <2> QED
    BY <1>5, <2>1, <2>2, SettleMoves DEF CommitRefund, StepMoves, psp, RowMove, Moves, rows
<1>6. CASE CommitHold(s)
  <2> DEFINE from == IF sl.op = "hold" THEN {"HOLD_REQUESTED"} ELSE {"CREATED"}
  <2>1. sl.op \in Placing /\ Settle(s, from, "payment.intent.hold_placed")
    BY <1>6 DEF CommitHold, Placing
  <2>2. sl.to = "HOLD_PLACED"
    BY <2>1, SettleMoves DEF SlotShape, Idle, Placing
  <2>3. CASE Still(s, from)
    <3>1. PlacedBy(s, i)
      BY <1>6, <2>1, <2>2, <2>3, SettleMoves DEF CommitHold, PlacedBy
    <3> QED
      BY <1>6, <2>1, <3>1, SettleMoves DEF CommitHold, StepMoves, psp, RowMove
  <2>4. CASE ~Still(s, from)
    BY <1>6, <2>1, <2>4, SettleMoves DEF CommitHold, StepMoves, psp, rows
  <2> QED
    BY <2>3, <2>4
<1>7. CASE RecordHoldFailure(s)
  <2>1. i \in Intents
    BY <1>7 DEF RecordHoldFailure, SlotsAreSound, SlotShape, Idle
  <2> QED
    BY <1>7, <2>1 DEF RecordHoldFailure, Still, StepMoves, psp, RowMove, Moves, Waiting, rows
<1>8. CASE RecordCreateFailure(s)
  <2>1. i \in Intents /\ status[i] \in {"CREATED", "CANCELLED", "FAILED"} /\ pspId[i] = NoHold
    BY <1>8 DEF RecordCreateFailure, SlotsAreSound, SlotShape, SlotFacts, Idle
  <2> QED
    BY <1>8, <2>1 DEF RecordCreateFailure, StepMoves, psp, RowMove, Moves, Waiting, rows
<1>9. CASE CommitReconcile(s)
  <2>1. sl.op = "reconcile" /\ Settle(s, {sl.saw}, Reconciled(sl.to))
    BY <1>9 DEF CommitReconcile
  <2>2. CASE UNCHANGED <<status, emitted>>
    BY <1>9, <2>2 DEF CommitReconcile, StepMoves, psp, rows
  <2>3. CASE Moves(i, {sl.saw}, sl.to) /\ Publish(i, Reconciled(sl.to))
    <3>1. UNCHANGED <<pspId, receipts, psp>> /\ i \in Intents /\ sl.at = "done" /\ SlotShape(sl)
      BY <1>9, <2>1, SettleMoves DEF CommitReconcile
    <3>2. CASE sl.hold = NoHold
      <4>1. sl.to = "FAILED" /\ sl.saw \in Waiting
        BY <2>1, <3>1, <3>2 DEF SlotShape, Idle
      <4>2. Moves(i, Waiting, "FAILED") /\ Publish(i, "payment.failed")
        BY <2>3, <4>1 DEF Moves, Reconciled
      <4> QED
        BY <3>1, <4>2 DEF StepMoves, psp, RowMove
    <3>3. CASE sl.hold # NoHold
      <4>1. sl.saw \in {"HOLD_PLACED", "CAPTURED"} /\ pspId[i] = sl.hold
        BY <2>1, <3>1, <3>3 DEF SlotShape, SlotsAreSound, SlotFacts, Idle, Asking
      <4>2. /\ sl.saw = "CAPTURED" => ledger[sl.hold] \in Taken
            /\ sl.to # sl.saw
            /\ \/ sl.to = "CAPTURED" /\ ledger[sl.hold] \in Taken
               \/ sl.to = "REFUNDED" /\ ledger[sl.hold] = "refunded"
               \/ sl.to = "FAILED" /\ ledger[sl.hold] = "dropped"
               \/ sl.to = "CANCELLED" /\ ledger[sl.hold] = "released"
        BY <2>1, <3>1, <3>3 DEF SlotsAreSound, SlotFacts
      <4>3. ledger[sl.hold] = "refunded" => status[i] # "HOLD_PLACED"
        BY <3>1, <3>3, <4>1 DEF RowsAreSound, RowIsSound
      <4>4. \/ sl.saw = "HOLD_PLACED" /\ sl.to \in {"CAPTURED", "FAILED", "CANCELLED"}
            \/ sl.saw = "CAPTURED" /\ sl.to = "REFUNDED"
        BY <2>3, <4>1, <4>2, <4>3 DEF Taken, Moves
      <4>5. RowMove(i)
        BY <2>3, <3>1, <4>1, <4>2, <4>4 DEF RowMove, Moves, Reconciled, Taken, Waiting
      <4> QED
        BY <3>1, <4>5 DEF StepMoves, psp
    <3> QED
      BY <3>2, <3>3
  <2> QED
    BY <2>1, <2>2, <2>3, SettleMoves
<1> QED
  BY <1>1, <1>2, <1>3, <1>4, <1>5, <1>6, <1>7, <1>8, <1>9 DEF Commit

\* The money and the rows move as described in every step of the service.
LEMMA Movements ==
  ASSUME TypeOK, RowsAreSound, SlotsAreSound, [Next]_vars
  PROVE  StepMoves
<1>1. ASSUME NEW i \in Intents, BookingCreated(i) PROVE StepMoves
  BY <1>1 DEF BookingCreated, StepMoves, psp, RowMove, Moves, Waiting, rows
<1>2. ASSUME NEW s \in Slots, NEW i \in Intents,
             BookingConfirmed(s, i) \/ BookingEnded(s, i) \/ DisputeResolved(s, i)
      PROVE  StepMoves
  BY <1>2 DEF BookingConfirmed, BookingEnded, DisputeResolved, StepMoves, psp, rows
<1>3. ASSUME NEW s \in Slots, NEW i \in Intents, CreateIntent(s, i) PROVE StepMoves
  BY <1>3 DEF CreateIntent, StepMoves, psp, RowMove, Moves, Waiting
<1>4. ASSUME NEW s \in Slots, NEW i \in Intents,
             CaptureIntent(s, i) \/ CancelIntent(s, i) \/ RefundIntent(s, i)
      PROVE  StepMoves
  BY <1>4 DEF CaptureIntent, CancelIntent, RefundIntent, StepMoves, psp, rows
<1>5. ASSUME NEW s \in Slots, NEW i \in Intents, PlaceHold(s, i) \/ Reconcile(s, i)
      PROVE  StepMoves
  BY <1>5 DEF PlaceHold, Reconcile, StepMoves, psp, rows
<1>6. ASSUME NEW s \in Slots, PspAnswers(s) PROVE StepMoves
  BY <1>6, CallMoves DEF PspAnswers, Placing, rows
<1>7. ASSUME NEW s \in Slots, PspFails(s) PROVE StepMoves
  BY <1>7, CallMoves DEF PspFails, Placing, rows
<1>8. ASSUME NEW s \in Slots, PspReports(s) PROVE StepMoves
  BY <1>8 DEF PspReports, StepMoves, psp, rows
<1>9. ASSUME NEW s \in Slots, Crash(s) PROVE StepMoves
  BY <1>9 DEF Crash, StepMoves, psp, rows
<1>10. ASSUME NEW h \in Holds, PspDropsHold(h) PROVE StepMoves
  BY <1>10 DEF PspDropsHold, StepMoves, psp, MoneyMove, rows
<1>11. CASE UNCHANGED vars
  BY <1>11 DEF vars, psp, StepMoves, rows
<1> QED
  BY <1>1, <1>2, <1>3, <1>4, <1>5, <1>6, <1>7, <1>8, <1>9, <1>10, <1>11,
     CommitMoves, WebhookMoves, NextCases

-----------------------------------------------------------------------------
(* Rows and announcements                                                  *)

\* A step that moves one row leaves the others alone.
LEMMA OtherRows ==
  ASSUME TypeOK, NEW i \in Intents, NEW j \in Intents, i # j, RowMove(j)
  PROVE  /\ status'[i] = status[i] /\ pspId'[i] = pspId[i]
         /\ emitted'[i] = emitted[i] /\ receipts'[i] = receipts[i]
  BY DEF RowMove, Moves, PlacedBy, Publish, TypeOK

\* A hold that one intent names is named by no other.
LEMMA OneOwner ==
  ASSUME RowsAreSound, NEW i \in Intents, NEW j \in Intents, pspId[i] # NoHold, pspId[i] = pspId[j]
  PROVE  i = j
  BY DEF RowsAreSound, RowIsSound

\* Money and rows stay in agreement.
LEMMA RowStep ==
  ASSUME Inv, TypeOK', StepMoves
  PROVE  RowsAreSound'
<1> SUFFICES ASSUME NEW i \in Intents PROVE RowIsSound(i)'
  BY DEF RowsAreSound
<1> USE DEF Inv
<1>0. RowIsSound(i) /\ pspId[i] \in Holds \cup {NoHold}
  BY DEF RowsAreSound, TypeOK
<1>1. CASE UNCHANGED <<ledger, holdFor, rows>> /\ refused \subseteq refused'
  BY <1>0, <1>1 DEF rows, RowIsSound
<1>2. ASSUME UNCHANGED rows, UNCHANGED refused, NEW h \in Holds, MoneyMove(h) PROVE RowIsSound(i)'
  <2>1. CASE pspId[i] # h
    <3>1. pspId[i] # NoHold => ledger'[pspId[i]] = ledger[pspId[i]] /\ holdFor'[pspId[i]] = holdFor[pspId[i]]
      BY <1>0, <1>2, <2>1 DEF MoneyMove, TypeOK
    <3> QED
      BY <1>0, <1>2, <3>1 DEF rows, RowIsSound
  <2>2. CASE pspId[i] = h
    <3>1. h # NoHold /\ ledger[h] # "none" /\ holdFor[h] = i
      BY <1>0, <2>2, HoldsAssumption DEF RowIsSound
    <3>2. \A j \in Intents : pspId[j] = h => j = i
      BY <2>2, <3>1, OneOwner
    <3>3. UNCHANGED holdFor
      BY <1>2, <3>1 DEF MoneyMove
    <3>4. /\ ledger[h] \in Taken => ledger'[h] \in Taken
          /\ ledger[h] = "refunded" => ledger'[h] = "refunded"
          /\ ledger[h] = "dropped" => ledger'[h] = "dropped"
          /\ ledger'[h] # "none"
          /\ ledger'[h] = "refunded" => status[i] # "HOLD_PLACED"
      BY <1>0, <1>2, <2>2, <3>1, <3>2 DEF MoneyMove, Taken, TypeOK, RowIsSound
    <3> QED
      BY <1>0, <1>2, <2>2, <3>3, <3>4 DEF rows, RowIsSound
  <2> QED
    BY <2>1, <2>2
<1>3. ASSUME UNCHANGED psp, NEW j \in Intents, RowMove(j) PROVE RowIsSound(i)'
  <2>1. CASE i # j
    <3>1. status'[i] = status[i] /\ pspId'[i] = pspId[i]
      BY <1>3, <2>1, OtherRows
    <3> QED
      BY <1>0, <1>3, <3>1 DEF psp, RowIsSound
  <2>2. CASE i = j /\ \E s \in Slots : PlacedBy(s, i)
    <3>1. PICK s \in Slots : PlacedBy(s, i)
      BY <2>2
    <3>2. slot[s].hold # NoHold /\ ledger[slot[s].hold] \in {"held", "dropped"} /\ holdFor[slot[s].hold] = i
      BY <3>1 DEF PlacedBy, SlotsAreSound, SlotShape, SlotFacts, Idle, Placing
    <3>3. status'[i] = "HOLD_PLACED" /\ pspId'[i] = slot[s].hold
      BY <3>1 DEF PlacedBy, Moves, TypeOK
    <3> QED
      BY <1>3, <3>2, <3>3 DEF psp, RowIsSound, Unplaced, Waiting
  <2>3. CASE i = j /\ ~\E s \in Slots : PlacedBy(s, i)
    <3>1. pspId'[i] = pspId[i] /\ status'[i] # "HOLD_PLACED"
      BY <1>3, <2>3 DEF RowMove, Moves, TypeOK, Waiting
    <3>2. CASE status[i] \in Unplaced
      BY <1>0, <1>3, <2>3, <3>1, <3>2 DEF psp, RowMove, Moves, RowIsSound, TypeOK, Unplaced, Waiting, WithHold
    <3>3. CASE status[i] \notin Unplaced
      BY <1>0, <1>3, <2>3, <3>1, <3>3
      DEF psp, RowMove, Moves, RowIsSound, TypeOK, Unplaced, Waiting, WithHold
    <3> QED
      BY <3>2, <3>3
  <2> QED
    BY <2>1, <2>2, <2>3
<1> QED
  BY <1>1, <1>2, <1>3 DEF StepMoves

\* A hold once captured or released stays the one its intent names.
LEMMA HoldStep ==
  ASSUME Inv, TypeOK', StepMoves
  PROVE  HoldsAreSound'
<1> SUFFICES ASSUME NEW k \in Holds, ledger'[k] \in {"captured", "released", "refunded"}
             PROVE  holdFor'[k] \in Intents /\ pspId'[holdFor'[k]] = k
  BY DEF HoldsAreSound
<1> USE DEF Inv
<1>1. CASE UNCHANGED <<ledger, holdFor, rows>>
  BY <1>1 DEF psp, rows, HoldsAreSound
<1>2. ASSUME UNCHANGED rows, NEW h \in Holds, MoneyMove(h)
      PROVE  holdFor'[k] \in Intents /\ pspId'[holdFor'[k]] = k
  <2>1. CASE k # h
    BY <1>2, <2>1 DEF MoneyMove, rows, HoldsAreSound, TypeOK
  <2>2. CASE k = h
    <3>1. UNCHANGED holdFor /\ \E i \in Intents : pspId[i] = h
      BY <1>2, <2>2 DEF MoneyMove, TypeOK
    <3>2. PICK i \in Intents : pspId[i] = h /\ holdFor[h] = i
      BY <3>1, HoldsAssumption DEF RowsAreSound, RowIsSound
    <3> QED
      BY <1>2, <2>2, <3>1, <3>2 DEF rows
  <2> QED
    BY <2>1, <2>2
<1>3. ASSUME UNCHANGED psp, NEW i \in Intents, RowMove(i)
      PROVE  holdFor'[k] \in Intents /\ pspId'[holdFor'[k]] = k
  <2>1. holdFor'[k] = holdFor[k] /\ holdFor[k] \in Intents /\ pspId[holdFor[k]] = k
    BY <1>3 DEF psp, HoldsAreSound
  <2>2. CASE holdFor[k] # i
    BY <1>3, <2>1, <2>2, OtherRows
  <2>3. CASE holdFor[k] = i
    <3>1. status[i] \notin Unplaced
      BY <2>1, <2>3, HoldsAssumption DEF RowsAreSound, RowIsSound
    <3>2. UNCHANGED pspId
      BY <1>3, <3>1 DEF RowMove, PlacedBy, Moves, Unplaced, Waiting
    <3> QED
      BY <2>1, <3>2
  <2> QED
    BY <2>2, <2>3
<1> QED
  BY <1>1, <1>2, <1>3 DEF StepMoves

\* And what was announced stays in the status.
LEMMA OutboxStep ==
  ASSUME Inv, TypeOK', StepMoves
  PROVE  OutboxesAreSound'
<1> SUFFICES ASSUME NEW i \in Intents PROVE OutboxIsSound(i)'
  BY DEF OutboxesAreSound
<1> USE DEF Inv
<1>0. /\ OutboxIsSound(i) /\ RowIsSound(i) /\ pspId[i] \in Holds \cup {NoHold}
      /\ \A e \in PaymentEvents : emitted[i][e] \in Nat
      /\ receipts[i] \in Nat
  BY DEF OutboxesAreSound, RowsAreSound, TypeOK
<1>1. CASE UNCHANGED <<ledger, holdFor, rows>>
  BY <1>0, <1>1 DEF psp, rows, OutboxIsSound
<1>2. ASSUME UNCHANGED rows, NEW h \in Holds, MoneyMove(h) PROVE OutboxIsSound(i)'
  <2>1. pspId[i] # NoHold /\ ledger[pspId[i]] \in Taken => ledger'[pspId[i]] \in Taken
    BY <1>0, <1>2 DEF MoneyMove, Taken, TypeOK
  <2> QED
    BY <1>0, <1>2, <2>1 DEF rows, OutboxIsSound
<1>3. ASSUME UNCHANGED psp, NEW j \in Intents, RowMove(j) PROVE OutboxIsSound(i)'
  <2>1. CASE i # j
    <3>1. status'[i] = status[i] /\ pspId'[i] = pspId[i] /\ emitted'[i] = emitted[i] /\ receipts'[i] = receipts[i]
      BY <1>3, <2>1, OtherRows
    <3> QED
      BY <1>0, <1>3, <3>1 DEF psp, OutboxIsSound
  <2> DEFINE Says(e) ==
               \A f \in PaymentEvents :
                 emitted'[i][f] = IF f = e THEN emitted[i][f] + 1 ELSE emitted[i][f]
  <2>2. \A e \in PaymentEvents : Publish(i, e) => Says(e)
    BY DEF Publish, TypeOK
  <2>4. status[i] \notin Terminal => \A e \in Over : emitted[i][e] = 0
    BY <1>0 DEF OutboxIsSound, Terminal, Over, PaymentEvents
  <2>3. CASE i = j
    <3>1. CASE \E to \in Waiting : Moves(i, {"ABSENT"}, to) /\ UNCHANGED <<pspId, emitted, receipts>>
      BY <1>0, <1>3, <3>1 DEF psp, Moves, OutboxIsSound, TypeOK, Unplaced, Waiting
    <3>2. CASE \E s \in Slots : PlacedBy(s, i)
      <4>1. /\ status[i] \in Unplaced /\ status'[i] = "HOLD_PLACED"
            /\ Says("payment.intent.hold_placed") /\ receipts'[i] = receipts[i]
        BY <2>2, <3>2 DEF PlacedBy, Moves, TypeOK, Unplaced, Waiting, PaymentEvents
      <4> QED
        BY <1>0, <4>1 DEF OutboxIsSound, PaymentEvents, Over, Unplaced, Waiting
    <3>3. CASE /\ Moves(i, {"HOLD_PLACED"}, "CAPTURED") /\ ledger[pspId[i]] \in Taken
               /\ \/ UNCHANGED <<emitted, receipts>>
                  \/ /\ Publish(i, "payment.captured")
                     /\ receipts' \in {receipts, [receipts EXCEPT ![i] = @ + 1]}
               /\ UNCHANGED pspId
      <4>1. /\ status[i] = "HOLD_PLACED" /\ status'[i] = "CAPTURED" /\ UNCHANGED <<pspId, psp>>
            /\ \/ emitted'[i] = emitted[i] /\ receipts'[i] = receipts[i]
               \/ Says("payment.captured") /\ receipts'[i] \in {receipts[i], receipts[i] + 1}
        BY <1>3, <2>2, <3>3 DEF Moves, TypeOK, PaymentEvents
      <4>2. pspId[i] # NoHold
        BY <1>0, <4>1 DEF RowIsSound, WithHold
      <4>3. /\ emitted[i]["payment.captured"] = 0 /\ receipts[i] = 0
            /\ \A e \in Over : emitted'[i][e] = 0
        BY <1>0, <2>4, <4>1 DEF OutboxIsSound, PaymentEvents, Over, Terminal
      <4> QED
        BY <1>0, <3>3, <4>1, <4>2, <4>3 DEF OutboxIsSound, PaymentEvents, Over, Unplaced, Waiting, psp
    <3>4. CASE /\ Moves(i, {"CAPTURED"}, "REFUNDED") /\ ledger[pspId[i]] = "refunded"
               /\ UNCHANGED emitted \/ Publish(i, "payment.refunded")
               /\ UNCHANGED <<pspId, receipts>>
      <4>1. /\ status[i] = "CAPTURED" /\ status'[i] = "REFUNDED" /\ UNCHANGED <<pspId, receipts, psp>>
            /\ emitted'[i] = emitted[i] \/ Says("payment.refunded")
        BY <1>3, <2>2, <3>4 DEF Moves, TypeOK, PaymentEvents
      <4>2. \A e \in Over : emitted'[i][e] = 0 \/ (e = "payment.refunded" /\ emitted'[i][e] = 1)
        BY <1>0, <2>4, <4>1 DEF PaymentEvents, Over, Terminal, Waiting
      <4> QED
        BY <1>0, <4>1, <4>2 DEF OutboxIsSound, PaymentEvents, Over, Unplaced, Waiting, psp
    <3>5. CASE /\ Moves(i, Waiting \cup {"HOLD_PLACED", "CAPTURED"}, "CANCELLED")
               /\ Publish(i, "payment.cancelled")
               /\ UNCHANGED <<pspId, receipts>>
      <4>1. /\ status[i] \in Waiting \cup {"HOLD_PLACED", "CAPTURED"} /\ status'[i] = "CANCELLED"
            /\ UNCHANGED <<pspId, receipts, psp>> /\ Says("payment.cancelled")
        BY <1>3, <2>2, <3>5 DEF Moves, TypeOK, PaymentEvents
      <4>2. \A e \in Over : emitted'[i][e] = 0 \/ (e = "payment.cancelled" /\ emitted'[i][e] = 1)
        BY <1>0, <2>4, <4>1 DEF PaymentEvents, Over, Terminal, Waiting
      <4> QED
        BY <1>0, <4>1, <4>2 DEF OutboxIsSound, PaymentEvents, Over, Unplaced, Waiting, psp
    <3>6. CASE /\ \/ Moves(i, Waiting, "FAILED")
                  \/ /\ Moves(i, {"HOLD_PLACED"}, "FAILED")
                     /\ ledger[pspId[i]] = "dropped" \/ pspId[i] \in refused
               /\ \/ UNCHANGED emitted
                  \/ \E e \in {"payment.failed", "payment.intent.failed"} : Publish(i, e)
               /\ UNCHANGED <<pspId, receipts>>
      <4>1. /\ status[i] \in Waiting \cup {"HOLD_PLACED"} /\ status'[i] = "FAILED"
            /\ UNCHANGED <<pspId, receipts, psp>>
            /\ \/ emitted'[i] = emitted[i] \/ Says("payment.failed") \/ Says("payment.intent.failed")
        BY <1>3, <2>2, <3>6 DEF Moves, TypeOK, PaymentEvents
      <4>2. \E x \in {"payment.failed", "payment.intent.failed"} : \A e \in Over :
              emitted'[i][e] = 0 \/ (e = x /\ emitted'[i][e] = 1)
        BY <1>0, <2>4, <4>1 DEF PaymentEvents, Over, Terminal, Waiting
      <4> QED
        BY <1>0, <4>1, <4>2 DEF OutboxIsSound, PaymentEvents, Over, Unplaced, Waiting, psp
    <3>7. CASE /\ Moves(i, {"CANCELLED", "FAILED"}, "FAILED") /\ pspId[i] = NoHold
               /\ UNCHANGED <<pspId, emitted, receipts>>
      <4>1. status[i] \in {"CANCELLED", "FAILED"} /\ status'[i] = "FAILED"
        BY <3>7 DEF Moves, TypeOK
      <4> QED
        BY <1>0, <1>3, <3>7, <4>1 DEF OutboxIsSound, Unplaced, Waiting, psp
    <3> QED
      BY <1>3, <2>3, <3>1, <3>2, <3>3, <3>4, <3>5, <3>6, <3>7 DEF RowMove
  <2> QED
    BY <2>1, <2>3
<1> QED
  BY <1>1, <1>2, <1>3 DEF StepMoves

-----------------------------------------------------------------------------
(* Operations under way                                                    *)

\* What is known of an operation survives the steps of the others.
LEMMA SlotKept ==
  ASSUME Inv, TypeOK', RowsAreSound', StepMoves, NEW s \in Slots, slot'[s] = slot[s]
  PROVE  (SlotShape(slot[s]) /\ SlotFacts(slot[s]))'
<1> DEFINE sl == slot[s]
           i == slot[s].intent
           h == slot[s].hold
<1> USE DEF Inv
<1>0. SlotShape(sl) /\ SlotFacts(sl) /\ sl \in Slot
  BY DEF SlotsAreSound, TypeOK
<1>1. SlotShape(slot[s])'
  BY <1>0 DEF SlotShape
<1>2. CASE UNCHANGED <<ledger, holdFor, rows>>
  BY <1>0, <1>1, <1>2 DEF psp, rows, SlotFacts
<1>3. CASE sl = Idle
  BY <1>1, <1>3 DEF SlotFacts, Idle, Asking, Placing
<1>4. ASSUME sl # Idle, UNCHANGED rows, NEW k \in Holds, MoneyMove(k) PROVE SlotFacts(slot[s])'
  <2>0. i \in Intents /\ h \in Holds \cup {NoHold} /\ RowIsSound(i)
    BY <1>0, <1>4 DEF SlotShape, RowsAreSound, Slot
  <2>1. h \in Holds =>
          /\ ledger[h] \in Taken => ledger'[h] \in Taken
          /\ \A m \in {"refunded", "dropped", "released"} : ledger[h] = m => ledger'[h] = m
    BY <1>4 DEF MoneyMove, Taken, TypeOK
  <2>2. CASE sl.op \in Placing /\ sl.at = "done"
    <3>1. h \in Holds /\ ledger[h] \in {"held", "dropped"} /\ holdFor[h] = i /\ pspId[i] # h
      BY <1>0, <1>4, <2>0, <2>2 DEF SlotShape, SlotFacts
    <3>2. \A j \in Intents : pspId[j] # h
      BY <3>1, HoldsAssumption DEF RowsAreSound, RowIsSound
    <3>3. ledger'[h] \in {"held", "dropped"} /\ holdFor'[h] = i
      BY <1>4, <3>1, <3>2 DEF MoneyMove, TypeOK
    <3> QED
      BY <1>0, <1>4, <2>2, <3>1, <3>3 DEF SlotFacts, rows, Placing, Asking
  <2>3. CASE ~(sl.op \in Placing /\ sl.at = "done")
    <3>1. CASE h = NoHold
      <4>1. sl.op \notin {"capture", "refund"}
        BY <1>0, <1>4, <3>1 DEF SlotShape
      <4> QED
        BY <1>0, <1>4, <2>3, <3>1, <4>1 DEF SlotFacts, rows
    <3>2. CASE h \in Holds
      BY <1>0, <1>4, <2>1, <2>3, <3>2 DEF SlotFacts, rows
    <3> QED
      BY <2>0, <3>1, <3>2
  <2> QED
    BY <2>2, <2>3
<1>5. ASSUME sl # Idle, UNCHANGED psp, NEW j \in Intents, RowMove(j) PROVE SlotFacts(slot[s])'
  <2>0. i \in Intents /\ h \in Holds \cup {NoHold} /\ RowIsSound(i)
    BY <1>0, <1>5 DEF SlotShape, RowsAreSound, Slot
  <2>1. CASE i # j
    <3>1. status'[i] = status[i] /\ pspId'[i] = pspId[i]
      BY <1>5, <2>0, <2>1, OtherRows
    <3> QED
      BY <1>0, <1>5, <3>1 DEF psp, SlotFacts
  <2>2. ASSUME i = j, NEW t \in Slots, PlacedBy(t, i) PROVE SlotFacts(slot[s])'
    <3>1. /\ pspId[i] = NoHold /\ pspId'[i] = slot[t].hold
          /\ status[i] \in Waiting /\ status'[i] = "HOLD_PLACED"
          /\ slot[t].op = "create" => status[i] = "CREATED"
          /\ slot[t].op # "create" => status[i] = "HOLD_REQUESTED"
      BY <2>0, <2>2 DEF PlacedBy, Moves, RowIsSound, Unplaced, Waiting, TypeOK, Placing
    <3>2. s # t
      BY <1>5, <2>2 DEF PlacedBy, TypeOK
    <3>3. sl.op # "create"
      BY <1>0, <2>2, <3>1, <3>2 DEF SlotFacts, SlotsAreApart, PlacedBy
    <3>4. sl.op \in Placing /\ sl.at = "done" => pspId'[i] # h
      BY <2>2, <3>1, <3>2 DEF SlotsAreApart, PlacedBy
    <3>5. sl.op \in Asking => h = NoHold
      BY <1>0, <3>1 DEF SlotFacts
    <3>6. sl.op \notin {"refund", "capture"}
      BY <1>0, <1>5, <3>5 DEF SlotShape, Asking
    <3> QED
      BY <1>0, <1>5, <3>3, <3>4, <3>5, <3>6 DEF SlotFacts, psp
  <2>3. ASSUME i = j, ~\E t \in Slots : PlacedBy(t, i) PROVE SlotFacts(slot[s])'
    <3>1. /\ pspId'[i] = pspId[i] /\ status'[i] # "HOLD_PLACED"
          /\ status[i] \in {"CREATED", "CANCELLED", "FAILED"} /\ pspId[i] = NoHold =>
               status'[i] \in {"CANCELLED", "FAILED"}
      BY <1>5, <2>0, <2>3 DEF RowMove, Moves, TypeOK, Waiting, RowIsSound, WithHold
    <3> QED
      BY <1>0, <1>5, <2>3, <3>1 DEF SlotFacts, psp
  <2> QED
    BY <1>5, <2>1, <2>2, <2>3
<1> QED
  BY <1>1, <1>2, <1>3, <1>4, <1>5 DEF StepMoves, SlotFacts

\* What changes in a slot: one at a time, sound again afterwards, creating an
\* intent only if there is none, given a hold only if it is new.
SlotStep(s) ==
  /\ \A t \in Slots : t # s => slot'[t] = slot[t]
  /\ (SlotShape(slot[s]) /\ SlotFacts(slot[s]))'
  /\ slot'[s].op = "create" =>
       \/ slot[s].op = "create" /\ slot'[s].intent = slot[s].intent
       \/ status[slot'[s].intent] = "ABSENT"
  /\ slot'[s].op \in Placing /\ slot'[s].at = "done" => ledger[slot'[s].hold] = "none"

\* An operation that is over.
LEMMA EndsStep ==
  ASSUME TypeOK, NEW s \in Slots, Ends(s)
  PROVE  SlotStep(s)
  BY DEF TypeOK, Ends, SlotStep, SlotShape, SlotFacts, Idle, Asking, Placing

\* An operation that begins has seen an intent that suits it.
LEMMA BeginStep ==
  ASSUME Inv, NEW s \in Slots, NEW i \in Intents, NEW op, NEW at, NEW to,
         Begin(s, op, i, at, to), UNCHANGED <<psp, rows>>,
         \/ op = "capture" /\ at = "psp" /\ to = "CAPTURED" /\ status[i] = "HOLD_PLACED"
         \/ op = "cancel" /\ at = "done" /\ to = "CANCELLED"
         \/ op = "cancelHold" /\ at = "psp" /\ to = "CANCELLED" /\ status[i] = "HOLD_PLACED"
         \/ op = "cancelByPayer" /\ at \in {"psp", "done"} /\ to = "CANCELLED"
              /\ (at = "psp" => pspId[i] # NoHold)
         \/ op = "refund" /\ at = "psp" /\ to = "REFUNDED" /\ status[i] = "CAPTURED"
         \/ op = "hold" /\ at = "psp" /\ to = "HOLD_PLACED"
         \/ op = "reconcile" /\ at = "psp" /\ pspId[i] # NoHold
              /\ status[i] \in {"HOLD_PLACED", "CAPTURED"}
         \/ op = "reconcile" /\ at = "done" /\ to = "FAILED" /\ pspId[i] = NoHold
              /\ status[i] \in Waiting
  PROVE  SlotStep(s)
<1> DEFINE sl == [at |-> at, op |-> op, intent |-> i, hold |-> pspId[i],
                  saw |-> status[i], to |-> to]
<1>1. slot'[s] = sl /\ \A t \in Slots : t # s => slot'[t] = slot[t]
  BY DEF Inv, TypeOK, Begin
<1>2. RowIsSound(i) /\ UNCHANGED <<status, pspId, ledger, holdFor>>
  BY DEF Inv, RowsAreSound, rows, psp
<1>3. status[i] \in {"HOLD_PLACED", "CAPTURED"} => pspId[i] # NoHold
  BY <1>2 DEF RowIsSound, WithHold
<1>4. SlotShape(sl)
  BY <1>3 DEF SlotShape, Placing, Cancelling
<1>5. SlotFacts(sl)
  BY <1>2 DEF SlotFacts, Asking, Placing, RowIsSound
<1>6. (SlotShape(slot[s]) /\ SlotFacts(slot[s]))'
  BY <1>1, <1>2, <1>4, <1>5 DEF SlotShape, SlotFacts
<1> QED
  BY <1>1, <1>6 DEF SlotStep, Placing

\* An operation that has its answer from the PSP, or its refusal.
LEMMA PspAnswersStep ==
  ASSUME Inv, NEW s \in Slots, PspAnswers(s)
  PROVE  SlotStep(s)
<1> DEFINE sl == slot[s]
           i == sl.intent
<1> USE DEF Inv
<1>1. /\ SlotShape(sl) /\ SlotFacts(sl) /\ sl \in Slot /\ sl.at = "psp" /\ sl # Idle /\ i \in Intents
      /\ UNCHANGED <<status, pspId>>
  BY DEF SlotsAreSound, TypeOK, PspAnswers, SlotShape, Idle
<1>2. ASSUME sl.op \in DOMAIN Needs, Applies(s), slot' = [slot EXCEPT ![s].at = "done"]
      PROVE  SlotStep(s)
  <2>1. sl.op \in {"capture", "cancelHold", "cancelByPayer", "refund"}
    BY <1>2 DEF Needs
  <2>2. sl.hold \in Holds /\ pspId[i] = sl.hold
    BY <1>1, <2>1 DEF SlotShape, SlotFacts, Asking, Placing, Slot
  <2>3. ledger'[sl.hold] = Makes[sl.op]
    BY <1>2, <2>2 DEF Applies, TypeOK
  <2>4. (sl.op = "capture" => Makes[sl.op] = "captured") /\ (sl.op = "refund" => Makes[sl.op] = "refunded")
    BY DEF Makes
  <2>5. slot'[s] = [sl EXCEPT !.at = "done"] /\ \A t \in Slots : t # s => slot'[t] = slot[t]
    BY <1>2 DEF TypeOK
  <2>6. /\ slot'[s].op = sl.op /\ slot'[s].intent = i /\ slot'[s].hold = sl.hold
        /\ slot'[s].to = sl.to /\ slot'[s].saw = sl.saw /\ slot'[s].at = "done"
    BY <1>1, <2>5 DEF Slot
  <2>7. SlotShape(slot[s])'
    BY <1>1, <2>1, <2>6 DEF SlotShape, Placing
  <2>8. SlotFacts(slot[s])'
    BY <1>1, <2>1, <2>2, <2>3, <2>4, <2>6 DEF SlotFacts, Taken, Placing
  <2> QED
    BY <2>1, <2>5, <2>6, <2>7, <2>8 DEF SlotStep, Placing
<1>3. ASSUME sl.op \in Placing, NEW h \in Holds, Places(s, h),
             slot' = [slot EXCEPT ![s].at = "done", ![s].hold = h]
      PROVE  SlotStep(s)
  <2>1. /\ slot'[s].op = sl.op /\ slot'[s].intent = i /\ slot'[s].hold = h
        /\ slot'[s].to = sl.to /\ slot'[s].saw = sl.saw /\ slot'[s].at = "done"
        /\ \A t \in Slots : t # s => slot'[t] = slot[t]
    BY <1>1, <1>3 DEF Slot, TypeOK
  <2>2. ledger[h] = "none" /\ ledger'[h] = "held" /\ holdFor'[h] = i
    BY <1>3 DEF Places, TypeOK
  <2>3. pspId[i] # h
    BY <1>1, <2>2, HoldsAssumption DEF RowsAreSound, RowIsSound
  <2>4. SlotShape(slot[s])'
    BY <1>1, <1>3, <2>1, HoldsAssumption DEF SlotShape, Placing, Cancelling
  <2>5. SlotFacts(slot[s])'
    BY <1>1, <1>3, <2>1, <2>2, <2>3 DEF SlotFacts, Placing, Asking
  <2> QED
    BY <2>1, <2>2, <2>4, <2>5 DEF SlotStep
<1> QED
  BY <1>2, <1>3 DEF PspAnswers, Placing

\* A placement refused is remembered as such, any other refusal ends the operation.
LEMMA PspFailsStep ==
  ASSUME Inv, NEW s \in Slots, PspFails(s)
  PROVE  SlotStep(s)
<1> DEFINE sl == slot[s]
<1> USE DEF Inv
<1>1. CASE sl.op \notin {"hold", "create"}
  BY <1>1, EndsStep DEF PspFails, AfterFailure
<1>2. CASE sl.op \in {"hold", "create"}
  <2>1. SlotShape(sl) /\ SlotFacts(sl) /\ sl \in Slot /\ sl.at = "psp" /\ UNCHANGED <<status, pspId>>
    BY DEF SlotsAreSound, TypeOK, PspFails
  <2>2. slot' = [slot EXCEPT ![s].at = "failed"]
    BY <1>2 DEF PspFails, AfterFailure
  <2>3. /\ slot'[s].op = sl.op /\ slot'[s].intent = sl.intent /\ slot'[s].hold = sl.hold
        /\ slot'[s].to = sl.to /\ slot'[s].saw = sl.saw /\ slot'[s].at = "failed"
        /\ \A t \in Slots : t # s => slot'[t] = slot[t]
    BY <2>1, <2>2 DEF Slot, TypeOK
  <2>4. SlotShape(slot[s])'
    BY <1>2, <2>1, <2>3 DEF SlotShape, Placing, Cancelling, Idle
  <2>5. SlotFacts(slot[s])'
    BY <1>2, <2>1, <2>3 DEF SlotFacts, Placing, Asking
  <2> QED
    BY <2>3, <2>4, <2>5 DEF SlotStep
<1> QED
  BY <1>1, <1>2

\* A reconciliation goes on only when the PSP says something new.
LEMMA PspReportsStep ==
  ASSUME Inv, NEW s \in Slots, PspReports(s)
  PROVE  SlotStep(s)
<1> DEFINE sl == slot[s]
           st == PspStatus[ledger[sl.hold]]
<1> USE DEF Inv
<1>1. CASE st = sl.saw
  BY <1>1, EndsStep DEF PspReports
<1>2. CASE st # sl.saw
  <2>1. /\ SlotShape(sl) /\ SlotFacts(sl) /\ sl \in Slot /\ sl.at = "psp" /\ sl.op = "reconcile"
        /\ UNCHANGED <<status, pspId, ledger, holdFor>>
    BY DEF SlotsAreSound, TypeOK, PspReports, psp
  <2>2. /\ sl.intent \in Intents /\ sl.hold \in Holds /\ pspId[sl.intent] = sl.hold
        /\ sl.saw \in {"HOLD_PLACED", "CAPTURED"} /\ (sl.saw = "CAPTURED" => ledger[sl.hold] \in Taken)
    BY <2>1 DEF SlotShape, SlotFacts, Idle, Placing, Asking, Slot
  <2>3. ledger[sl.hold] # "none" /\ ledger[sl.hold] \in HoldStates
    BY <2>1, <2>2, HoldsAssumption DEF RowsAreSound, RowIsSound, TypeOK
  <2>4. \/ st = "CAPTURED" /\ ledger[sl.hold] = "captured"
        \/ st = "REFUNDED" /\ ledger[sl.hold] = "refunded"
        \/ st = "FAILED" /\ ledger[sl.hold] = "dropped"
        \/ st = "CANCELLED" /\ ledger[sl.hold] = "released"
        \/ st = "HOLD_PLACED" /\ ledger[sl.hold] = "held"
    BY <2>3 DEF PspStatus, HoldStates
  <2>5. st # "HOLD_PLACED"
    BY <1>2, <2>2, <2>4 DEF Taken
  <2>6. /\ slot'[s].op = "reconcile" /\ slot'[s].intent = sl.intent /\ slot'[s].hold = sl.hold
        /\ slot'[s].to = st /\ slot'[s].saw = sl.saw /\ slot'[s].at = "done"
        /\ \A t \in Slots : t # s => slot'[t] = slot[t]
    <3> HIDE DEF st
    <3>1. slot' = [slot EXCEPT ![s].at = "done", ![s].to = st]
      BY <1>2 DEF PspReports, st
    <3> QED
      BY <2>1, <3>1 DEF Slot, TypeOK
  <2>7. SlotShape(slot[s])'
    BY <2>2, <2>6, HoldsAssumption DEF SlotShape, Placing, Cancelling
  <2>8. SlotFacts(slot[s])'
    BY <1>2, <2>1, <2>2, <2>4, <2>5, <2>6 DEF SlotFacts, Placing, Asking, Taken
  <2> QED
    BY <2>6, <2>7, <2>8 DEF SlotStep, Placing
<1> QED
  BY <1>1, <1>2

\* Every step changes at most one slot, and soundly.
LEMMA SlotSteps ==
  ASSUME Inv, [Next]_vars
  PROVE  UNCHANGED slot \/ \E s \in Slots : SlotStep(s)
<1> DEFINE Goal == UNCHANGED slot \/ \E s \in Slots : SlotStep(s)
<1> USE DEF Inv
<1>1. ASSUME NEW s \in Slots, NEW i \in Intents, BookingConfirmed(s, i) PROVE Goal
  BY <1>1, BeginStep DEF BookingConfirmed, rows
<1>2. ASSUME NEW s \in Slots, NEW i \in Intents, BookingEnded(s, i) PROVE Goal
  BY <1>2, BeginStep DEF BookingEnded, rows
<1>3. ASSUME NEW s \in Slots, NEW i \in Intents, DisputeResolved(s, i) PROVE Goal
  BY <1>3, BeginStep DEF DisputeResolved, rows
<1>4. ASSUME NEW s \in Slots, NEW i \in Intents, CreateIntent(s, i) PROVE Goal
  <2>1. /\ slot'[s] = [at |-> "psp", op |-> "create", intent |-> i, hold |-> NoHold,
                       saw |-> "CREATED", to |-> "HOLD_PLACED"]
        /\ \A t \in Slots : t # s => slot'[t] = slot[t]
        /\ status'[i] = "CREATED" /\ status[i] = "ABSENT" /\ UNCHANGED pspId
    BY <1>4 DEF CreateIntent, TypeOK
  <2>2. pspId[i] = NoHold
    BY <2>1 DEF RowsAreSound, RowIsSound, Unplaced
  <2>3. (SlotShape(slot[s]) /\ SlotFacts(slot[s]))'
    BY <2>1, <2>2 DEF SlotShape, SlotFacts, Placing, Cancelling, Asking
  <2> QED
    BY <2>1, <2>3 DEF SlotStep
<1>5. ASSUME NEW s \in Slots, NEW i \in Intents, CaptureIntent(s, i) PROVE Goal
  BY <1>5, BeginStep DEF CaptureIntent, rows
<1>6. ASSUME NEW s \in Slots, NEW i \in Intents, CancelIntent(s, i) PROVE Goal
  BY <1>6, BeginStep DEF CancelIntent, rows
<1>7. ASSUME NEW s \in Slots, NEW i \in Intents, RefundIntent(s, i) PROVE Goal
  BY <1>7, BeginStep DEF RefundIntent, rows
<1>8. ASSUME NEW s \in Slots, NEW i \in Intents, PlaceHold(s, i) PROVE Goal
  BY <1>8, BeginStep DEF PlaceHold, rows
<1>9. ASSUME NEW s \in Slots, NEW i \in Intents, Reconcile(s, i) PROVE Goal
  <2>1. pspId[i] # NoHold => status[i] \notin Waiting
    BY DEF RowsAreSound, RowIsSound, Unplaced
  <2>2. CASE pspId[i] # NoHold
    BY <1>9, <2>1, <2>2, BeginStep DEF Reconcile, rows, Waiting
  <2>3. CASE pspId[i] = NoHold
    BY <1>9, <2>3, BeginStep DEF Reconcile, rows, Waiting
  <2> QED
    BY <2>2, <2>3
<1>10. ASSUME NEW s \in Slots, PspAnswers(s) \/ PspFails(s) \/ PspReports(s) PROVE Goal
  BY <1>10, PspAnswersStep, PspFailsStep, PspReportsStep
<1>11. ASSUME NEW s \in Slots, Commit(s) PROVE Goal
  <2>1. Ends(s)
    BY <1>11
    DEF Commit, CommitCapture, CommitCancel, CommitCancelHold, CommitCancelByPayer, CommitRefund,
        CommitHold, RecordHoldFailure, RecordCreateFailure, CommitReconcile, Settle
  <2> QED
    BY <2>1, EndsStep
<1>12. ASSUME NEW s \in Slots, Crash(s) PROVE Goal
  BY <1>12, EndsStep DEF Crash
<1>13. ASSUME NEW i \in Intents, BookingCreated(i) PROVE Goal
  BY <1>13 DEF BookingCreated
<1>14. ASSUME NEW h \in Holds, PspDropsHold(h) PROVE Goal
  BY <1>14 DEF PspDropsHold
<1>15. ASSUME NEW i \in Intents, NEW h \in Holds, NEW w \in WebhookTypes, Webhook(i, h, w) PROVE Goal
  BY <1>15 DEF Webhook
<1>16. CASE UNCHANGED vars
  BY <1>16 DEF vars
<1> QED
  BY <1>1, <1>2, <1>3, <1>4, <1>5, <1>6, <1>7, <1>8, <1>9, <1>10, <1>11, <1>12, <1>13, <1>14,
     <1>15, <1>16, NextCases

\* All operations stay sound, whichever of them moves.
LEMMA SlotsStep ==
  ASSUME Inv, TypeOK', RowsAreSound', StepMoves, [Next]_vars
  PROVE  SlotsAreSound'
<1>1. CASE UNCHANGED slot
  BY <1>1, SlotKept DEF SlotsAreSound
<1>2. ASSUME NEW s \in Slots, SlotStep(s) PROVE SlotsAreSound'
  BY <1>2, SlotKept DEF SlotsAreSound, SlotStep
<1> QED
  BY <1>1, <1>2, SlotSteps

\* No two operations come to create one intent or to hold one hold.
LEMMA ApartStep ==
  ASSUME Inv, [Next]_vars
  PROVE  SlotsAreApart'
<1>1. CASE UNCHANGED slot
  BY <1>1 DEF Inv, SlotsAreApart
<1>2. ASSUME NEW s \in Slots, SlotStep(s) PROVE SlotsAreApart'
  <2>1. SUFFICES ASSUME NEW t \in Slots, t # s
                 PROVE  /\ ~(/\ slot'[s].op = "create" /\ slot'[t].op = "create"
                             /\ slot'[s].intent = slot'[t].intent)
                        /\ ~(/\ slot'[s].op \in Placing /\ slot'[s].at = "done"
                             /\ slot'[t].op \in Placing /\ slot'[t].at = "done"
                             /\ slot'[s].hold = slot'[t].hold)
    BY <1>2 DEF Inv, SlotsAreApart, SlotStep
  <2>2. slot'[t] = slot[t] /\ SlotFacts(slot[t])
    BY <1>2, <2>1 DEF SlotStep, Inv, SlotsAreSound
  <2> QED
    BY <1>2, <2>1, <2>2 DEF SlotStep, Inv, SlotsAreApart, SlotFacts
<1> QED
  BY <1>1, <1>2, SlotSteps

-----------------------------------------------------------------------------
(* The theorems                                                            *)

\* The inductive invariant: types, rows that agree with the money, operations
\* whose reads still hold, and an outbox that agrees with the rows.
THEOREM Invariant == Spec => []Inv
<1>1. Init => Inv
  <2> SUFFICES ASSUME Init PROVE Inv
    OBVIOUS
  <2>1. RowsAreSound
    BY DEF Init, RowsAreSound, RowIsSound, WithHold
  <2>2. \A s \in Slots : slot[s] = Idle
    BY DEF Init
  <2>3. SlotsAreSound
    BY <2>2 DEF SlotsAreSound, SlotShape, SlotFacts, Idle, Asking, Placing
  <2>4. OutboxesAreSound
    BY DEF Init, OutboxesAreSound, OutboxIsSound, Over, PaymentEvents
  <2>5. SlotsAreApart
    BY <2>2 DEF SlotsAreApart, Idle, Placing
  <2>6. HoldsAreSound
    BY DEF Init, HoldsAreSound
  <2> QED
    BY <2>1, <2>3, <2>4, <2>5, <2>6, InitType DEF Inv
<1>2. Inv /\ [Next]_vars => Inv'
  <2> SUFFICES ASSUME Inv, [Next]_vars PROVE Inv'
    OBVIOUS
  <2>1. TypeOK'
    BY TypeStep DEF Inv
  <2>2. StepMoves
    BY Movements DEF Inv
  <2>3. RowsAreSound'
    BY <2>1, <2>2, RowStep
  <2> QED
    BY <2>1, <2>2, <2>3, OutboxStep, SlotsStep, ApartStep, HoldStep DEF Inv
<1> QED
  BY <1>1, <1>2, PTL DEF Spec

\* Every variable holds rows of its table, or a state of the PSP, for any number
\* of intents, holds and operations.
THEOREM TypeCorrect == Spec => []TypeOK
<1>1. Inv => TypeOK
  BY DEF Inv
<1> QED
  BY <1>1, Invariant, PTL

\* The hold an intent names is its own.
THEOREM HoldsBelong == Spec => []HoldsAreOwned
<1>1. Inv => HoldsAreOwned
  BY DEF Inv, RowsAreSound, RowIsSound, HoldsAreOwned, WithHold
<1> QED
  BY <1>1, Invariant, PTL

\* CAPTURED, REFUNDED and FAILED are true of the money.
THEOREM MoneyMatches == Spec => []MoneyMatchesStatus
<1>1. Inv => MoneyMatchesStatus
  BY DEF Inv, RowsAreSound, RowIsSound, MoneyMatchesStatus, Taken
<1> QED
  BY <1>1, Invariant, PTL

\* At most one hold of a booking is ever captured.
THEOREM NobodyIsChargedTwice == Spec => []ChargedOnce
<1>1. Inv => ChargedOnce
  BY DEF Inv, HoldsAreSound, ChargedOnce
<1> QED
  BY <1>1, Invariant, PTL

\* Each event, end and receipt of an intent at most once.
THEOREM AnnouncementsAreUnique == Spec => []AnnouncedOnce
<1>1. Inv => AnnouncedOnce
  BY DEF Inv, OutboxesAreSound, OutboxIsSound, AnnouncedOnce, Over
<1> QED
  BY <1>1, Invariant, PTL

\* What is announced is so.
THEOREM AnnouncementsAreTrue == Spec => []AnnouncedTruly
<1>1. Inv => AnnouncedTruly
  BY DEF Inv, OutboxesAreSound, OutboxIsSound, AnnouncedTruly, Taken
<1> QED
  BY <1>1, Invariant, PTL

\* A status changes as declared, but for the two exceptions.
THEOREM TransitionsAreDeclared == Spec => TransitionsAreKnown
<1> DEFINE Known == \A i \in Intents :
             status'[i] # status[i] /\ status[i] # "ABSENT" =>
               <<status[i], status'[i]>> \in ValidTransitions \cup Exceptions
<1>1. Inv /\ [Next]_vars => [Known]_vars
  <2> SUFFICES ASSUME Inv, [Next]_vars, NEW i \in Intents,
                      status'[i] # status[i], status[i] # "ABSENT"
               PROVE  <<status[i], status'[i]>> \in ValidTransitions \cup Exceptions
    OBVIOUS
  <2>1. PICK j \in Intents : RowMove(j)
    BY Movements DEF Inv, StepMoves, rows
  <2>2. i = j /\ TypeOK
    BY <2>1, OtherRows DEF Inv
  <2>3. \/ status[i] \in Waiting /\ status'[i] = "HOLD_PLACED"
        \/ status[i] = "HOLD_PLACED" /\ status'[i] = "CAPTURED"
        \/ status[i] = "CAPTURED" /\ status'[i] = "REFUNDED"
        \/ status[i] \in Waiting \cup {"HOLD_PLACED", "CAPTURED"} /\ status'[i] = "CANCELLED"
        \/ status[i] \in Waiting \cup {"HOLD_PLACED"} /\ status'[i] = "FAILED"
        \/ status[i] = "CANCELLED" /\ status'[i] = "FAILED"
    BY <2>1, <2>2 DEF RowMove, Moves, PlacedBy, TypeOK, Waiting
  <2> QED
    BY <2>3 DEF ValidTransitions, Exceptions, Waiting
<1> QED
  BY <1>1, Invariant, PTL DEF Spec, TransitionsAreKnown

-----------------------------------------------------------------------------
(* The abstract promise                                                    *)

money == [i \in Intents |-> Money(i)]

\* A hold that moves is the money of the one intent that names it, if any.
LEMMA MoneyMoveRefines ==
  ASSUME Inv, UNCHANGED rows, NEW h \in Holds, MoneyMove(h)
  PROVE  [Lifecycle!Next]_(Lifecycle!vars)
<1> USE DEF Inv
<1>1. UNCHANGED <<status, pspId, emitted>>
  BY DEF rows
<1>2. ASSUME NEW i \in Intents, pspId[i] = h PROVE Lifecycle!MoneyMoves(i)
  <2>1. h # NoHold /\ ledger[h] # "none"
    BY <1>2, HoldsAssumption DEF RowsAreSound, RowIsSound
  <2>2. /\ money[i] = ledger[h] /\ Money(i)' = ledger'[h]
        /\ \/ ledger[h] = "held" /\ ledger'[h] \in {"captured", "released", "dropped"}
           \/ ledger[h] = "captured" /\ ledger'[h] = "refunded"
    BY <1>1, <1>2, <2>1 DEF money, Money, MoneyMove, TypeOK
  <2>3. \A j \in Intents : j # i => Money(j)' = Money(j)
    <3>1. \A j \in Intents : j # i => pspId[j] # h
      BY <1>2, <2>1, OneOwner
    <3> QED
      BY <1>1, <3>1 DEF Money, MoneyMove, TypeOK
  <2>4. money' = [money EXCEPT ![i] = ledger'[h]]
    BY <2>2, <2>3 DEF money
  <2>5. \E m \in ({"held"} \X {"captured", "released", "dropped"}) \cup {<<"captured", "refunded">>} :
          money[i] = m[1] /\ money' = [money EXCEPT ![i] = m[2]]
    <3> DEFINE n == <<ledger[h], ledger'[h]>>
    <3>1. n \in ({"held"} \X {"captured", "released", "dropped"}) \cup {<<"captured", "refunded">>}
      BY <2>2
    <3>2. n[1] = ledger[h] /\ n[2] = ledger'[h]
      OBVIOUS
    <3> QED
      BY <2>2, <2>4, <3>1, <3>2
  <2> QED
    BY <1>1, <2>5 DEF Lifecycle!MoneyMoves, money
<1>3. CASE \A i \in Intents : pspId[i] # h
  <2>1. \A i \in Intents : Money(i)' = Money(i)
    BY <1>1, <1>3 DEF Money, MoneyMove, TypeOK
  <2> QED
    BY <1>1, <2>1 DEF Lifecycle!vars
<1> QED
  BY <1>2, <1>3 DEF Lifecycle!Next, Lifecycle!Step

\* A row that moves does what the life of a payment allows, with that money.
LEMMA RowMoveRefines ==
  ASSUME Inv, UNCHANGED psp, NEW i \in Intents, RowMove(i)
  PROVE  Lifecycle!Step(i)
<1> USE DEF Inv
<1>0. RowIsSound(i) /\ UNCHANGED <<ledger, holdFor>>
  BY DEF RowsAreSound, psp
<1>1. ASSUME UNCHANGED pspId PROVE UNCHANGED money
  BY <1>0, <1>1 DEF money, Money
<1>2. money[i] = IF pspId[i] = NoHold THEN "none" ELSE ledger[pspId[i]]
  BY DEF money, Money
<1>3. \A from, to : Moves(i, from, to) <=> Lifecycle!Move(i, from, to)
  BY DEF Moves, Lifecycle!Move
<1>4. \A e : Publish(i, e) <=> Lifecycle!Announce(i, e)
  BY DEF Publish, Lifecycle!Announce
<1>5. Waiting = Lifecycle!Waiting
  BY DEF Waiting, Lifecycle!Waiting
<1>6. CASE \E to \in Waiting : Moves(i, {"ABSENT"}, to) /\ UNCHANGED <<pspId, emitted, receipts>>
  BY <1>1, <1>3, <1>5, <1>6 DEF Lifecycle!Step, Lifecycle!Request, money
<1>7. ASSUME NEW s \in Slots, PlacedBy(s, i) PROVE Lifecycle!Step(i)
  <2>1. /\ slot[s].hold # NoHold /\ ledger[slot[s].hold] \in {"held", "dropped"}
        /\ status[i] \in Waiting /\ pspId[i] = NoHold
    BY <1>0, <1>7
    DEF PlacedBy, Moves, SlotsAreSound, SlotShape, SlotFacts, Idle, Placing, RowIsSound, Unplaced, Waiting
  <2>2. Moves(i, Waiting, "HOLD_PLACED") /\ Publish(i, "payment.intent.hold_placed")
    BY <1>7, <2>1 DEF PlacedBy, Moves
  <2>3. Money(i)' = ledger[slot[s].hold] /\ \A j \in Intents : j # i => Money(j)' = Money(j)
    BY <1>0, <1>7, <2>1 DEF PlacedBy, Money, TypeOK
  <2>4. money' = [money EXCEPT ![i] = ledger[slot[s].hold]]
    BY <2>3 DEF money
  <2>5. Lifecycle!Place(i)
    BY <1>2, <1>3, <1>4, <1>5, <2>1, <2>2, <2>4 DEF Lifecycle!Place, money
  <2> QED
    BY <2>5 DEF Lifecycle!Step
<1>8. CASE /\ Moves(i, {"HOLD_PLACED"}, "CAPTURED") /\ ledger[pspId[i]] \in Taken
           /\ UNCHANGED emitted \/ Publish(i, "payment.captured")
           /\ UNCHANGED pspId
  <2>1. money[i] \in {"captured", "refunded"}
    BY <1>0, <1>2, <1>8 DEF RowIsSound, WithHold, Moves, Taken
  <2> QED
    BY <1>1, <1>3, <1>4, <1>8, <2>1 DEF Lifecycle!Step, Lifecycle!Capture, money
<1>9. CASE /\ Moves(i, {"CAPTURED"}, "REFUNDED") /\ ledger[pspId[i]] = "refunded"
           /\ UNCHANGED emitted \/ Publish(i, "payment.refunded")
           /\ UNCHANGED <<pspId, receipts>>
  <2>1. money[i] = "refunded"
    BY <1>0, <1>2, <1>9 DEF RowIsSound, WithHold, Moves
  <2> QED
    BY <1>1, <1>3, <1>4, <1>9, <2>1 DEF Lifecycle!Step, Lifecycle!Refund, money
<1>10. CASE /\ Moves(i, Waiting \cup {"HOLD_PLACED", "CAPTURED"}, "CANCELLED")
            /\ Publish(i, "payment.cancelled")
            /\ UNCHANGED <<pspId, receipts>>
  BY <1>1, <1>3, <1>4, <1>5, <1>10 DEF Lifecycle!Step, Lifecycle!Cancel, money
<1>11. CASE /\ \/ Moves(i, Waiting, "FAILED")
               \/ /\ Moves(i, {"HOLD_PLACED"}, "FAILED")
                  /\ ledger[pspId[i]] = "dropped" \/ pspId[i] \in refused
            /\ \/ UNCHANGED emitted
               \/ \E e \in {"payment.failed", "payment.intent.failed"} : Publish(i, e)
            /\ UNCHANGED <<pspId, receipts>>
  <2>1. \/ Moves(i, Waiting, "FAILED") /\ money[i] = "none"
        \/ Moves(i, {"HOLD_PLACED"}, "FAILED") /\ money[i] # "none"
    BY <1>0, <1>2, <1>11 DEF RowIsSound, WithHold, Unplaced, Moves
  <2>2. \E e \in {"payment.failed", "payment.intent.failed"} : Publish(i, e) \/ UNCHANGED emitted
    BY <1>11
  <2> QED
    BY <1>1, <1>3, <1>4, <1>5, <1>11, <2>1, <2>2 DEF Lifecycle!Step, Lifecycle!Fail, money
<1>12. CASE /\ Moves(i, {"CANCELLED", "FAILED"}, "FAILED") /\ pspId[i] = NoHold
            /\ UNCHANGED <<pspId, emitted, receipts>>
  BY <1>1, <1>2, <1>3, <1>12 DEF Lifecycle!Step, Lifecycle!FailLate, money
<1> QED
  BY <1>6, <1>7, <1>8, <1>9, <1>10, <1>11, <1>12 DEF RowMove

\* Whatever runs at the same time, payments keep to the life IntentLifecycle
\* describes.
THEOREM PromiseIsKept == Spec => KeepsPromise
<1>1. Init => Lifecycle!Init
  BY DEF Init, Lifecycle!Init, Money, PaymentEvents, Lifecycle!PaymentEvents
<1>2. Inv /\ [Next]_vars => [Lifecycle!Next]_(Lifecycle!vars)
  <2> SUFFICES ASSUME Inv, [Next]_vars PROVE [Lifecycle!Next]_(Lifecycle!vars)
    OBVIOUS
  <2>1. StepMoves
    BY Movements DEF Inv
  <2>2. CASE UNCHANGED <<ledger, holdFor, rows>>
    BY <2>2 DEF psp, rows, Lifecycle!vars, Money
  <2>3. ASSUME UNCHANGED psp, NEW i \in Intents, RowMove(i) PROVE [Lifecycle!Next]_(Lifecycle!vars)
    BY <2>3, RowMoveRefines DEF Lifecycle!Next
  <2> QED
    BY <2>1, <2>2, <2>3, MoneyMoveRefines DEF StepMoves
<1> QED
  BY <1>1, <1>2, Invariant, PTL DEF Spec, KeepsPromise, Lifecycle!Spec
=============================================================================
