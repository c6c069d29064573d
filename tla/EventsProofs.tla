---------------------------- MODULE EventsProofs ----------------------------
(***************************************************************************)
(* What is promised of events and of those who consume them, for any number *)
(* of events, receipts, notices, ratings, instances and tries.             *)
(***************************************************************************)
EXTENDS Outbox, Receipts, Notifications, Ratings, Sums, TLAPS

-----------------------------------------------------------------------------
(* Outbox: an event until it is sent or given up.                          *)

\* An event that is neither sent nor given up has a try left.
TriesLeft ==
  \A e \in Events : status[e] \notin Over => tries[e] < RetryN

\* What a delivery under way knows of its event: who has it if nobody failed, that
\* somebody refused it, and a number of tries that were all made and are not the last.
DeliveryIsSound(d) ==
  d.at = "delivering" =>
    /\ d.event \in Events
    /\ d.allSuccess => Targets[d.event] \ d.left \subseteq received[d.event]
    /\ d.hasClientError => refused[d.event] # {}
    /\ d.saw < RetryN
    /\ d.saw <= failures[d.event]

\* Those of all instances.
DeliveriesAreSound == \A w \in Workers : DeliveryIsSound(worker[w])

\* The inductive invariant.
DeliveryInv ==
  /\ TypeOK
  /\ TriesLeft
  /\ DeliveriesAreSound
  /\ SentWasDelivered
  /\ GivenUpForCause

-----------------------------------------------------------------------------

\* An instance with nothing to do, and one that begins a tick.
LEMMA IdleIsTyped ==
  /\ Idle \in WorkerType
  /\ \A todo \in SUBSET Events : [Idle EXCEPT !.at = "ticking", !.todo = todo] \in WorkerType
  <1>1. Idle \in WorkerType
    BY RetryAssumption DEF Idle, WorkerType
  <1>2. QED
    BY <1>1 DEF WorkerType

\* No event was tried at first.
LEMMA OutboxInitInv == Init => DeliveryInv
  <1> SUFFICES ASSUME Init PROVE DeliveryInv
    OBVIOUS
  <1>1. 0 \in 0 .. RetryN /\ 0 < RetryN /\ 0 <= 0
    BY RetryAssumption
  <1>2. QED
    BY <1>1, IdleIsTyped
    DEF Init, DeliveryInv, TypeOK, TriesLeft, DeliveriesAreSound, DeliveryIsSound, SentWasDelivered,
        GivenUpForCause, Idle, Undelivered, Over

\* After NextId an instance delivers nothing.
LEMMA NextIdSound ==
  ASSUME TypeOK, DeliveriesAreSound, NEW w \in Workers, NEW e \in Events, NextId(w, e),
         \A f \in Events : /\ received[f] \subseteq received'[f]
                           /\ refused[f] \subseteq refused'[f]
                           /\ failures[f] <= failures'[f],
         failures' \in [Events -> 0 .. RetryN]
  PROVE  worker' \in [Workers -> WorkerType] /\ DeliveriesAreSound'
  <1>1. worker[w].todo \in SUBSET Events
    BY DEF TypeOK, WorkerType
  <1>2. /\ worker' \in [Workers -> WorkerType]
        /\ worker'[w].at # "delivering"
        /\ \A v \in Workers \ {w} : worker'[v] = worker[v]
    BY <1>1, IdleIsTyped DEF TypeOK, NextId, Idle
  <1>3. \A v \in Workers : worker[v].saw \in 0 .. RetryN
    BY DEF TypeOK, WorkerType
  <1>4. ASSUME NEW v \in Workers PROVE DeliveryIsSound(worker[v])'
    <2>1. CASE v = w
      BY <1>2, <2>1 DEF DeliveryIsSound
    <2>2. CASE v # w /\ worker[v].at = "delivering"
      <3>1. DeliveryIsSound(worker[v]) /\ worker'[v] = worker[v]
        BY <1>2, <2>2 DEF DeliveriesAreSound
      <3>2. worker[v].event \in Events
        BY <2>2, <3>1 DEF DeliveryIsSound
      <3>3. worker[v].saw <= failures'[worker[v].event]
        BY <1>3, <2>2, <3>1, <3>2 DEF DeliveryIsSound, TypeOK
      <3>4. QED
        BY <2>2, <3>1, <3>2, <3>3 DEF DeliveryIsSound
    <2>3. CASE v # w /\ worker[v].at # "delivering"
      BY <1>2, <2>3 DEF DeliveryIsSound
    <2>4. QED
      BY <2>1, <2>2, <2>3
  <1>5. QED
    BY <1>2, <1>4 DEF DeliveriesAreSound

\* A post that ends leaves the instance delivering; no row changes.
LEMMA AnsweredSound ==
  ASSUME DeliveryInv, NEW w \in Workers, NEW t \in Consumers,
         NEW success \in BOOLEAN, NEW clientError \in BOOLEAN,
         Answered(w, t, success, clientError),
         success => received'[worker[w].event] = received[worker[w].event] \cup {t},
         clientError => refused'[worker[w].event] # {},
         \A f \in Events : /\ received[f] \subseteq received'[f]
                           /\ refused[f] \subseteq refused'[f],
         UNCHANGED <<status, tries, due, failures>>
  PROVE  /\ worker' \in [Workers -> WorkerType]
         /\ DeliveriesAreSound' /\ TriesLeft' /\ SentWasDelivered' /\ GivenUpForCause'
  <1> DEFINE d == [worker[w] EXCEPT !.left = @ \ {t},
                                    !.allSuccess = @ /\ success,
                                    !.hasClientError = @ \/ clientError]
  <1>1. worker[w] \in WorkerType /\ DeliveryIsSound(worker[w])
    BY DEF DeliveryInv, TypeOK, DeliveriesAreSound
  <1>2. /\ d \in WorkerType
        /\ d.at = worker[w].at /\ d.event = worker[w].event /\ d.saw = worker[w].saw
        /\ d.left = worker[w].left \ {t}
        /\ d.allSuccess = (worker[w].allSuccess /\ success)
        /\ d.hasClientError = (worker[w].hasClientError \/ clientError)
    BY <1>1 DEF WorkerType
  <1>3. worker' = [worker EXCEPT ![w] = d] /\ worker[w].at = "delivering"
    BY DEF Answered
  <1>4. worker' \in [Workers -> WorkerType]
    BY <1>2, <1>3 DEF DeliveryInv, TypeOK
  <1>5. ASSUME NEW v \in Workers PROVE DeliveryIsSound(worker[v])'
    <2>1. CASE v = w
      <3>1. worker'[v] = d
        BY <1>3, <2>1 DEF DeliveryInv, TypeOK
      <3>2. worker[w].event \in Events
        BY <1>1, <1>3 DEF DeliveryIsSound
      <3>3. d.allSuccess => Targets[d.event] \ d.left \subseteq received'[d.event]
        BY <1>1, <1>2, <1>3, <3>2 DEF DeliveryIsSound
      <3>4. d.hasClientError => refused'[d.event] # {}
        BY <1>1, <1>2, <1>3, <3>2 DEF DeliveryIsSound
      <3>5. QED
        BY <1>1, <1>2, <1>3, <3>1, <3>2, <3>3, <3>4 DEF DeliveryIsSound
    <2>2. CASE v # w
      <3>1. worker'[v] = worker[v] /\ DeliveryIsSound(worker[v])
        BY <1>3, <2>2 DEF DeliveryInv, TypeOK, DeliveriesAreSound
      <3>2. QED
        BY <3>1 DEF DeliveryIsSound
    <2>3. QED
      BY <2>1, <2>2
  <1>6. TriesLeft' /\ SentWasDelivered' /\ GivenUpForCause'
    BY DEF DeliveryInv, TriesLeft, SentWasDelivered, GivenUpForCause
  <1>7. QED
    BY <1>4, <1>5, <1>6 DEF DeliveriesAreSound

\* CountFailure counts a round that failed, and only up to RetryN.
LEMMA CountFailureFacts ==
  ASSUME TypeOK, NEW w \in Workers, NEW e \in Events, CountFailure(w, e)
  PROVE  /\ failures' \in [Events -> 0 .. RetryN]
         /\ \A f \in Events : failures[f] <= failures'[f]
         /\ ~worker[w].allSuccess => failures'[e] = RetryN \/ failures'[e] = failures[e] + 1
  <1> DEFINE n == IF worker[w].allSuccess \/ failures[e] = RetryN
                    THEN failures[e] ELSE failures[e] + 1
  <1>1. failures \in [Events -> 0 .. RetryN]
    BY DEF TypeOK
  <1>2. n \in 0 .. RetryN /\ failures[e] <= n
    BY <1>1, RetryAssumption
  <1>3. failures' = [failures EXCEPT ![e] = n]
    BY DEF CountFailure
  <1>4. \A f \in Events : failures[f] <= failures[f]
    BY <1>1
  <1>5. QED
    BY <1>1, <1>2, <1>3, <1>4

\* What the outcome of a delivery writes keeps the rows sound.
LEMMA SettleSound ==
  ASSUME DeliveryInv, NEW w \in Workers, NEW e \in Events, Settle(w, e)
  PROVE  DeliveryInv'
  <1> DEFINE d == worker[w]
  <1>1. /\ d \in WorkerType /\ DeliveryIsSound(d)
        /\ d.at = "delivering" /\ d.event = e /\ d.left = {}
        /\ status[e] \in Undelivered
    BY DEF Settle, Answers, Lockable, DeliveryInv, TypeOK, DeliveriesAreSound
  <1>2. /\ failures' \in [Events -> 0 .. RetryN]
        /\ \A f \in Events : failures[f] <= failures'[f]
        /\ ~d.allSuccess => failures'[e] = RetryN \/ failures'[e] = failures[e] + 1
    BY CountFailureFacts DEF Settle, DeliveryInv
  <1>3. UNCHANGED <<received, refused>> /\ NextId(w, e)
    BY DEF Settle
  <1>4. worker' \in [Workers -> WorkerType] /\ DeliveriesAreSound'
    BY <1>2, <1>3, NextIdSound DEF DeliveryInv
  <1>5. /\ d.saw \in Nat /\ d.saw < RetryN /\ d.saw <= failures[e]
        /\ failures[e] \in Nat /\ failures'[e] \in Nat /\ failures'[e] <= RetryN
    BY <1>1, <1>2, RetryAssumption DEF WorkerType, DeliveryIsSound, DeliveryInv, TypeOK
  <1>6. CASE d.allSuccess
    <2>1. status' = [status EXCEPT ![e] = "SENT"] /\ UNCHANGED <<tries, due>>
      BY <1>6 DEF Settle, AllSucceeded
    <2>2. Targets[e] \subseteq received[e]
      BY <1>1, <1>6 DEF DeliveryIsSound
    <2>3. TypeOK'
      BY <1>2, <1>3, <1>4, <2>1 DEF DeliveryInv, TypeOK, Over
    <2>4. TriesLeft'
      BY <2>1 DEF DeliveryInv, TypeOK, TriesLeft, Over
    <2>5. SentWasDelivered'
      BY <1>3, <2>1, <2>2 DEF DeliveryInv, TypeOK, SentWasDelivered
    <2>6. GivenUpForCause'
      <3>1. ASSUME NEW f \in Events PROVE tries'[f] <= failures'[f]
        BY <1>2, <2>1 DEF DeliveryInv, TypeOK, GivenUpForCause
      <3>2. ASSUME NEW f \in Events, status'[f] = "FAILED_FINAL"
            PROVE  refused'[f] # {} \/ failures'[f] = RetryN
        <4>1. f # e /\ status[f] = "FAILED_FINAL"
          BY <2>1, <3>2 DEF DeliveryInv, TypeOK
        <4>2. refused[f] # {} \/ failures[f] = RetryN
          BY <4>1 DEF DeliveryInv, GivenUpForCause
        <4>3. failures[f] \in 0 .. RetryN /\ failures'[f] \in 0 .. RetryN
              /\ failures[f] <= failures'[f]
          BY <1>2 DEF DeliveryInv, TypeOK
        <4>4. QED
          BY <1>3, <4>2, <4>3, RetryAssumption
      <3>3. QED
        BY <3>1, <3>2 DEF GivenUpForCause
    <2>7. QED
      BY <1>4, <2>3, <2>4, <2>5, <2>6 DEF DeliveryInv
  <1>7. CASE ~d.allSuccess
    <2>1. /\ tries' = [tries EXCEPT ![e] = d.saw + 1]
          /\ \/ /\ GivesUp(w)
                /\ status' = [status EXCEPT ![e] = "FAILED_FINAL"]
                /\ due' = due
             \/ /\ ~GivesUp(w)
                /\ status' = [status EXCEPT ![e] = "FAILED_RETRY"]
                /\ due' = [due EXCEPT ![e] = FALSE]
      BY <1>7 DEF Settle, AllSucceeded
    <2>2. d.saw + 1 \in 0 .. RetryN /\ d.saw + 1 <= failures'[e]
      BY <1>2, <1>5, <1>7, RetryAssumption
    <2>3. TypeOK'
      BY <1>2, <1>3, <1>4, <2>1, <2>2 DEF DeliveryInv, TypeOK, Undelivered, Over
    <2>4. TriesLeft'
      <3>1. ASSUME NEW f \in Events, status'[f] \notin Over PROVE tries'[f] < RetryN
        <4>1. CASE f = e
          <5>1. ~GivesUp(w) /\ tries'[f] = d.saw + 1
            BY <2>1, <3>1, <4>1 DEF DeliveryInv, TypeOK, Over
          <5>2. QED
            BY <1>5, <5>1, RetryAssumption DEF GivesUp
        <4>2. CASE f # e
          BY <2>1, <3>1, <4>2 DEF DeliveryInv, TypeOK, TriesLeft
        <4>3. QED
          BY <4>1, <4>2
      <3>2. QED
        BY <3>1 DEF TriesLeft
    <2>5. SentWasDelivered'
      BY <1>3, <2>1 DEF DeliveryInv, TypeOK, SentWasDelivered
    <2>6. GivenUpForCause'
      <3>1. ASSUME NEW f \in Events PROVE tries'[f] <= failures'[f]
        BY <1>2, <2>1, <2>2 DEF DeliveryInv, TypeOK, GivenUpForCause
      <3>2. ASSUME NEW f \in Events, status'[f] = "FAILED_FINAL"
            PROVE  refused'[f] # {} \/ failures'[f] = RetryN
        <4>1. CASE f = e
          <5>1. GivesUp(w)
            BY <2>1, <3>2, <4>1 DEF DeliveryInv, TypeOK
          <5>2. CASE d.hasClientError
            BY <1>1, <1>3, <4>1, <5>2 DEF DeliveryIsSound
          <5>3. CASE d.saw + 1 >= RetryN
            BY <1>5, <2>2, <4>1, <5>3, RetryAssumption
          <5>4. QED
            BY <5>1, <5>2, <5>3 DEF GivesUp
        <4>2. CASE f # e
          <5>1. status[f] = "FAILED_FINAL"
            BY <2>1, <3>2, <4>2 DEF DeliveryInv, TypeOK
          <5>2. refused[f] # {} \/ failures[f] = RetryN
            BY <5>1 DEF DeliveryInv, GivenUpForCause
          <5>3. failures[f] \in 0 .. RetryN /\ failures'[f] \in 0 .. RetryN
                /\ failures[f] <= failures'[f]
            BY <1>2 DEF DeliveryInv, TypeOK
          <5>4. QED
            BY <1>3, <5>2, <5>3, RetryAssumption
        <4>3. QED
          BY <4>1, <4>2
      <3>3. QED
        BY <3>1, <3>2 DEF GivenUpForCause
    <2>7. QED
      BY <1>4, <2>3, <2>4, <2>5, <2>6 DEF DeliveryInv
  <1>8. QED
    BY <1>6, <1>7

\* Every step.
LEMMA OutboxStep == DeliveryInv /\ [Next]_vars => DeliveryInv'
  <1> SUFFICES ASSUME DeliveryInv, [Next]_vars PROVE DeliveryInv'
    OBVIOUS
  <1> USE DEF row, history
  <1>t. TypeOK /\ DeliveriesAreSound
    BY DEF DeliveryInv
  <1>f. \A f \in Events : failures[f] <= failures[f]
    BY <1>t DEF TypeOK
  <1>1. ASSUME NEW e \in Events, Publish(e) PROVE DeliveryInv'
    BY <1>1 DEF Publish, DeliveryInv, TypeOK, TriesLeft, DeliveriesAreSound, DeliveryIsSound,
                SentWasDelivered, GivenUpForCause, Undelivered, Over
  <1>2. ASSUME NEW e \in Events, TimePasses(e) PROVE DeliveryInv'
    BY <1>2 DEF TimePasses, DeliveryInv, TypeOK, TriesLeft, DeliveriesAreSound, DeliveryIsSound,
                SentWasDelivered, GivenUpForCause
  <1>3. ASSUME NEW w \in Workers, Tick(w) PROVE DeliveryInv'
    <2>1. PICK todo \in SUBSET Events :
            worker' = [worker EXCEPT ![w] = [Idle EXCEPT !.at = "ticking", !.todo = todo]]
      BY <1>3 DEF Tick
    <2>2. [Idle EXCEPT !.at = "ticking", !.todo = todo].at = "ticking"
      BY DEF Idle
    <2>3. worker' \in [Workers -> WorkerType]
      BY <1>t, <2>1, IdleIsTyped DEF TypeOK
    <2>4. \A v \in Workers : worker'[v].at # "delivering" \/ worker'[v] = worker[v]
      BY <1>t, <2>1, <2>2 DEF TypeOK
    <2>5. DeliveriesAreSound'
      BY <1>3, <1>t, <2>4 DEF Tick, DeliveriesAreSound, DeliveryIsSound
    <2>6. QED
      BY <1>3, <2>3, <2>5
      DEF Tick, DeliveryInv, TypeOK, TriesLeft, SentWasDelivered, GivenUpForCause
  <1>4. ASSUME NEW w \in Workers, NEW e \in Events, Process(w, e) PROVE DeliveryInv'
    <2> DEFINE d == [worker[w] EXCEPT !.at = "delivering", !.event = e, !.saw = tries[e],
                                      !.left = Targets[e], !.allSuccess = TRUE,
                                      !.hasClientError = FALSE]
    <2>1. worker' = [worker EXCEPT ![w] = d] /\ UNCHANGED <<row, history>>
      BY <1>4 DEF Process
    <2>2. /\ worker[w] \in WorkerType
          /\ tries[e] \in 0 .. RetryN
          /\ Targets[e] \in SUBSET Consumers
      BY <1>t, TargetsAssumption DEF TypeOK
    <2>3. /\ d \in WorkerType
          /\ d.event = e /\ d.saw = tries[e] /\ d.left = Targets[e]
          /\ d.allSuccess /\ ~d.hasClientError
      BY <2>2 DEF WorkerType
    <2>4. tries[e] < RetryN /\ tries[e] <= failures[e]
      BY <1>4 DEF Process, Lockable, Undelivered, Over, DeliveryInv, TriesLeft, GivenUpForCause
    <2>5. worker' \in [Workers -> WorkerType]
      BY <1>t, <2>1, <2>3 DEF TypeOK
    <2>6. ASSUME NEW v \in Workers PROVE DeliveryIsSound(worker[v])'
      <3>1. CASE v = w
        <4>1. worker'[v] = d
          BY <1>t, <2>1, <3>1 DEF TypeOK
        <4>2. QED
          BY <2>1, <2>3, <2>4, <4>1 DEF DeliveryIsSound
      <3>2. CASE v # w
        BY <1>t, <2>1, <3>2 DEF TypeOK, DeliveriesAreSound, DeliveryIsSound
      <3>3. QED
        BY <3>1, <3>2
    <2>7. QED
      BY <2>1, <2>5, <2>6
      DEF DeliveryInv, TypeOK, TriesLeft, DeliveriesAreSound, SentWasDelivered, GivenUpForCause
  <1>5. ASSUME NEW w \in Workers, NEW e \in Events, ProcessWithoutTarget(w, e) PROVE DeliveryInv'
    <2>1. worker' \in [Workers -> WorkerType] /\ DeliveriesAreSound'
      BY <1>5, <1>t, <1>f, NextIdSound DEF ProcessWithoutTarget, TypeOK
    <2>2. QED
      BY <1>5, <2>1
      DEF ProcessWithoutTarget, DeliveryInv, TypeOK, TriesLeft, SentWasDelivered, GivenUpForCause, Over
  <1>6. ASSUME NEW w \in Workers, NEW e \in Events, ProcessNothing(w, e) PROVE DeliveryInv'
    <2>1. worker' \in [Workers -> WorkerType] /\ DeliveriesAreSound'
      BY <1>6, <1>t, <1>f, NextIdSound DEF ProcessNothing, TypeOK
    <2>2. QED
      BY <1>6, <2>1
      DEF ProcessNothing, DeliveryInv, TypeOK, TriesLeft, SentWasDelivered, GivenUpForCause
  <1>7. ASSUME NEW w \in Workers, NEW t \in Consumers, Accepts(w, t) PROVE DeliveryInv'
    <2>1. worker[w].event \in Events
      BY <1>7, <1>t DEF Accepts, Answered, DeliveriesAreSound, DeliveryIsSound
    <2>2. /\ received' \in [Events -> SUBSET Consumers]
          /\ \A f \in Events : received[f] \subseteq received'[f]
          /\ received'[worker[w].event] = received[worker[w].event] \cup {t}
          /\ UNCHANGED <<row, refused, failures>>
      BY <1>7, <1>t, <2>1 DEF Accepts, TypeOK
    <2>3. Answered(w, t, TRUE, FALSE)
      BY <1>7 DEF Accepts
    <2>4. /\ worker' \in [Workers -> WorkerType]
          /\ DeliveriesAreSound' /\ TriesLeft' /\ SentWasDelivered' /\ GivenUpForCause'
      BY <2>2, <2>3, AnsweredSound
    <2>5. QED
      BY <1>t, <2>2, <2>4 DEF DeliveryInv, TypeOK
  <1>8. ASSUME NEW w \in Workers, NEW t \in Consumers, Refuses(w, t) PROVE DeliveryInv'
    <2>1. worker[w].event \in Events
      BY <1>8, <1>t DEF Refuses, Answered, DeliveriesAreSound, DeliveryIsSound
    <2>2. /\ refused' \in [Events -> SUBSET Consumers]
          /\ \A f \in Events : refused[f] \subseteq refused'[f]
          /\ refused'[worker[w].event] # {}
          /\ UNCHANGED <<row, received, failures>>
      BY <1>8, <1>t, <2>1 DEF Refuses, TypeOK
    <2>3. Answered(w, t, FALSE, TRUE)
      BY <1>8 DEF Refuses
    <2>4. /\ worker' \in [Workers -> WorkerType]
          /\ DeliveriesAreSound' /\ TriesLeft' /\ SentWasDelivered' /\ GivenUpForCause'
      BY <2>2, <2>3, AnsweredSound
    <2>5. QED
      BY <1>t, <2>2, <2>4 DEF DeliveryInv, TypeOK
  <1>9. ASSUME NEW w \in Workers, NEW t \in Consumers, Fails(w, t) PROVE DeliveryInv'
    <2>1. worker[w].event \in Events
      BY <1>9, <1>t DEF Fails, Answered, DeliveriesAreSound, DeliveryIsSound
    <2>2. /\ received' \in [Events -> SUBSET Consumers]
          /\ \A f \in Events : received[f] \subseteq received'[f]
          /\ UNCHANGED <<row, refused, failures>>
      BY <1>9, <1>t, <2>1 DEF Fails, TypeOK
    <2>3. Answered(w, t, FALSE, FALSE)
      BY <1>9 DEF Fails
    <2>4. /\ worker' \in [Workers -> WorkerType]
          /\ DeliveriesAreSound' /\ TriesLeft' /\ SentWasDelivered' /\ GivenUpForCause'
      BY <2>2, <2>3, AnsweredSound
    <2>5. QED
      BY <1>t, <2>2, <2>4 DEF DeliveryInv, TypeOK
  <1>10. ASSUME NEW w \in Workers, NEW e \in Events, Settle(w, e) PROVE DeliveryInv'
    BY <1>10, SettleSound
  <1>11. ASSUME NEW w \in Workers, NEW e \in Events, SettleNothing(w, e) PROVE DeliveryInv'
    <2>1. /\ failures' \in [Events -> 0 .. RetryN]
          /\ \A f \in Events : failures[f] <= failures'[f]
      BY <1>11, <1>t, CountFailureFacts DEF SettleNothing
    <2>2. UNCHANGED <<row, received, refused>> /\ NextId(w, e)
      BY <1>11 DEF SettleNothing
    <2>3. worker' \in [Workers -> WorkerType] /\ DeliveriesAreSound'
      BY <1>t, <2>1, <2>2, NextIdSound
    <2>4. GivenUpForCause'
      <3>1. ASSUME NEW f \in Events
            PROVE  /\ tries[f] <= failures'[f]
                   /\ failures[f] = RetryN => failures'[f] = RetryN
        <4>1. /\ tries[f] \in 0 .. RetryN /\ failures[f] \in 0 .. RetryN
              /\ failures'[f] \in 0 .. RetryN /\ tries[f] <= failures[f]
              /\ failures[f] <= failures'[f]
          BY <1>t, <2>1 DEF TypeOK, DeliveryInv, GivenUpForCause
        <4>2. QED
          BY <4>1, RetryAssumption
      <3>2. QED
        BY <2>2, <3>1 DEF DeliveryInv, GivenUpForCause
    <2>5. QED
      BY <2>1, <2>2, <2>3, <2>4 DEF DeliveryInv, TypeOK, TriesLeft, SentWasDelivered
  <1>12. ASSUME NEW w \in Workers, Crash(w) PROVE DeliveryInv'
    <2>1. /\ worker' \in [Workers -> WorkerType]
          /\ \A v \in Workers : worker'[v].at # "delivering" \/ worker'[v] = worker[v]
      BY <1>12, <1>t, IdleIsTyped DEF Crash, TypeOK, Idle
    <2>2. DeliveriesAreSound'
      BY <1>12, <1>t, <2>1 DEF Crash, DeliveriesAreSound, DeliveryIsSound
    <2>3. QED
      BY <1>12, <2>1, <2>2 DEF Crash, DeliveryInv, TypeOK, TriesLeft, SentWasDelivered, GivenUpForCause
  <1>13. ASSUME UNCHANGED vars PROVE DeliveryInv'
    BY <1>13 DEF vars, DeliveryInv, TypeOK, TriesLeft, DeliveriesAreSound, DeliveryIsSound,
                 SentWasDelivered, GivenUpForCause
  <1>14. QED
    BY <1>1, <1>2, <1>3, <1>4, <1>5, <1>6, <1>7, <1>8, <1>9, <1>10, <1>11, <1>12, <1>13
    DEF Next

\* Types, tries that are left, and deliveries that know what was answered.
THEOREM DeliveryInvariant == Spec => []DeliveryInv
  BY OutboxInitInv, OutboxStep, PTL DEF Spec

\* Rows and deliveries keep their shape; try_count never passes OUTBOX_RETRY_N.
THEOREM DeliveryTypes == Spec => []TypeOK
  <1>1. DeliveryInv => TypeOK
    BY DEF DeliveryInv
  <1>2. QED
    BY <1>1, DeliveryInvariant, PTL

\* SENT means delivered to every target, for any number of instances that deliver the
\* same event side by side, crash, and lose the outcome of their posts.
THEOREM DeliveredAtLeastOnce == Spec => []SentWasDelivered
  <1>1. DeliveryInv => SentWasDelivered
    BY DEF DeliveryInv
  <1>2. QED
    BY <1>1, DeliveryInvariant, PTL

\* No event is given up without a refusal or OUTBOX_RETRY_N failed rounds of posts.
THEOREM NotGivenUpEarly == Spec => []GivenUpForCause
  <1>1. DeliveryInv => GivenUpForCause
    BY DEF DeliveryInv
  <1>2. QED
    BY <1>1, DeliveryInvariant, PTL

\* A settled event stays settled: the instance that settles later finds no row.
THEOREM SettledForGood == Spec => FinalIsFinal
  <1>1. ASSUME DeliveryInv, [Next]_vars
        PROVE  \A e \in Events : status[e] \in Over => status'[e] = status[e]
    <2> SUFFICES ASSUME NEW e \in Events, status[e] \in Over PROVE status'[e] = status[e]
      OBVIOUS
    <2> USE DEF row
    <2>1. TypeOK /\ status[e] \notin Undelivered /\ status[e] # "NONE"
      BY <1>1 DEF DeliveryInv, Undelivered, Over
    <2>2. ASSUME NEW f \in Events, Publish(f) \/ TimePasses(f) PROVE status'[e] = status[e]
      BY <2>1, <2>2 DEF TypeOK, Publish, TimePasses
    <2>3. ASSUME NEW w \in Workers, NEW f \in Events,
                 Settle(w, f) \/ ProcessWithoutTarget(w, f)
          PROVE  status'[e] = status[e]
      BY <2>1, <2>3 DEF TypeOK, Settle, ProcessWithoutTarget, Lockable
    <2>4. CASE UNCHANGED status
      BY <2>4
    <2>5. UNCHANGED status
          \/ (\E f \in Events : Publish(f) \/ TimePasses(f))
          \/ (\E w \in Workers, f \in Events : Settle(w, f) \/ ProcessWithoutTarget(w, f))
      BY <1>1 DEF Next, Tick, Process, ProcessNothing, Accepts, Refuses, Fails,
                  SettleNothing, Crash, vars
    <2>6. QED
      BY <2>2, <2>3, <2>4, <2>5
  <1>2. QED
    BY <1>1, DeliveryInvariant, PTL DEF Spec, FinalIsFinal

-----------------------------------------------------------------------------
(* Receipts: the receipt worker.                                           *)

\* What an instance is about to write is so, whatever the others wrote since it
\* claimed the row: it counts one try more than were made, and each that it makes
\* is made.
IssuersAreSound ==
  \A i \in Issuers :
    LET w == issuer[i] IN
    /\ w.at \in {"issuing", "marking"} => w.receipt \in ReceiptIds
    /\ w.at = "issuing" => w.try <= rejections[w.receipt] + 1
    /\ w.at = "marking" /\ w.ok => w.receipt \in issued
    /\ w.at = "marking" /\ ~w.ok => w.try <= rejections[w.receipt]

\* The inductive invariant.
ReceiptsInv == ReceiptsTypeOK /\ ReceiptsAreTrue /\ IssuersAreSound

-----------------------------------------------------------------------------
\* The actions of the worker and around it by name.
LEMMA ReceiptsCases ==
  ASSUME ReceiptsNext
  PROVE  \/ \E r \in ReceiptIds : CreatesReceipt(r)
         \/ \E r \in ReceiptIds : ReceiptFallsDue(r)
         \/ \E i \in Issuers : IssuerTicks(i)
         \/ \E i \in Issuers, r \in ReceiptIds : ClaimsReceipt(i, r)
         \/ \E i \in Issuers, r \in ReceiptIds : PassesOverReceipt(i, r)
         \/ \E i \in Issuers : Issues(i)
         \/ \E i \in Issuers : MarksIssued(i)
         \/ \E i \in Issuers : GivesReceiptUp(i)
         \/ \E i \in Issuers : RetriesReceipt(i)
         \/ \E i \in Issuers : MarksNoReceipt(i) \/ IssuerCrashes(i)
  BY DEF ReceiptsNext, IssuerMarks

\* An instance between two receipts, or with nothing to do.
LEMMA BetweenReceipts ==
  ASSUME NEW todo \in SUBSET ReceiptIds
  PROVE  /\ IdleIssuer \in IssuerType /\ IdleIssuer.at = "idle"
         /\ Ticking(todo) \in IssuerType /\ Ticking(todo).at = "ticking"
  BY ReceiptRetryAssumption DEF IssuerType, IdleIssuer, Ticking

\* It has nothing to write.
LEMMA NextReceiptStep ==
  ASSUME ReceiptsTypeOK, IssuersAreSound, UNCHANGED <<issued, rejections>>,
         NEW i \in Issuers, NEW w \in IssuerType, w.at \in {"idle", "ticking"},
         issuer' = [issuer EXCEPT ![i] = w]
  PROVE  issuer' \in [Issuers -> IssuerType] /\ IssuersAreSound'
<1>1. issuer' \in [Issuers -> IssuerType]
  BY DEF ReceiptsTypeOK
<1>2. /\ \A j \in Issuers : j # i => issuer'[j] = issuer[j]
      /\ issuer'[i] = w
  BY DEF ReceiptsTypeOK
<1> QED
  BY <1>1, <1>2 DEF IssuersAreSound

\* So goes an instance on to its next receipt.
LEMMA NextReceiptIs ==
  ASSUME NEW i \in Issuers, NEW todo \in SUBSET ReceiptIds,
         NextReceipt(i, todo) \/ issuer' = [issuer EXCEPT ![i] = IdleIssuer]
  PROVE  \E w \in IssuerType : w.at \in {"idle", "ticking"} /\ issuer' = [issuer EXCEPT ![i] = w]
  BY BetweenReceipts DEF NextReceipt

\* Nobody writes an empty table.
LEMMA ReceiptsInitInv ==
  ASSUME ReceiptsInit
  PROVE  ReceiptsInv
  BY ReceiptRetryAssumption
  DEF ReceiptsInit, ReceiptsInv, ReceiptsTypeOK, ReceiptStatuses, IssuerType, IdleIssuer,
      ReceiptsAreTrue, IssuersAreSound

\* Every step keeps the invariant.
LEMMA ReceiptsStep ==
  ASSUME ReceiptsInv, [ReceiptsNext]_receiptVars
  PROVE  ReceiptsInv'
<1> USE ReceiptRetryAssumption DEF ReceiptsInv
<1>1. ASSUME NEW r \in ReceiptIds, CreatesReceipt(r) PROVE ReceiptsInv'
  BY <1>1 DEF CreatesReceipt, ReceiptsTypeOK, ReceiptStatuses, ReceiptsAreTrue, IssuersAreSound
<1>2. ASSUME NEW r \in ReceiptIds, ReceiptFallsDue(r) PROVE ReceiptsInv'
  BY <1>2 DEF ReceiptFallsDue, ReceiptsTypeOK, ReceiptsAreTrue, IssuersAreSound
<1>3. ASSUME NEW i \in Issuers, IssuerTicks(i) PROVE ReceiptsInv'
  <2>1. PICK todo \in SUBSET ReceiptIds :
          issuer' = [issuer EXCEPT ![i] = Ticking(todo)]
    BY <1>3 DEF IssuerTicks
  <2>2. issuer' \in [Issuers -> IssuerType] /\ IssuersAreSound'
    BY <1>3, <2>1, BetweenReceipts, NextReceiptStep DEF IssuerTicks
  <2> QED
    BY <1>3, <2>2 DEF IssuerTicks, ReceiptsTypeOK, ReceiptsAreTrue
<1>4. ASSUME NEW i \in Issuers, NEW r \in ReceiptIds, ClaimsReceipt(i, r) PROVE ReceiptsInv'
  <2> DEFINE w == issuer'[i]
  <2>1. /\ \A j \in Issuers : j # i => issuer'[j] = issuer[j]
        /\ w.at = "issuing" /\ w.receipt = r /\ w.try <= receipt[r].tries + 1
    BY <1>4 DEF ClaimsReceipt, ReceiptsTypeOK
  <2>2. w \in IssuerType
    BY <1>4 DEF ClaimsReceipt, ReceiptsTypeOK, IssuerType
  <2>3. ReceiptsTypeOK'
    BY <1>4, <2>1, <2>2 DEF ClaimsReceipt, ReceiptsTypeOK
  <2>4. ReceiptsAreTrue'
    BY <1>4 DEF ClaimsReceipt, ReceiptsTypeOK, ReceiptsAreTrue
  <2>5. IssuersAreSound'
    <3>1. w.try <= rejections[r] + 1
      BY <2>1, <2>2 DEF ReceiptsTypeOK, ReceiptsAreTrue, IssuerType
    <3> QED
      BY <1>4, <2>1, <3>1 DEF ClaimsReceipt, IssuersAreSound
  <2> QED
    BY <2>3, <2>4, <2>5
<1>5. ASSUME NEW i \in Issuers,
             \/ \E r \in ReceiptIds : PassesOverReceipt(i, r)
             \/ MarksNoReceipt(i) \/ IssuerCrashes(i)
      PROVE  ReceiptsInv'
  <2>1. issuer[i].todo \in SUBSET ReceiptIds
    BY DEF ReceiptsTypeOK, IssuerType
  <2>2. \E todo \in SUBSET ReceiptIds :
          NextReceipt(i, todo) \/ issuer' = [issuer EXCEPT ![i] = IdleIssuer]
    <3>1. ASSUME NEW r \in ReceiptIds, PassesOverReceipt(i, r)
          PROVE  \E todo \in SUBSET ReceiptIds : NextReceipt(i, todo)
      BY <2>1, <3>1 DEF PassesOverReceipt
    <3> QED
      BY <1>5, <2>1, <3>1 DEF MarksNoReceipt, IssuerCrashes
  <2>3. UNCHANGED <<receipt, issued, rejections>>
    BY <1>5 DEF PassesOverReceipt, MarksNoReceipt, IssuerCrashes
  <2>4. issuer' \in [Issuers -> IssuerType] /\ IssuersAreSound'
    BY <2>2, <2>3, NextReceiptIs, NextReceiptStep
  <2> QED
    BY <2>3, <2>4 DEF ReceiptsTypeOK, ReceiptsAreTrue
<1>6. ASSUME NEW i \in Issuers, Issues(i) PROVE ReceiptsInv'
  <2> DEFINE r == issuer[i].receipt
  <2>0. r \in ReceiptIds /\ issuer[i].try \in 0 .. ReceiptRetryN
    BY <1>6 DEF Issues, IssuersAreSound, ReceiptsTypeOK, IssuerType
  <2>1. PICK o \in IssueOutcomes :
          /\ issuer' = [issuer EXCEPT ![i].at = "marking", ![i].ok = o.ok]
          /\ issued' = IF o.done THEN issued \cup {r} ELSE issued
          /\ rejections' = [rejections EXCEPT ![r] =
               IF o.ok \/ @ = ReceiptRetryN THEN @ ELSE @ + 1]
    BY <1>6 DEF Issues
  <2>2. o.ok \in BOOLEAN /\ (o.ok => o.done)
    BY DEF IssueOutcomes
  <2>3. /\ rejections' \in [ReceiptIds -> 0 .. ReceiptRetryN]
        /\ \A q \in ReceiptIds : rejections'[q] >= rejections[q]
        /\ ~o.ok => rejections'[r] = ReceiptRetryN \/ rejections'[r] = rejections[r] + 1
    <3>1. rejections[r] \in 0 .. ReceiptRetryN
      BY <2>0 DEF ReceiptsTypeOK
    <3>2. CASE o.ok \/ rejections[r] = ReceiptRetryN
      <4>1. rejections' = rejections
        BY <2>1, <3>2 DEF ReceiptsTypeOK
      <4> QED
        BY <3>2, <4>1 DEF ReceiptsTypeOK
    <3>3. CASE ~o.ok /\ rejections[r] # ReceiptRetryN
      <4>1. rejections' = [rejections EXCEPT ![r] = rejections[r] + 1]
        BY <2>1, <3>3
      <4>2. rejections[r] + 1 \in 0 .. ReceiptRetryN
        BY <3>1, <3>3
      <4>3. /\ rejections' \in [ReceiptIds -> 0 .. ReceiptRetryN]
            /\ \A q \in ReceiptIds : q # r => rejections'[q] = rejections[q]
            /\ rejections'[r] = rejections[r] + 1
        BY <2>0, <4>1, <4>2 DEF ReceiptsTypeOK
      <4>4. \A q \in ReceiptIds : rejections'[q] >= rejections[q]
        BY <3>1, <4>3 DEF ReceiptsTypeOK
      <4> QED
        BY <4>3, <4>4
    <3> QED
      BY <3>2, <3>3
  <2>4. issued \subseteq issued' /\ issued' \in SUBSET ReceiptIds /\ (o.ok => r \in issued')
    BY <2>0, <2>1, <2>2 DEF ReceiptsTypeOK
  <2>5. issuer' \in [Issuers -> IssuerType]
    <3>1. ASSUME NEW w \in IssuerType, NEW k \in BOOLEAN
          PROVE  [[w EXCEPT !.at = "marking"] EXCEPT !.ok = k] \in IssuerType
      BY DEF IssuerType
    <3>2. issuer' = [issuer EXCEPT ![i] = [[issuer[i] EXCEPT !.at = "marking"] EXCEPT !.ok = o.ok]]
      BY <2>1 DEF ReceiptsTypeOK
    <3> QED
      BY <2>2, <3>1, <3>2 DEF ReceiptsTypeOK
  <2>6. ReceiptsTypeOK' /\ ReceiptsAreTrue'
    BY <1>6, <2>3, <2>4, <2>5 DEF Issues, ReceiptsTypeOK, ReceiptsAreTrue
  <2>7. IssuersAreSound'
    <3>1. /\ \A j \in Issuers : j # i => issuer'[j] = issuer[j]
          /\ issuer'[i].at = "marking" /\ issuer'[i].ok = o.ok
          /\ issuer'[i].receipt = r /\ issuer'[i].try = issuer[i].try
      BY <2>1 DEF ReceiptsTypeOK, IssuerType
    <3>2. ~o.ok => issuer[i].try <= rejections'[r]
      BY <1>6, <2>0, <2>3 DEF Issues, IssuersAreSound, ReceiptsTypeOK
    <3>3. ASSUME NEW j \in Issuers, j # i
          PROVE  /\ issuer[j].at = "issuing" => issuer[j].try <= rejections'[issuer[j].receipt] + 1
                 /\ issuer[j].at = "marking" /\ ~issuer[j].ok =>
                      issuer[j].try <= rejections'[issuer[j].receipt]
      <4>1. issuer[j].try \in 0 .. ReceiptRetryN
        BY DEF ReceiptsTypeOK, IssuerType
      <4> QED
        BY <2>3, <4>1 DEF IssuersAreSound, ReceiptsTypeOK
    <3> QED
      BY <2>0, <2>4, <3>1, <3>2, <3>3 DEF IssuersAreSound
  <2> QED
    BY <2>6, <2>7
<1>7. ASSUME NEW i \in Issuers, MarksIssued(i) \/ GivesReceiptUp(i) \/ RetriesReceipt(i)
      PROVE  ReceiptsInv'
  <2> DEFINE r == issuer[i].receipt
  <2>0. r \in ReceiptIds /\ issuer[i].try \in 0 .. ReceiptRetryN /\ issuer[i].todo \in SUBSET ReceiptIds
    BY <1>7
    DEF MarksIssued, GivesReceiptUp, RetriesReceipt, IssuersAreSound, ReceiptsTypeOK, IssuerType
  <2>1. issuer' \in [Issuers -> IssuerType] /\ IssuersAreSound'
    BY <1>7, <2>0, NextReceiptIs, NextReceiptStep DEF MarksIssued, GivesReceiptUp, RetriesReceipt
  <2>2. ~issuer[i].ok => issuer[i].try <= rejections[r]
    BY <1>7 DEF MarksIssued, GivesReceiptUp, RetriesReceipt, IssuersAreSound
  <2>3. CASE MarksIssued(i)
    BY <2>0, <2>1, <2>3
    DEF MarksIssued, IssuersAreSound, ReceiptsTypeOK, ReceiptStatuses, ReceiptsAreTrue
  <2>4. CASE GivesReceiptUp(i)
    <3>1. /\ \A q \in ReceiptIds : q # r => receipt'[q] = receipt[q]
          /\ receipt'[r] = [status |-> "FAILED_FINAL", tries |-> issuer[i].try,
                            due |-> receipt[r].due]
          /\ receipt' = [receipt EXCEPT ![r] = receipt'[r]]
      BY <2>0, <2>4 DEF GivesReceiptUp, ReceiptsTypeOK
    <3>2. rejections[r] = ReceiptRetryN
      <4>1. issuer[i].try <= rejections[r] /\ issuer[i].try >= ReceiptRetryN
        BY <2>2, <2>4 DEF GivesReceiptUp, LastIssue
      <4>2. rejections[r] \in 0 .. ReceiptRetryN
        BY <2>0 DEF ReceiptsTypeOK
      <4> QED
        BY <2>0, <4>1, <4>2
    <3>3. receipt'[r] \in [status : ReceiptStatuses, tries : 0 .. ReceiptRetryN, due : BOOLEAN]
      BY <2>0, <3>1 DEF ReceiptsTypeOK, ReceiptStatuses
    <3>4. UNCHANGED <<issued, rejections>>
      BY <2>4 DEF GivesReceiptUp
    <3>5. ReceiptsTypeOK'
      BY <2>1, <3>1, <3>3, <3>4 DEF ReceiptsTypeOK
    <3>6. \A q \in ReceiptIds : q # r =>
            /\ receipt'[q].tries <= rejections'[q]
            /\ receipt'[q].status = "ISSUED" => q \in issued'
            /\ receipt'[q].status = "FAILED_FINAL" => rejections'[q] = ReceiptRetryN
      BY <3>1, <3>4 DEF ReceiptsAreTrue
    <3>7. /\ receipt'[r].tries <= rejections'[r]
          /\ receipt'[r].status = "FAILED_FINAL" /\ rejections'[r] = ReceiptRetryN
      <4>1. issuer[i].try <= rejections[r]
        BY <2>2, <2>4 DEF GivesReceiptUp
      <4>2. receipt'[r].tries = issuer[i].try /\ receipt'[r].status = "FAILED_FINAL"
        BY <3>1
      <4> HIDE DEF r
      <4> QED
        BY <3>2, <3>4, <4>1, <4>2
    <3> QED
      BY <2>1, <3>5, <3>6, <3>7 DEF ReceiptsAreTrue
  <2>5. CASE RetriesReceipt(i)
    BY <2>0, <2>1, <2>2, <2>5
    DEF RetriesReceipt, RetriedStatus, ReceiptsTypeOK, ReceiptsAreTrue
  <2> QED
    BY <1>7, <2>3, <2>4, <2>5
<1>8. CASE UNCHANGED receiptVars
  BY <1>8 DEF receiptVars, ReceiptsTypeOK, ReceiptsAreTrue, IssuersAreSound
<1> QED
  BY <1>1, <1>2, <1>3, <1>4, <1>5, <1>6, <1>7, <1>8, ReceiptsCases

-----------------------------------------------------------------------------
(* The theorems                                                            *)

\* Types, true marks, and instances whose marks will be true.
THEOREM ReceiptsInvariant == ReceiptsSpec => []ReceiptsInv
  BY ReceiptsInitInv, ReceiptsStep, PTL DEF ReceiptsSpec

\* ISSUED, FAILED_FINAL and try_count are true for any number of instances that
\* claim a receipt from under each other, and any number of tries.
THEOREM ReceiptsAreTold == ReceiptsSpec => []ReceiptsAreTrue
<1>1. ReceiptsInv => ReceiptsAreTrue
  BY DEF ReceiptsInv
<1> QED
  BY <1>1, ReceiptsInvariant, PTL

\* What is issued or given up is never taken up again.
THEOREM ReceiptsStayEnded == ReceiptsSpec => ReceiptsEnd
<1>1. ASSUME ReceiptsInv, [ReceiptsNext]_receiptVars
      PROVE  [\A r \in ReceiptIds :
                receipt[r].status \in {"ISSUED", "FAILED_FINAL"} =>
                  receipt'[r].status # "PENDING"]_receiptVars
  <2> SUFFICES ASSUME NEW r \in ReceiptIds, receipt[r].status \in {"ISSUED", "FAILED_FINAL"}
               PROVE  receipt'[r].status # "PENDING"
    OBVIOUS
  <2> USE <1>1 DEF ReceiptsInv, ReceiptsTypeOK
  <2>1. ASSUME NEW q \in ReceiptIds, CreatesReceipt(q) \/ ReceiptFallsDue(q)
        PROVE  receipt'[r].status = receipt[r].status
    BY <2>1 DEF CreatesReceipt, ReceiptFallsDue
  <2>2. ASSUME NEW i \in Issuers, NEW q \in ReceiptIds, ClaimsReceipt(i, q)
        PROVE  receipt'[r].status = receipt[r].status
    BY <2>2 DEF ClaimsReceipt
  <2>3. ASSUME NEW i \in Issuers, MarksIssued(i) \/ GivesReceiptUp(i) \/ RetriesReceipt(i)
        PROVE  receipt'[r].status # "PENDING"
    <3>1. issuer[i].receipt \in ReceiptIds
      BY <2>3 DEF MarksIssued, GivesReceiptUp, RetriesReceipt, IssuersAreSound
    <3> QED
      BY <2>3, <3>1 DEF MarksIssued, GivesReceiptUp, RetriesReceipt, RetriedStatus
  <2>4. ASSUME \/ \E i \in Issuers :
                    \/ IssuerTicks(i) \/ Issues(i) \/ MarksNoReceipt(i) \/ IssuerCrashes(i)
                    \/ \E q \in ReceiptIds : PassesOverReceipt(i, q)
               \/ UNCHANGED receiptVars
        PROVE  receipt' = receipt
    BY <2>4
    DEF IssuerTicks, Issues, MarksNoReceipt, IssuerCrashes, PassesOverReceipt, receiptVars
  <2> QED
    BY <2>1, <2>2, <2>3, <2>4, ReceiptsCases
<1> QED
  BY <1>1, ReceiptsInvariant, PTL DEF ReceiptsSpec, ReceiptsEnd

-----------------------------------------------------------------------------
(* Notifications: one notice for each cause, marked as it was sent.        *)

\* What the unique indexes rest on: the event of a row is recorded in
\* consumed_events, in whose transaction the row was written; and a request that
\* is past its first look asked for a template there is.
CausesAreRecorded ==
  /\ \A n \in Notices : notice[n].cause \in NoticeEvents => notice[n].cause \in consumed
  /\ \A c \in Callers : caller[c] \in RequestKeys => KeyTemplate[caller[c]] \in Templates

\* What an instance is about to write is so, whatever the others wrote since it
\* claimed the row: no try is counted that was not claimed, and what it takes to be
\* accepted is.
SendersAreSound ==
  /\ \A n \in Notices : notice[n].tries <= claims[n]
  /\ \A s \in Senders :
       LET w == sender[s] IN
       /\ w.at \in {"sending", "marking"} => w.notice \in Notices /\ w.try <= claims[w.notice]
       /\ w.at = "marking" /\ w.ok => w.notice \in accepted

\* The inductive invariant.
NotificationsInv ==
  /\ NotificationsTypeOK /\ OneNoticePerCause /\ MarksAreTrue
  /\ CausesAreRecorded /\ SendersAreSound

-----------------------------------------------------------------------------
\* The actions of the service by name.
LEMMA NotificationsCases ==
  ASSUME NotificationsNext
  PROVE  \/ \E c \in Callers, cause \in Causes : LooksForCause(c, cause)
         \/ \E c \in Callers, e \in NoticeEvents : ConsumesEvent(c, e)
         \/ \E c \in Callers, k \in RequestKeys : Enqueues(c, k)
         \/ \E c \in Callers : CallerFails(c)
         \/ \E n \in Notices : CancelsNotice(n)
         \/ \E n \in Notices : NoticeFallsDue(n)
         \/ \E s \in Senders : SenderTicks(s)
         \/ \E s \in Senders, n \in Notices : ClaimsNotice(s, n)
         \/ \E s \in Senders, n \in Notices : PassesOver(s, n)
         \/ \E s \in Senders : Sends(s)
         \/ \E s \in Senders : SenderMarks(s)
         \/ \E s \in Senders : MarksNothing(s) \/ SenderCrashes(s)
  BY DEF NotificationsNext

\* A worker between two rows, or with nothing to do.
LEMMA BetweenNotices ==
  ASSUME NEW todo \in SUBSET Notices
  PROVE  LET t == [IdleSender EXCEPT !.at = "ticking", !.todo = todo] IN
         /\ IdleSender \in SenderType /\ IdleSender.at = "idle"
         /\ t \in SenderType /\ t.at = "ticking"
<1>1. IdleSender \in SenderType /\ IdleSender.at = "idle"
  BY NotifRetryAssumption DEF SenderType, IdleSender
<1>2. ASSUME NEW w \in SenderType
      PROVE  LET t == [[w EXCEPT !.at = "ticking"] EXCEPT !.todo = todo] IN
             t \in SenderType /\ t.at = "ticking"
  BY DEF SenderType
<1> QED
  BY <1>1, <1>2

\* It has nothing to write.
LEMMA NextSenderStep ==
  ASSUME NotificationsTypeOK, SendersAreSound, UNCHANGED <<accepted, claims>>,
         NEW s \in Senders, NEW w \in SenderType, w.at \in {"idle", "ticking"},
         sender' = [sender EXCEPT ![s] = w],
         \A n \in Notices : notice'[n].tries <= claims[n]
  PROVE  sender' \in [Senders -> SenderType] /\ SendersAreSound'
<1>1. sender' \in [Senders -> SenderType]
  BY DEF NotificationsTypeOK
<1>2. /\ \A t \in Senders : t # s => sender'[t] = sender[t]
      /\ sender'[s] = w
  BY DEF NotificationsTypeOK
<1> QED
  BY <1>1, <1>2 DEF SendersAreSound

\* So goes a worker on to its next row.
LEMMA NextNoticeIs ==
  ASSUME NEW s \in Senders, NEW todo \in SUBSET Notices,
         NextNotice(s, todo) \/ sender' = [sender EXCEPT ![s] = IdleSender]
  PROVE  \E w \in SenderType : w.at \in {"idle", "ticking"} /\ sender' = [sender EXCEPT ![s] = w]
  BY BetweenNotices DEF NextNotice

\* A try more, of those that are told apart.
LEMMA OneMoreTry ==
  ASSUME NEW a \in 0 .. NotifRetryN, NEW b \in 0 .. NotifRetryN, a <= b
  PROVE  /\ OneMore(a) \in 0 .. NotifRetryN /\ OneMore(a) <= OneMore(b)
         /\ a <= OneMore(a)
  BY NotifRetryAssumption DEF OneMore

\* A row written under a cause that is not recorded is the only one with it.
LEMMA CreationStep ==
  ASSUME NotificationsInv, NEW why \in Causes, NEW template \in Templates,
         MayInsert(why), CreatesNotice(why, template),
         consumed' \in SUBSET NoticeEvents, consumed \subseteq consumed',
         why \in NoticeEvents => why \in consumed',
         UNCHANGED <<sender, accepted, claims>>,
         NEW c \in Callers, caller' = [caller EXCEPT ![c] = NoCause]
  PROVE  NotificationsInv'
<1> USE DEF NotificationsInv, NotificationsTypeOK
<1> DEFINE new == [status |-> "PENDING", tries |-> 0, due |-> TRUE, template |-> template,
                   cause |-> why]
<1>1. PICK n \in Notices : notice[n].status = "NONE" /\ notice' = [notice EXCEPT ![n] = new]
  BY DEF CreatesNotice
<1>2. new \in NoticeType
  BY NotifRetryAssumption DEF NoticeType, Unsent
<1>3. /\ notice'[n] = new
      /\ \A m \in Notices : m # n => notice'[m] = notice[m]
  BY <1>1
<1>4. NotificationsTypeOK'
  BY <1>1, <1>2
<1>5. \A m \in Notices : notice[m].cause # why
  BY DEF MayInsert, Recorded, CausesAreRecorded, Causes
<1>6. OneNoticePerCause'
  BY <1>3, <1>5 DEF OneNoticePerCause
<1>7. MarksAreTrue'
  BY <1>3 DEF MarksAreTrue, Templated
<1>8. CausesAreRecorded'
  <2>1. \A d \in Callers : d # c => caller'[d] = caller[d]
    OBVIOUS
  <2>2. caller'[c] \notin RequestKeys
    BY CausesAssumption DEF Causes
  <2> QED
    BY <1>3, <2>1, <2>2 DEF CausesAreRecorded
<1>9. SendersAreSound'
  <2>1. \A m \in Notices : notice'[m].tries <= claims[m]
    BY <1>3, NotifRetryAssumption DEF SendersAreSound
  <2> QED
    BY <2>1 DEF SendersAreSound
<1> QED
  BY <1>4, <1>6, <1>7, <1>8, <1>9

\* A row that is marked keeps its cause and its template.
LEMMA MarkingStep ==
  ASSUME NotificationsInv, NEW s \in Senders, NEW n \in Notices,
         NEW mark \in Unsent \cup Settled, NEW again \in BOOLEAN, NEW try \in 0 .. NotifRetryN,
         notice' = [notice EXCEPT ![n].status = mark, ![n].due = again, ![n].tries = try],
         try <= claims[n],
         mark = "SENT" => n \in accepted,
         mark = "FAILED_FINAL" => claims[n] = NotifRetryN \/ ~Templated(n),
         NextNotice(s, sender[s].todo),
         UNCHANGED <<consumed, caller, accepted, claims>>
  PROVE  NotificationsInv'
<1> USE DEF NotificationsInv, NotificationsTypeOK
<1>1. /\ \A m \in Notices : m # n => notice'[m] = notice[m]
      /\ notice'[n].status = mark /\ notice'[n].tries = try
      /\ notice'[n].cause = notice[n].cause /\ notice'[n].template = notice[n].template
  BY DEF NoticeType
<1>2. notice' \in [Notices -> NoticeType]
  <2>1. ASSUME NEW new \in NoticeType
        PROVE  [[[new EXCEPT !.status = mark] EXCEPT !.due = again] EXCEPT !.tries = try]
                 \in NoticeType
    BY DEF NoticeType
  <2> DEFINE new == [[[notice[n] EXCEPT !.status = mark] EXCEPT !.due = again]
                       EXCEPT !.tries = try]
  <2>2. notice' = [notice EXCEPT ![n] = new]
    OBVIOUS
  <2>3. new \in NoticeType
    BY <2>1
  <2> HIDE DEF new
  <2> QED
    BY <2>2, <2>3
<1>3. sender[s].todo \in SUBSET Notices
  BY DEF SenderType
<1>4. \A m \in Notices : notice'[m].tries <= claims[m]
  BY <1>1 DEF SendersAreSound
<1>5. sender' \in [Senders -> SenderType] /\ SendersAreSound'
  BY <1>3, <1>4, NextNoticeIs, NextSenderStep
<1>6. OneNoticePerCause' /\ CausesAreRecorded'
  <2>1. \A m \in Notices : notice'[m].cause = notice[m].cause
    BY <1>1
  <2> QED
    BY <2>1 DEF OneNoticePerCause, CausesAreRecorded
<1>7. MarksAreTrue'
  BY <1>1 DEF MarksAreTrue, Templated
<1> QED
  BY <1>2, <1>5, <1>6, <1>7

\* There is no row before the first request.
LEMMA NotificationsInitInv ==
  ASSUME NotificationsInit
  PROVE  NotificationsInv
<1> USE NotifRetryAssumption, CausesAssumption DEF NotificationsInit
<1>1. NotificationsTypeOK
  BY DEF NotificationsTypeOK, NoticeType, SenderType, IdleSender
<1>2. OneNoticePerCause /\ MarksAreTrue
  BY DEF OneNoticePerCause, MarksAreTrue
<1>3. CausesAreRecorded /\ SendersAreSound
  BY DEF CausesAreRecorded, SendersAreSound, IdleSender, Causes
<1> QED
  BY <1>1, <1>2, <1>3 DEF NotificationsInv

\* Every step keeps the invariant.
LEMMA NotificationsStep ==
  ASSUME NotificationsInv, [NotificationsNext]_notificationVars
  PROVE  NotificationsInv'
<1> USE NotifRetryAssumption DEF NotificationsInv
<1>1. ASSUME NEW c \in Callers, NEW cause \in Causes, LooksForCause(c, cause)
      PROVE  NotificationsInv'
  <2>1. /\ caller' = [caller EXCEPT ![c] = cause]
        /\ UNCHANGED <<notice, consumed, sender, accepted, claims>>
        /\ cause \in RequestKeys => KeyTemplate[cause] \in Templates
    BY <1>1 DEF LooksForCause
  <2>2. caller' \in [Callers -> Causes \cup {NoCause}]
    BY <2>1 DEF NotificationsTypeOK
  <2>3. CausesAreRecorded'
    BY <2>1 DEF CausesAreRecorded, NotificationsTypeOK
  <2> QED
    BY <2>1, <2>2, <2>3
    DEF NotificationsTypeOK, OneNoticePerCause, MarksAreTrue, Templated, SendersAreSound
<1>2. ASSUME NEW c \in Callers, NEW e \in NoticeEvents, ConsumesEvent(c, e)
      PROVE  NotificationsInv'
  <2>1. /\ consumed' = consumed \cup {e} /\ caller' = [caller EXCEPT ![c] = NoCause]
        /\ UNCHANGED <<sender, accepted, claims>> /\ MayInsert(e)
    BY <1>2 DEF ConsumesEvent
  <2>2. e \in Causes /\ consumed' \in SUBSET NoticeEvents
    BY <2>1 DEF Causes, NotificationsTypeOK
  <2>3. CASE HandlesMalformed(e)
    <3>1. notice' = notice
      BY <2>3 DEF HandlesMalformed
    <3>2. NotificationsTypeOK'
      BY <2>1, <2>2, <3>1 DEF NotificationsTypeOK
    <3>3. CausesAreRecorded'
      <4>1. /\ \A d \in Callers : d # c => caller'[d] = caller[d]
            /\ caller'[c] = NoCause
        BY <2>1 DEF NotificationsTypeOK
      <4>2. NoCause \notin RequestKeys
        BY CausesAssumption DEF Causes
      <4> QED
        BY <2>1, <3>1, <4>1, <4>2 DEF CausesAreRecorded
    <3> QED
      BY <2>1, <3>1, <3>2, <3>3 DEF OneNoticePerCause, MarksAreTrue, Templated, SendersAreSound
  <2>4. ASSUME HandlesBookingCancelled(e) \/ HandlesHoldPlaced(e) \/ HandlesCaptured(e)
        PROVE  NotificationsInv'
    <3>1. \E template \in Templates : CreatesNotice(e, template)
      BY <2>4 DEF HandlesBookingCancelled, HandlesHoldPlaced, HandlesCaptured, Templates
    <3> QED
      BY <2>1, <2>2, <3>1, CreationStep
  <2> QED
    BY <1>2, <2>3, <2>4 DEF ConsumesEvent
<1>3. ASSUME NEW c \in Callers, NEW k \in RequestKeys, Enqueues(c, k)
      PROVE  NotificationsInv'
  <2>1. k \in Causes /\ k \notin NoticeEvents
    BY CausesAssumption DEF Causes
  <2>2. KeyTemplate[k] \in Templates
    BY <1>3 DEF Enqueues, CausesAreRecorded
  <2>3. consumed' \in SUBSET NoticeEvents /\ consumed' = consumed
    BY <1>3 DEF Enqueues, NotificationsTypeOK
  <2> QED
    BY <1>3, <2>1, <2>2, <2>3, CreationStep DEF Enqueues
<1>4. ASSUME NEW c \in Callers, CallerFails(c)
      PROVE  NotificationsInv'
  <2>1. /\ caller' = [caller EXCEPT ![c] = NoCause]
        /\ UNCHANGED <<notice, consumed, sender, accepted, claims>>
    BY <1>4 DEF CallerFails
  <2>2. CausesAreRecorded'
    BY <2>1, CausesAssumption DEF CausesAreRecorded, NotificationsTypeOK, Causes
  <2> QED
    BY <2>1, <2>2
    DEF NotificationsTypeOK, OneNoticePerCause, MarksAreTrue, Templated, SendersAreSound
<1>5. ASSUME NEW n \in Notices, CancelsNotice(n) \/ NoticeFallsDue(n)
      PROVE  NotificationsInv'
  <2>1. UNCHANGED <<consumed, caller, sender, accepted, claims>>
    BY <1>5 DEF CancelsNotice, NoticeFallsDue
  <2>2. /\ notice' \in [Notices -> NoticeType]
        /\ \A m \in Notices :
             /\ notice'[m].cause = notice[m].cause /\ notice'[m].template = notice[m].template
             /\ notice'[m].tries = notice[m].tries
             /\ notice'[m].status \in {notice[m].status, "CANCELLED"}
    <3>1. CASE CancelsNotice(n)
      BY <3>1 DEF CancelsNotice, NotificationsTypeOK, NoticeType, Settled
    <3>2. CASE NoticeFallsDue(n)
      <4>1. notice' = [notice EXCEPT ![n] = [notice[n] EXCEPT !.due = TRUE]]
        BY <3>2 DEF NoticeFallsDue, NotificationsTypeOK
      <4>2. [notice[n] EXCEPT !.due = TRUE] \in NoticeType
        BY DEF NotificationsTypeOK, NoticeType
      <4>3. notice' \in [Notices -> NoticeType]
        BY <4>1, <4>2 DEF NotificationsTypeOK
      <4>4. /\ \A m \in Notices : m # n => notice'[m] = notice[m]
            /\ notice'[n].cause = notice[n].cause /\ notice'[n].template = notice[n].template
            /\ notice'[n].tries = notice[n].tries /\ notice'[n].status = notice[n].status
        BY <4>1 DEF NotificationsTypeOK, NoticeType
      <4> QED
        BY <4>3, <4>4
    <3> QED
      BY <1>5, <3>1, <3>2
  <2>3. NotificationsTypeOK'
    BY <2>1, <2>2 DEF NotificationsTypeOK
  <2>4. OneNoticePerCause' /\ CausesAreRecorded'
    BY <2>1, <2>2 DEF OneNoticePerCause, CausesAreRecorded
  <2>5. MarksAreTrue' /\ SendersAreSound'
    BY <2>1, <2>2 DEF MarksAreTrue, Templated, SendersAreSound
  <2> QED
    BY <2>3, <2>4, <2>5
<1>6. ASSUME NEW s \in Senders,
             \/ SenderTicks(s) \/ MarksNothing(s) \/ SenderCrashes(s)
             \/ \E n \in Notices : PassesOver(s, n)
      PROVE  NotificationsInv'
  <2>1. UNCHANGED <<notice, consumed, caller, accepted, claims>>
    BY <1>6 DEF SenderTicks, MarksNothing, SenderCrashes, PassesOver
  <2>2. sender[s].todo \in SUBSET Notices
    BY DEF NotificationsTypeOK, SenderType
  <2>3. \E w \in SenderType : w.at \in {"idle", "ticking"} /\ sender' = [sender EXCEPT ![s] = w]
    <3>1. CASE SenderTicks(s)
      BY <3>1, BetweenNotices DEF SenderTicks
    <3>2. CASE MarksNothing(s) \/ SenderCrashes(s)
      BY <2>2, <3>2, NextNoticeIs DEF MarksNothing, SenderCrashes
    <3>3. ASSUME NEW n \in Notices, PassesOver(s, n)
          PROVE  \E w \in SenderType :
                   w.at \in {"idle", "ticking"} /\ sender' = [sender EXCEPT ![s] = w]
      <4>1. NextNotice(s, sender[s].todo \ {n})
        BY <3>3 DEF PassesOver
      <4> QED
        BY <2>2, <4>1, NextNoticeIs
    <3> QED
      BY <1>6, <3>1, <3>2, <3>3
  <2>4. \A n \in Notices : notice'[n].tries <= claims[n]
    BY <2>1 DEF SendersAreSound
  <2>5. sender' \in [Senders -> SenderType] /\ SendersAreSound'
    BY <2>1, <2>3, <2>4, NextSenderStep
  <2> QED
    BY <2>1, <2>5
    DEF NotificationsTypeOK, OneNoticePerCause, MarksAreTrue, Templated, CausesAreRecorded
<1>7. ASSUME NEW s \in Senders, NEW n \in Notices, ClaimsNotice(s, n)
      PROVE  NotificationsInv'
  <2> DEFINE try == OneMore(notice[n].tries)
             w == [at |-> "sending", todo |-> sender[s].todo \ {n}, notice |-> n, try |-> try,
                   ok |-> FALSE]
  <2>1. /\ notice' = [notice EXCEPT ![n].status = ClaimedStatus, ![n].tries = try,
                                    ![n].due = FALSE]
        /\ sender' = [sender EXCEPT ![s] = w]
        /\ claims' = [claims EXCEPT ![n] = OneMore(claims[n])]
        /\ UNCHANGED <<consumed, caller, accepted>>
        /\ NoticeLockable(n)
    BY <1>7 DEF ClaimsNotice, NotificationsTypeOK
  <2>2. /\ notice[n].tries \in 0 .. NotifRetryN /\ claims[n] \in 0 .. NotifRetryN
        /\ notice[n].tries <= claims[n] /\ sender[s].todo \in SUBSET Notices
    BY DEF NotificationsTypeOK, NoticeType, SenderType, SendersAreSound
  <2>3. /\ try \in 0 .. NotifRetryN /\ OneMore(claims[n]) \in 0 .. NotifRetryN
        /\ try <= OneMore(claims[n]) /\ claims[n] <= OneMore(claims[n])
    BY <2>2, OneMoreTry
  <2> HIDE DEF try
  <2>4. w \in SenderType
    BY <2>2, <2>3 DEF SenderType
  <2>5. /\ sender' \in [Senders -> SenderType] /\ sender'[s] = w
        /\ \A t \in Senders : t # s => sender'[t] = sender[t]
    BY <2>1, <2>4 DEF NotificationsTypeOK
  <2>6. /\ claims' \in [Notices -> 0 .. NotifRetryN]
        /\ \A m \in Notices : m # n => claims'[m] = claims[m]
        /\ claims'[n] = OneMore(claims[n])
    BY <2>1, <2>3 DEF NotificationsTypeOK
  <2>7. \A m \in Notices : claims[m] <= claims'[m]
    BY <2>3, <2>6 DEF NotificationsTypeOK
  <2>8. notice' \in [Notices -> NoticeType]
    <3>1. ASSUME NEW new \in NoticeType
          PROVE  [[[new EXCEPT !.status = ClaimedStatus] EXCEPT !.tries = try] EXCEPT !.due = FALSE]
                   \in NoticeType
      BY <2>3 DEF NoticeType, ClaimedStatus, Unsent
    <3>2. notice' = [notice EXCEPT ![n] =
            [[[notice[n] EXCEPT !.status = ClaimedStatus] EXCEPT !.tries = try]
               EXCEPT !.due = FALSE]]
      BY <2>1 DEF NotificationsTypeOK
    <3> QED
      BY <3>1, <3>2 DEF NotificationsTypeOK
  <2>9. /\ \A m \in Notices : m # n => notice'[m] = notice[m]
        /\ notice'[n].status = "FAILED_RETRY" /\ notice'[n].tries = try
        /\ notice'[n].cause = notice[n].cause /\ notice'[n].template = notice[n].template
    BY <2>1 DEF NotificationsTypeOK, NoticeType, ClaimedStatus
  <2>10. NotificationsTypeOK'
    BY <2>1, <2>5, <2>6, <2>8 DEF NotificationsTypeOK
  <2>11. OneNoticePerCause' /\ CausesAreRecorded'
    <3>1. \A m \in Notices : notice'[m].cause = notice[m].cause
      BY <2>9
    <3> QED
      <4>1. OneNoticePerCause'
        BY <3>1 DEF OneNoticePerCause
      <4>2. CausesAreRecorded'
        <5>1. UNCHANGED <<consumed, caller>>
          BY <2>1
        <5>2. \A m \in Notices : notice'[m].cause \in NoticeEvents => notice'[m].cause \in consumed'
          BY <3>1, <5>1 DEF CausesAreRecorded
        <5> QED
          BY <5>1, <5>2 DEF CausesAreRecorded
      <4> QED
        BY <4>1, <4>2
  <2>12. MarksAreTrue'
    BY <2>1, <2>6, <2>9 DEF MarksAreTrue, Templated
  <2>13. \A m \in Notices : notice'[m].tries <= claims'[m]
    BY <2>3, <2>6, <2>9 DEF SendersAreSound
  <2>14. ASSUME NEW t \in Senders, t # s, sender'[t].at \in {"sending", "marking"}
         PROVE  sender'[t].notice \in Notices /\ sender'[t].try <= claims'[sender'[t].notice]
    <3>1. sender'[t] = sender[t] /\ sender[t].try \in 0 .. NotifRetryN
      BY <2>5, <2>14 DEF NotificationsTypeOK, SenderType
    <3>2. sender[t].notice \in Notices /\ sender[t].try <= claims[sender[t].notice]
      BY <2>14, <3>1 DEF SendersAreSound
    <3>3. claims[sender[t].notice] \in Nat /\ claims'[sender[t].notice] \in Nat
      BY <2>6, <3>2 DEF NotificationsTypeOK
    <3> QED
      BY <2>7, <3>1, <3>2, <3>3
  <2>15. SendersAreSound'
    <3>1. /\ w.at = "sending" /\ w.notice = n /\ w.try = try
      OBVIOUS
    <3>2. sender'[s].notice \in Notices /\ sender'[s].try <= claims'[sender'[s].notice]
      BY <2>3, <2>5, <2>6, <3>1
    <3>3. \A t \in Senders :
            sender'[t].at = "marking" /\ sender'[t].ok => sender'[t].notice \in accepted'
      BY <2>1, <2>5, <3>1 DEF SendersAreSound
    <3> QED
      BY <2>13, <2>14, <3>2, <3>3 DEF SendersAreSound
  <2> QED
    BY <2>10, <2>11, <2>12, <2>15
<1>8. ASSUME NEW s \in Senders, Sends(s)
      PROVE  NotificationsInv'
  <2> DEFINE n == sender[s].notice
  <2>1. PICK reached \in BOOLEAN, ok \in BOOLEAN :
          /\ ok => reached
          /\ accepted' = IF reached THEN accepted \cup {n} ELSE accepted
          /\ sender' = [sender EXCEPT ![s].at = "marking", ![s].ok = ok]
    BY <1>8 DEF Sends, Outcomes
  <2>2. n \in Notices /\ n # NoNotice /\ sender[s].at = "sending"
    BY <1>8, NoNoticeAssumption DEF Sends, SendersAreSound
  <2>3. accepted \subseteq accepted' /\ accepted' \in SUBSET Notices /\ (ok => n \in accepted')
    BY <2>1, <2>2 DEF NotificationsTypeOK
  <2>4. sender' \in [Senders -> SenderType]
    <3>1. ASSUME NEW w \in SenderType
          PROVE  [[w EXCEPT !.at = "marking"] EXCEPT !.ok = ok] \in SenderType
      BY DEF SenderType
    <3>2. sender' = [sender EXCEPT ![s] = [[sender[s] EXCEPT !.at = "marking"] EXCEPT !.ok = ok]]
      BY <2>1 DEF NotificationsTypeOK
    <3> QED
      BY <3>1, <3>2 DEF NotificationsTypeOK
  <2>5. /\ \A t \in Senders : t # s => sender'[t] = sender[t]
        /\ sender'[s].at = "marking" /\ sender'[s].ok = ok
        /\ sender'[s].notice = n /\ sender'[s].try = sender[s].try
    BY <2>1 DEF NotificationsTypeOK, SenderType
  <2>6. UNCHANGED <<notice, consumed, caller, claims>>
    BY <1>8 DEF Sends
  <2>7. NotificationsTypeOK'
    BY <2>3, <2>4, <2>6 DEF NotificationsTypeOK
  <2>8. SendersAreSound'
    BY <2>2, <2>3, <2>5, <2>6 DEF SendersAreSound
  <2>9. MarksAreTrue'
    BY <2>3, <2>6 DEF MarksAreTrue, Templated
  <2> QED
    BY <2>6, <2>7, <2>8, <2>9 DEF OneNoticePerCause, CausesAreRecorded
<1>9. ASSUME NEW s \in Senders, SenderMarks(s)
      PROVE  NotificationsInv'
  <2> DEFINE n == sender[s].notice
             try == sender[s].try
  <2>1. sender[s].at \in {"sending", "marking"}
    BY <1>9 DEF SenderMarks, MarksUntemplated, MarksSent, MarksFailedFinal, MarksRetry
  <2>2. /\ n \in Notices /\ try \in 0 .. NotifRetryN /\ try <= claims[n]
        /\ notice[n].due \in BOOLEAN /\ claims[n] \in 0 .. NotifRetryN
    BY <2>1 DEF SendersAreSound, NotificationsTypeOK, SenderType, NoticeType
  <2>3. PICK mark \in Unsent \cup Settled, again \in BOOLEAN :
          /\ Marks(s, mark, again)
          /\ mark = "SENT" => n \in accepted
          /\ mark = "FAILED_FINAL" => claims[n] = NotifRetryN \/ ~Templated(n)
    <3>1. CASE MarksUntemplated(s)
      BY <2>2, <3>1 DEF MarksUntemplated, Unsent, Settled
    <3>2. CASE MarksSent(s)
      BY <2>2, <3>2 DEF MarksSent, Unsent, Settled, SendersAreSound
    <3>3. CASE MarksFailedFinal(s)
      <4>1. claims[n] = NotifRetryN
        BY <2>2, <3>3 DEF MarksFailedFinal, LastTry
      <4> QED
        BY <2>2, <3>3, <4>1 DEF MarksFailedFinal, Unsent, Settled
    <3>4. CASE MarksRetry(s)
      <4> DEFINE mark == "FAILED_RETRY"
                 again == FALSE
      <4>1. /\ mark \in Unsent \cup Settled /\ again \in BOOLEAN
            /\ mark # "SENT" /\ mark # "FAILED_FINAL" /\ Marks(s, mark, again)
        BY <3>4 DEF MarksRetry, Unsent
      <4> HIDE DEF mark, again
      <4> QED
        BY <4>1
    <3> QED
      BY <1>9, <3>1, <3>2, <3>3, <3>4 DEF SenderMarks
  <2>4. /\ notice' = [notice EXCEPT ![n].status = mark, ![n].due = again, ![n].tries = try]
        /\ NextNotice(s, sender[s].todo)
        /\ UNCHANGED <<consumed, caller, accepted, claims>>
    BY <2>3 DEF Marks
  <2> HIDE DEF n, try
  <2> QED
    BY <2>2, <2>3, <2>4, MarkingStep
<1>10. CASE UNCHANGED notificationVars
  BY <1>10
  DEF notificationVars, NotificationsTypeOK, OneNoticePerCause, MarksAreTrue, Templated,
      CausesAreRecorded, SendersAreSound
<1> QED
  BY <1>1, <1>2, <1>3, <1>4, <1>5, <1>6, <1>7, <1>8, <1>9, <1>10, NotificationsCases

\* Types, single notices, true marks, and what they rest on.
THEOREM NotificationsInvariant == NotificationsSpec => []NotificationsInv
  BY NotificationsInitInv, NotificationsStep, PTL DEF NotificationsSpec

\* However many deliveries of an event, and requests with one Idempotency-Key, run
\* side by side, they make one notification.
THEOREM OneNoticeForEachCause == NotificationsSpec => []OneNoticePerCause
<1>1. NotificationsInv => OneNoticePerCause
  BY DEF NotificationsInv
<1> QED
  BY <1>1, NotificationsInvariant, PTL

\* SENT and FAILED_FINAL are true for any number of instances that claim a row from
\* under each other, and any number of tries.
THEOREM NoticesAreMarkedTruly == NotificationsSpec => []MarksAreTrue
<1>1. NotificationsInv => MarksAreTrue
  BY DEF NotificationsInv
<1> QED
  BY <1>1, NotificationsInvariant, PTL

-----------------------------------------------------------------------------
(* Ratings: the aggregate of a user.                                       *)

\* A request whose insert waits for its commit.
Inserting(p) == rater[p].at \in {"inserted", "locked", "absent"}

\* The requests, the aggregates and the ratings.
RaterType ==
  [at : {"idle", "eligible", "inserted", "locked", "absent", "refused"},
   key : RatingKeys \cup {NoRating}, rated : Users \cup {NoRating},
   score : Scores \cup {0}, count : Nat, sum : Int]

AggregateType == [exists : BOOLEAN, count : Nat, sum : Int]

RatingType ==
  [status : {"NONE", "ACTIVE", "DELETED"}, rated : Users \cup {NoRating}, score : Scores \cup {0}]

\* Counts and sums are natural numbers: that they have bounds follows when they are exact.
RatingsTyped ==
  /\ eligible \subseteq RatedTrips \X Users
  /\ rating \in [RatingKeys -> RatingType]
  /\ aggregate \in [Users -> AggregateType]
  /\ rater \in [Raters -> RaterType]
  /\ moderator \in [Moderators -> RatingKeys \cup {NoRating}]

\* A request rates a user; once it inserts, its key is its own, and nobody's before.
RatersAreSound ==
  /\ \A p \in Raters :
       Inserting(p) \/ rater[p].at = "eligible" =>
         rater[p].key \in RatingKeys /\ rater[p].rated \in Users
  /\ \A p \in Raters : Inserting(p) => ~Exists(rater[p].key)
  /\ \A p, q \in Raters :
       Inserting(p) /\ Inserting(q) /\ rater[p].key = rater[q].key => p = q

\* A request that has the lock of an aggregate has its count and sum, and alone.
LocksAreTrue ==
  /\ \A p \in Raters :
       rater[p].at = "locked" =>
         /\ aggregate[rater[p].rated].exists
         /\ rater[p].count = aggregate[rater[p].rated].count
         /\ rater[p].sum = aggregate[rater[p].rated].sum
  /\ \A p, q \in Raters :
       rater[p].at = "locked" /\ rater[q].at = "locked" /\ rater[p].rated = rater[q].rated => p = q

\* A deletion has a rating that is active, and has it alone.
DeletionsAreSound ==
  /\ \A d \in Moderators : moderator[d] # NoRating => Deletable(moderator[d])
  /\ \A d, e \in Moderators : moderator[d] # NoRating /\ moderator[d] = moderator[e] => d = e

\* What AggregateIsExact says of one user, and that there are finitely many.
IsExact(u) ==
  /\ IsFiniteSet(ActiveOf(u))
  /\ aggregate[u].count = Cardinality(ActiveOf(u))
  /\ aggregate[u].sum = SumFunctionOnSet(ScoreOf, ActiveOf(u))

\* An aggregate that does not exist counts nothing.
AggregatesAreSound ==
  /\ \A u \in Users : ~aggregate[u].exists => aggregate[u].count = 0
  /\ \A k \in RatingKeys : Deletable(k) => rating[k].rated \in Users
  /\ \A u \in Users : IsExact(u)

\* The inductive invariant.
RatingsInv ==
  /\ RatingsTyped
  /\ RatersAreSound
  /\ LocksAreTrue
  /\ DeletionsAreSound
  /\ AggregatesAreSound

-----------------------------------------------------------------------------
\* A request that rests is one.
LEMMA IdleIsRater == IdleRater \in RaterType /\ IdleRater.at = "idle"
  BY DEF IdleRater, RaterType

\* Scores are natural numbers.
LEMMA ScoresAreNumbers == Scores \cup {0} \subseteq Nat
  BY ScoresAssumption

\* Nobody is rated at first.
LEMMA RatingsInitInv ==
  ASSUME RatingsInit
  PROVE  RatingsInv
<1>1. RatingsTyped
  BY DEF RatingsInit, RatingsTyped, RatingType, AggregateType, RaterType, IdleRater
<1>2. RatersAreSound /\ LocksAreTrue
  BY DEF RatingsInit, RatersAreSound, LocksAreTrue, Inserting, IdleRater
<1>3. DeletionsAreSound
  BY DEF RatingsInit, DeletionsAreSound
<1>4. AggregatesAreSound
  <2>1. \A u \in Users : ActiveOf(u) = {}
    BY DEF RatingsInit, ActiveOf
  <2>2. \A u \in Users : IsExact(u)
    BY <2>1, SumOfNone, FS_EmptySet DEF RatingsInit, IsExact
  <2> QED
    BY <2>2 DEF RatingsInit, AggregatesAreSound, Deletable
<1> QED
  BY <1>1, <1>2, <1>3, <1>4 DEF RatingsInv

\* Ratings and aggregates as they are.
LEMMA AggregatesAreLeft ==
  ASSUME AggregatesAreSound, UNCHANGED <<rating, aggregate>>
  PROVE  AggregatesAreSound'
BY DEF AggregatesAreSound, IsExact, ActiveOf, ScoreOf, Deletable

\* Only the request p moves, to where it neither inserts nor has a lock.
LEMMA RaterEnds ==
  ASSUME RatingsInv, NEW p \in Raters, NEW new \in RaterType,
         new.at \in {"idle", "refused", "eligible"},
         new.at = "eligible" => new.key \in RatingKeys /\ new.rated \in Users,
         rater' = [rater EXCEPT ![p] = new],
         UNCHANGED <<eligible, rating, aggregate, moderator>>
  PROVE  RatingsInv'
<1>1. rater \in [Raters -> RaterType]
  BY DEF RatingsInv, RatingsTyped
<1>2. rater' \in [Raters -> RaterType] /\ \A q \in Raters : rater'[q] = IF q = p THEN new ELSE rater[q]
  BY <1>1
<1>3. RatingsTyped'
  BY <1>2 DEF RatingsInv, RatingsTyped
<1>4. RatersAreSound'
  BY <1>2 DEF RatingsInv, RatersAreSound, Inserting, Exists
<1>5. LocksAreTrue'
  BY <1>2 DEF RatingsInv, LocksAreTrue
<1>6. DeletionsAreSound' /\ AggregatesAreSound'
  BY AggregatesAreLeft DEF RatingsInv, DeletionsAreSound, Deletable
<1> QED
  BY <1>3, <1>4, <1>5, <1>6 DEF RatingsInv

\* A completed trip makes its passengers and driver eligible.
LEMMA ConsumesTripCompletedKeeps ==
  ASSUME RatingsInv, NEW t \in RatedTrips, ConsumesTripCompleted(t)
  PROVE  RatingsInv'
<1>1. eligible' \subseteq RatedTrips \X Users
  BY TripsAssumption DEF ConsumesTripCompleted, Eligibilities, RatingsInv, RatingsTyped
<1>2. UNCHANGED <<rating, aggregate, rater, moderator>>
  BY DEF ConsumesTripCompleted
<1>3. RatingsTyped'
  BY <1>1, <1>2 DEF RatingsInv, RatingsTyped
<1> QED
  BY <1>2, <1>3, AggregatesAreLeft
  DEF RatingsInv, RatersAreSound, LocksAreTrue, DeletionsAreSound, Inserting, Exists, Deletable

\* A request is let through, or refused.
LEMMA ChecksEligibilityKeeps ==
  ASSUME RatingsInv, NEW p \in Raters, NEW t \in RatedTrips, NEW passenger \in Users,
         NEW byDriver \in BOOLEAN, NEW score \in Scores,
         ChecksEligibility(p, t, passenger, byDriver, score)
  PROVE  RatingsInv'
<1> DEFINE request == RatingRequest(t, passenger, byDriver)
           new == [IdleRater EXCEPT !.at = "eligible", !.key = request.key,
                                    !.rated = request.rated, !.score = score]
<1>1. request.key \in RatingKeys /\ request.rated \in Users
  BY TripsAssumption DEF RatingRequest, RatingKeys, Roles
<1>2. rater' = [rater EXCEPT ![p] = new] /\ UNCHANGED <<eligible, rating, aggregate, moderator>>
  BY DEF ChecksEligibility
<1> HIDE DEF request
<1>3. new \in RaterType /\ new.at = "eligible" /\ new.key = request.key /\ new.rated = request.rated
  BY <1>1, IdleIsRater DEF RaterType
<1> HIDE DEF new
<1> QED
  BY <1>1, <1>2, <1>3, RaterEnds

\* A request inserts under a key nobody has.
LEMMA InsertsRatingKeeps ==
  ASSUME RatingsInv, NEW p \in Raters, InsertsRating(p)
  PROVE  RatingsInv'
<1> DEFINE new == [rater[p] EXCEPT !.at = "inserted"]
<1>1. rater \in [Raters -> RaterType] /\ rater[p] \in RaterType
  BY DEF RatingsInv, RatingsTyped
<1>2. rater' = [rater EXCEPT ![p] = new] /\ UNCHANGED <<eligible, rating, aggregate, moderator>>
  BY <1>1 DEF InsertsRating
<1>3. /\ new \in RaterType
      /\ new.at = "inserted" /\ new.key = rater[p].key /\ new.rated = rater[p].rated
  BY <1>1 DEF RaterType
<1> HIDE DEF new
<1>4. rater' \in [Raters -> RaterType] /\ \A q \in Raters : rater'[q] = IF q = p THEN new ELSE rater[q]
  BY <1>1, <1>2, <1>3
<1>5. RatingsTyped'
  BY <1>2, <1>4 DEF RatingsInv, RatingsTyped
<1>6. rater[p].at = "eligible" /\ ~Exists(rater[p].key)
  BY DEF InsertsRating
<1>7. \A q \in Raters : Inserting(q) => rater[q].key # rater[p].key
  BY DEF InsertsRating, InsertUnderWay, Inserting
<1>8. RatersAreSound'
  <2>1. \A k : Exists(k)' <=> Exists(k)
    BY <1>2 DEF Exists
  <2> QED
    BY <1>3, <1>4, <1>6, <1>7, <2>1 DEF RatingsInv, RatersAreSound, Inserting
<1>9. LocksAreTrue'
  BY <1>2, <1>3, <1>4 DEF RatingsInv, LocksAreTrue
<1>10. DeletionsAreSound' /\ AggregatesAreSound'
  BY <1>2, AggregatesAreLeft DEF RatingsInv, DeletionsAreSound, Deletable
<1> QED
  BY <1>5, <1>8, <1>9, <1>10 DEF RatingsInv

\* A key that exists ends the request.
LEMMA AnswersDuplicateKeeps ==
  ASSUME RatingsInv, NEW p \in Raters, AnswersDuplicate(p)
  PROVE  RatingsInv'
<1> DEFINE new == [IdleRater EXCEPT !.at = "refused", !.key = rater[p].key]
<1>1. rater[p] \in RaterType
  BY DEF RatingsInv, RatingsTyped
<1>2. rater' = [rater EXCEPT ![p] = new] /\ UNCHANGED <<eligible, rating, aggregate, moderator>>
  BY DEF AnswersDuplicate
<1>3. new \in RaterType /\ new.at = "refused"
  BY <1>1, IdleIsRater DEF RaterType
<1> HIDE DEF new
<1> QED
  BY <1>2, <1>3, RaterEnds

\* A request gets the lock of the aggregate, or finds none.
LEMMA LocksAggregateKeeps ==
  ASSUME RatingsInv, NEW p \in Raters, LocksAggregate(p)
  PROVE  RatingsInv'
<1> DEFINE u == rater[p].rated
           agg == aggregate[u]
           at == IF agg.exists THEN "locked" ELSE "absent"
           new == [rater[p] EXCEPT !.at = at, !.count = agg.count, !.sum = agg.sum]
<1>1. rater \in [Raters -> RaterType] /\ rater[p] \in RaterType
  BY DEF RatingsInv, RatingsTyped
<1>2. rater' = [rater EXCEPT ![p] = new] /\ UNCHANGED <<eligible, rating, aggregate, moderator>>
  BY <1>1 DEF LocksAggregate
<1>3. rater[p].at = "inserted" /\ \A q \in Raters : rater[q].at = "locked" => rater[q].rated # u
  BY DEF LocksAggregate, AggregateFree
<1>4. u \in Users /\ agg \in AggregateType
  BY <1>3 DEF RatingsInv, RatersAreSound, RatingsTyped, Inserting
<1>5. /\ new \in RaterType
      /\ new.at = at /\ new.count = agg.count /\ new.sum = agg.sum
      /\ new.key = rater[p].key /\ new.rated = rater[p].rated
  BY <1>1, <1>4 DEF RaterType, AggregateType
<1>0. at \in {"locked", "absent"} /\ (at = "locked" => agg.exists)
  OBVIOUS
<1> HIDE DEF new, at
<1>6. rater' \in [Raters -> RaterType] /\ \A q \in Raters : rater'[q] = IF q = p THEN new ELSE rater[q]
  BY <1>1, <1>2, <1>5
<1>7. RatingsTyped'
  BY <1>2, <1>6 DEF RatingsInv, RatingsTyped
<1>8. RatersAreSound'
  <2>1. \A k : Exists(k)' <=> Exists(k)
    BY <1>2 DEF Exists
  <2>2. ASSUME NEW q \in Raters
        PROVE  /\ rater'[q].key = rater[q].key /\ rater'[q].rated = rater[q].rated
               /\ Inserting(q)' <=> Inserting(q)
               /\ rater'[q].at = "eligible" <=> rater[q].at = "eligible"
    BY <1>0, <1>3, <1>5, <1>6 DEF Inserting
  <2>3. RatersAreSound
    BY DEF RatingsInv
  <2> QED
    BY <2>1, <2>2, <2>3 DEF RatersAreSound
<1>9. LocksAreTrue'
  BY <1>0, <1>2, <1>3, <1>5, <1>6 DEF RatingsInv, LocksAreTrue
<1>10. DeletionsAreSound' /\ AggregatesAreSound'
  BY <1>2, AggregatesAreLeft DEF RatingsInv, DeletionsAreSound, Deletable
<1> QED
  BY <1>7, <1>8, <1>9, <1>10 DEF RatingsInv

\* A rating more, and its user's aggregate raised by it.
LEMMA OneRatingMore ==
  ASSUME RatingsInv, NEW k \in RatingKeys, ~Exists(k), NEW u \in Users, NEW score \in Scores \cup {0},
         rating' = [rating EXCEPT ![k] = [status |-> "ACTIVE", rated |-> u, score |-> score]],
         aggregate' = [aggregate EXCEPT ![u] =
           [exists |-> TRUE, count |-> aggregate[u].count + 1, sum |-> aggregate[u].sum + score]]
  PROVE  /\ rating' \in [RatingKeys -> RatingType] /\ aggregate' \in [Users -> AggregateType]
         /\ AggregatesAreSound'
<1> DEFINE new == [status |-> "ACTIVE", rated |-> u, score |-> score]
           agg == [exists |-> TRUE, count |-> aggregate[u].count + 1, sum |-> aggregate[u].sum + score]
<1>1. /\ rating \in [RatingKeys -> RatingType] /\ aggregate \in [Users -> AggregateType]
      /\ aggregate[u].count \in Nat /\ aggregate[u].sum \in Int /\ score \in Nat
  BY ScoresAreNumbers DEF RatingsInv, RatingsTyped, AggregateType
<1>2. new \in RatingType /\ agg \in AggregateType
  BY <1>1 DEF RatingType, AggregateType
<1>3. /\ rating' \in [RatingKeys -> RatingType] /\ aggregate' \in [Users -> AggregateType]
      /\ rating'[k] = new /\ aggregate'[u] = agg
      /\ \A l \in RatingKeys \ {k} : rating'[l] = rating[l]
      /\ \A v \in Users \ {u} : aggregate'[v] = aggregate[v]
  BY <1>1, <1>2
<1>4. \A l \in RatingKeys : rating[l].score \in Int /\ rating'[l].score \in Int
  <2>1. \A r \in RatingType : r.score \in Int
    BY ScoresAreNumbers DEF RatingType
  <2> QED
    BY <1>1, <1>3, <2>1
<1>5. /\ ScoreOf'[k] = score
      /\ \A l \in RatingKeys : ScoreOf[l] \in Int /\ ScoreOf'[l] \in Int
      /\ \A l \in RatingKeys \ {k} : ScoreOf'[l] = ScoreOf[l]
  BY <1>3, <1>4 DEF ScoreOf
<1>6. k \notin ActiveOf(u) /\ ActiveOf(u)' = ActiveOf(u) \cup {k}
  BY <1>3 DEF ActiveOf, Exists
<1>7. \A v \in Users \ {u} : k \notin ActiveOf(v) /\ ActiveOf(v)' = ActiveOf(v)
  BY <1>3 DEF ActiveOf, Exists
<1>8. \A v \in Users : IsExact(v) /\ ActiveOf(v) \subseteq RatingKeys
  BY DEF RatingsInv, AggregatesAreSound, ActiveOf
<1>9. ASSUME NEW v \in Users
      PROVE  SumFunctionOnSet(ScoreOf', ActiveOf(v)) = SumFunctionOnSet(ScoreOf, ActiveOf(v))
  <2>1. IsFiniteSet(ActiveOf(v)) /\ ActiveOf(v) \subseteq RatingKeys /\ k \notin ActiveOf(v)
    BY <1>6, <1>7, <1>8 DEF IsExact
  <2>2. \A l \in ActiveOf(v) : ScoreOf[l] \in Int /\ ScoreOf'[l] = ScoreOf[l]
    BY <1>5, <2>1
  <2> QED
    BY <2>1, <2>2, SumsAgree
<1>10. IsExact(u)'
  <2>1. IsFiniteSet(ActiveOf(u))
    BY <1>8 DEF IsExact
  <2>2. IsFiniteSet(ActiveOf(u)') /\ Cardinality(ActiveOf(u)') = Cardinality(ActiveOf(u)) + 1
    BY <1>6, <2>1, FS_AddElement
  <2>3. ActiveOf(u)' \ {k} = ActiveOf(u) /\ k \in ActiveOf(u)'
    BY <1>6
  <2>4. \A l \in ActiveOf(u)' : ScoreOf'[l] \in Int
    BY <1>5, <1>6, <1>8
  <2>5. SumFunctionOnSet(ScoreOf', ActiveOf(u)') = score + SumFunctionOnSet(ScoreOf, ActiveOf(u))
    <3> DEFINE f == ScoreOf'
               A == ActiveOf(u)'
    <3>1. k \in A /\ IsFiniteSet(A) /\ (\A l \in A : f[l] \in Int) /\ f[k] = score
      BY <2>2, <2>3, <2>4, <1>5
    <3>2. A \ {k} = ActiveOf(u)
      BY <2>3
    <3>3. SumFunctionOnSet(f, ActiveOf(u)) = SumFunctionOnSet(ScoreOf, ActiveOf(u))
      BY <1>9
    <3> HIDE DEF f, A
    <3>4. SumFunctionOnSet(f, A) = f[k] + SumFunctionOnSet(f, A \ {k})
      BY <3>1, SumWithout
    <3>5. SumFunctionOnSet(f, A) = score + SumFunctionOnSet(ScoreOf, ActiveOf(u))
      BY <3>1, <3>2, <3>3, <3>4
    <3> QED
      BY <3>5 DEF f, A
  <2>6. aggregate[u].sum = SumFunctionOnSet(ScoreOf, ActiveOf(u)) /\ aggregate[u].count = Cardinality(ActiveOf(u))
    BY <1>8 DEF IsExact
  <2>7. aggregate'[u].sum = aggregate[u].sum + score /\ aggregate'[u].count = aggregate[u].count + 1
    BY <1>3
  <2> QED
    BY <1>1, <2>2, <2>5, <2>6, <2>7 DEF IsExact
<1>11. ASSUME NEW v \in Users \ {u}
       PROVE  IsExact(v)'
  BY <1>3, <1>7, <1>8, <1>9 DEF IsExact
<1>12. \A l \in RatingKeys : Deletable(l)' => rating'[l].rated \in Users
  BY <1>3 DEF RatingsInv, AggregatesAreSound, Deletable
<1>13. \A v \in Users : ~aggregate'[v].exists => aggregate'[v].count = 0
  BY <1>3 DEF RatingsInv, AggregatesAreSound
<1> QED
  BY <1>3, <1>10, <1>11, <1>12, <1>13 DEF AggregatesAreSound

\* The transaction of a rating commits, with the aggregate as it found it.
LEMMA WritesRatingKeeps ==
  ASSUME RatingsInv, NEW p \in Raters, rater[p].at \in {"locked", "absent"},
         \A q \in Raters : rater[q].at = "locked" /\ rater[q].rated = rater[p].rated => q = p,
         WritesRating(p, aggregate[rater[p].rated].count + 1,
                         aggregate[rater[p].rated].sum + rater[p].score)
  PROVE  RatingsInv'
<1> DEFINE r == rater[p]
<1>1. PICK k \in RatingKeys, u \in Users : k = r.key /\ u = r.rated
  BY DEF RatingsInv, RatersAreSound, Inserting
<1>2. ~Exists(k) /\ \A q \in Raters : q # p /\ Inserting(q) => rater[q].key # k
  BY <1>1 DEF RatingsInv, RatersAreSound, Inserting
<1>3. /\ rating' = [rating EXCEPT ![k] = [status |-> "ACTIVE", rated |-> u, score |-> r.score]]
      /\ aggregate' = [aggregate EXCEPT ![u] =
           [exists |-> TRUE, count |-> aggregate[u].count + 1, sum |-> aggregate[u].sum + r.score]]
      /\ rater' = [rater EXCEPT ![p] = IdleRater]
      /\ UNCHANGED <<eligible, moderator>>
  BY <1>1 DEF WritesRating
<1>4. rater \in [Raters -> RaterType] /\ r \in RaterType
  BY DEF RatingsInv, RatingsTyped
<1>5. rater' \in [Raters -> RaterType] /\ \A q \in Raters : rater'[q] = IF q = p THEN IdleRater ELSE rater[q]
  BY <1>3, <1>4, IdleIsRater
<1>6. /\ rating' \in [RatingKeys -> RatingType] /\ aggregate' \in [Users -> AggregateType]
      /\ AggregatesAreSound'
  <2>1. r.score \in Scores \cup {0}
    BY <1>4 DEF RaterType
  <2> QED
    BY <1>2, <1>3, <2>1, OneRatingMore
<1>7. RatingsTyped'
  BY <1>3, <1>5, <1>6 DEF RatingsInv, RatingsTyped
<1>8. /\ \A l \in RatingKeys \ {k} : rating'[l] = rating[l]
      /\ \A v \in Users \ {u} : aggregate'[v] = aggregate[v]
      /\ rating'[k].status = "ACTIVE"
  BY <1>3 DEF RatingsInv, RatingsTyped
<1>9. RatersAreSound'
  <2>1. \A q \in Raters : Inserting(q)' \/ rater'[q].at = "eligible" => q # p /\ rater'[q] = rater[q]
    BY <1>5, IdleIsRater DEF Inserting
  <2>2. \A q \in Raters : Inserting(q)' => Inserting(q)
    BY <2>1 DEF Inserting
  <2>3. \A q \in Raters : Inserting(q)' => ~Exists(rater[q].key)'
    BY <1>2, <1>8, <2>1, <2>2 DEF Exists, RatingsInv, RatersAreSound
  <2> QED
    BY <2>1, <2>2, <2>3 DEF RatingsInv, RatersAreSound
<1>10. LocksAreTrue'
  <2>1. \A q \in Raters : rater'[q].at = "locked" =>
          /\ q # p /\ rater'[q] = rater[q] /\ rater[q].rated # u /\ rater[q].rated \in Users
    BY <1>1, <1>5, IdleIsRater DEF RatingsInv, RatersAreSound, Inserting
  <2> QED
    BY <1>8, <2>1 DEF RatingsInv, LocksAreTrue
<1>11. DeletionsAreSound'
  BY <1>2, <1>3, <1>8 DEF RatingsInv, RatingsTyped, DeletionsAreSound, Deletable, Exists
<1> QED
  BY <1>6, <1>7, <1>9, <1>10, <1>11 DEF RatingsInv

\* A request adds its score to the aggregate it has locked.
LEMMA UpdatesAggregateKeeps ==
  ASSUME RatingsInv, NEW p \in Raters, UpdatesAggregate(p)
  PROVE  RatingsInv'
<1>1. /\ rater[p].at = "locked"
      /\ WritesRating(p, rater[p].count + 1, rater[p].sum + rater[p].score)
  BY DEF UpdatesAggregate
<1>2. /\ rater[p].count = aggregate[rater[p].rated].count
      /\ rater[p].sum = aggregate[rater[p].rated].sum
      /\ \A q \in Raters : rater[q].at = "locked" /\ rater[q].rated = rater[p].rated => q = p
  BY <1>1 DEF RatingsInv, LocksAreTrue
<1> QED
  BY <1>1, <1>2, WritesRatingKeeps

\* A request makes the first aggregate of a user.
LEMMA CreatesAggregateKeeps ==
  ASSUME RatingsInv, NEW p \in Raters, CreatesAggregate(p)
  PROVE  RatingsInv'
<1>1. /\ rater[p].at = "absent" /\ ~aggregate[rater[p].rated].exists
      /\ WritesRating(p, 1, rater[p].score)
  BY DEF CreatesAggregate
<1>2. PICK u \in Users : u = rater[p].rated
  BY <1>1 DEF RatingsInv, RatersAreSound, Inserting
<1>3. aggregate[u].count = 0 /\ aggregate[u].sum = 0
  <2>1. aggregate[u].count = 0 /\ IsExact(u)
    BY <1>1, <1>2 DEF RatingsInv, AggregatesAreSound
  <2>2. ActiveOf(u) = {}
    BY <2>1, FS_EmptySet DEF IsExact
  <2> QED
    BY <2>1, <2>2, SumOfNone DEF IsExact
<1>4. \A q \in Raters : rater[q].at = "locked" /\ rater[q].rated = rater[p].rated => q = p
  BY <1>1 DEF RatingsInv, LocksAreTrue
<1>5. rater[p].score \in Nat
  <2>1. rater[p] \in RaterType
    BY DEF RatingsInv, RatingsTyped
  <2> QED
    BY <2>1, ScoresAreNumbers DEF RaterType
<1>6. aggregate[u].count + 1 = 1 /\ aggregate[u].sum + rater[p].score = rater[p].score
  BY <1>3, <1>5
<1>7. WritesRating(p, aggregate[rater[p].rated].count + 1, aggregate[rater[p].rated].sum + rater[p].score)
  BY <1>1, <1>2, <1>6
<1> QED
  BY <1>1, <1>4, <1>7, WritesRatingKeeps

\* A moderator gets the lock of a rating.
LEMMA LocksRatingKeeps ==
  ASSUME RatingsInv, NEW d \in Moderators, NEW key \in RatingKeys, LocksRating(d, key)
  PROVE  RatingsInv'
<1>1. /\ \A e \in Moderators : moderator[e] # key
      /\ Deletable(key)
      /\ moderator' = [moderator EXCEPT ![d] = key]
      /\ UNCHANGED <<eligible, rating, aggregate, rater>>
  <2>1. moderator[d] = NoRating /\ key # NoRating
    BY NoRatingAssumption DEF LocksRating
  <2> QED
    BY <2>1 DEF LocksRating
<1>2. moderator \in [Moderators -> RatingKeys \cup {NoRating}]
  BY DEF RatingsInv, RatingsTyped
<1>3. RatingsTyped'
  BY <1>1, <1>2 DEF RatingsInv, RatingsTyped
<1>4. DeletionsAreSound'
  BY <1>1, <1>2 DEF RatingsInv, DeletionsAreSound, Deletable
<1>5. RatersAreSound' /\ LocksAreTrue'
  BY <1>1 DEF RatingsInv, RatersAreSound, LocksAreTrue, Inserting, Exists
<1> QED
  BY <1>1, <1>3, <1>4, <1>5, AggregatesAreLeft DEF RatingsInv

\* A deletion is rolled back.
LEMMA DeletionFailsKeeps ==
  ASSUME RatingsInv, NEW d \in Moderators, DeletionFails(d)
  PROVE  RatingsInv'
<1>1. /\ moderator' = [moderator EXCEPT ![d] = NoRating]
      /\ UNCHANGED <<eligible, rating, aggregate, rater>>
  BY DEF DeletionFails
<1>2. moderator \in [Moderators -> RatingKeys \cup {NoRating}]
  BY DEF RatingsInv, RatingsTyped
<1>3. RatingsTyped'
  BY <1>1, <1>2 DEF RatingsInv, RatingsTyped
<1>4. DeletionsAreSound'
  BY <1>1, <1>2 DEF RatingsInv, DeletionsAreSound, Deletable
<1>5. RatersAreSound' /\ LocksAreTrue'
  BY <1>1 DEF RatingsInv, RatersAreSound, LocksAreTrue, Inserting, Exists
<1> QED
  BY <1>1, <1>3, <1>4, <1>5, AggregatesAreLeft DEF RatingsInv

\* A rating less, and its user's aggregate lowered by it.
LEMMA DeletesRatingKeeps ==
  ASSUME RatingsInv, NEW d \in Moderators, DeletesRating(d)
  PROVE  RatingsInv'
<1>1. PICK k \in RatingKeys : k = moderator[d] /\ rating[k].status = "ACTIVE"
  BY DEF DeletesRating, RatingsInv, RatingsTyped, DeletionsAreSound, Deletable
<1>2. PICK u \in Users : u = rating[k].rated
  BY <1>1 DEF RatingsInv, AggregatesAreSound, Deletable
<1> DEFINE new == [rating[k] EXCEPT !.status = "DELETED"]
           agg == [[aggregate[u] EXCEPT !.count = @ - 1] EXCEPT !.sum = @ - rating[k].score]
<1>3. /\ rating \in [RatingKeys -> RatingType] /\ aggregate \in [Users -> AggregateType]
      /\ rating[k] \in RatingType /\ aggregate[u] \in AggregateType
      /\ moderator \in [Moderators -> RatingKeys \cup {NoRating}]
  BY DEF RatingsInv, RatingsTyped
<1>4. \A l \in RatingKeys : rating[l].score \in Nat
  <2>1. \A r \in RatingType : r.score \in Nat
    BY ScoresAreNumbers DEF RatingType
  <2> QED
    BY <1>3, <2>1
<1>5. \A v \in Users : IsExact(v) /\ ActiveOf(v) \subseteq RatingKeys
  BY DEF RatingsInv, AggregatesAreSound, ActiveOf
<1>6. k \in ActiveOf(u)
  BY <1>1, <1>2 DEF ActiveOf
<1>7. \A l \in RatingKeys : ScoreOf[l] \in Int /\ ScoreOf[l] = rating[l].score
  BY <1>4 DEF ScoreOf
<1>8. /\ IsFiniteSet(ActiveOf(u) \ {k})
      /\ aggregate[u].count - 1 = Cardinality(ActiveOf(u) \ {k})
      /\ aggregate[u].count > 0 /\ aggregate[u].count \in Nat
  <2>1. IsFiniteSet(ActiveOf(u)) /\ aggregate[u].count = Cardinality(ActiveOf(u))
    BY <1>5 DEF IsExact
  <2>2. IsFiniteSet(ActiveOf(u) \ {k}) /\ Cardinality(ActiveOf(u) \ {k}) = Cardinality(ActiveOf(u)) - 1
    BY <1>6, <2>1, FS_RemoveElement
  <2>3. Cardinality(ActiveOf(u) \ {k}) \in Nat /\ Cardinality(ActiveOf(u)) \in Nat
    BY <2>1, <2>2, FS_CardinalityType
  <2> QED
    BY <2>1, <2>2, <2>3
<1>9. aggregate[u].sum - rating[k].score = SumFunctionOnSet(ScoreOf, ActiveOf(u) \ {k})
  <2>1. IsFiniteSet(ActiveOf(u)) /\ aggregate[u].sum = SumFunctionOnSet(ScoreOf, ActiveOf(u))
    BY <1>5 DEF IsExact
  <2>2. \A l \in ActiveOf(u) : ScoreOf[l] \in Int
    BY <1>5, <1>7
  <2>3. /\ SumFunctionOnSet(ScoreOf, ActiveOf(u)) = ScoreOf[k] + SumFunctionOnSet(ScoreOf, ActiveOf(u) \ {k})
        /\ SumFunctionOnSet(ScoreOf, ActiveOf(u) \ {k}) \in Int
    BY <1>6, <2>1, <2>2, SumWithout
  <2> QED
    BY <1>7, <2>1, <2>3
<1>10. aggregate[u].exists
  BY <1>8 DEF RatingsInv, AggregatesAreSound
<1>11. /\ \A p \in Raters : rater[p].at = "locked" => rater[p].rated # u
       /\ rating' = [rating EXCEPT ![k].status = "DELETED"]
       /\ aggregate' = [aggregate EXCEPT ![u] = agg]
       /\ moderator' = [moderator EXCEPT ![d] = NoRating]
       /\ UNCHANGED <<eligible, rater>>
  <2>1. [aggregate[u] EXCEPT !.count = @ - 1, !.sum = @ - rating[k].score] = agg
    BY <1>3 DEF AggregateType
  <2> HIDE DEF agg
  <2> QED
    BY <1>1, <1>2, <1>8, <1>10, <2>1 DEF DeletesRating, AggregateFree
<1>12. /\ new \in RatingType /\ new.status = "DELETED"
       /\ new.rated = rating[k].rated /\ new.score = rating[k].score
       /\ rating' = [rating EXCEPT ![k] = new]
  BY <1>3, <1>11 DEF RatingType
<1>13. /\ agg.exists = aggregate[u].exists
       /\ agg.count = aggregate[u].count - 1 /\ agg.sum = aggregate[u].sum - rating[k].score
  BY <1>3 DEF AggregateType
<1>14. agg \in AggregateType
  <2>1. aggregate[u].sum - rating[k].score \in Int /\ aggregate[u].count - 1 \in Nat
    BY <1>3, <1>4, <1>8 DEF AggregateType
  <2> QED
    BY <1>3, <2>1 DEF AggregateType
<1> HIDE DEF new, agg
<1>15. /\ rating' \in [RatingKeys -> RatingType] /\ aggregate' \in [Users -> AggregateType]
       /\ moderator' \in [Moderators -> RatingKeys \cup {NoRating}]
       /\ \A l \in RatingKeys : rating'[l] = IF l = k THEN new ELSE rating[l]
       /\ \A v \in Users : aggregate'[v] = IF v = u THEN agg ELSE aggregate[v]
       /\ \A e \in Moderators : moderator'[e] = IF e = d THEN NoRating ELSE moderator[e]
  BY <1>3, <1>11, <1>12, <1>14
<1>16. RatingsTyped'
  BY <1>11, <1>15 DEF RatingsInv, RatingsTyped
<1>17. RatersAreSound'
  <2>1. \A l \in RatingKeys : Exists(l)' <=> Exists(l)
    BY <1>1, <1>12, <1>15 DEF Exists
  <2> QED
    BY <1>11, <2>1 DEF RatingsInv, RatersAreSound, Inserting
<1>18. LocksAreTrue'
  <2>1. \A p \in Raters : rater[p].at = "locked" => rater[p].rated \in Users
    BY DEF RatingsInv, RatersAreSound, Inserting
  <2> QED
    BY <1>11, <1>15, <2>1 DEF RatingsInv, LocksAreTrue
<1>19. DeletionsAreSound'
  BY <1>1, <1>15 DEF RatingsInv, RatingsTyped, DeletionsAreSound, Deletable
<1>20. /\ ActiveOf(u)' = ActiveOf(u) \ {k}
       /\ \A v \in Users \ {u} : ActiveOf(v)' = ActiveOf(v)
       /\ ScoreOf' = ScoreOf
  <2>1. ActiveOf(u)' = ActiveOf(u) \ {k}
    BY <1>12, <1>15 DEF ActiveOf
  <2>2. \A v \in Users \ {u} : ActiveOf(v)' = ActiveOf(v)
    BY <1>1, <1>2, <1>12, <1>15 DEF ActiveOf
  <2>3. ScoreOf' = ScoreOf
    BY <1>12, <1>15 DEF ScoreOf
  <2> QED
    BY <2>1, <2>2, <2>3
<1>21. IsExact(u)'
  BY <1>8, <1>9, <1>13, <1>15, <1>20 DEF IsExact
<1>22. ASSUME NEW v \in Users \ {u}
       PROVE  IsExact(v)'
  BY <1>5, <1>15, <1>20 DEF IsExact
<1>23. AggregatesAreSound'
  <2>1. \A v \in Users : ~aggregate'[v].exists => aggregate'[v].count = 0
    BY <1>10, <1>13, <1>15 DEF RatingsInv, AggregatesAreSound
  <2>2. \A l \in RatingKeys : Deletable(l)' => rating'[l].rated \in Users
    BY <1>12, <1>15 DEF RatingsInv, AggregatesAreSound, Deletable
  <2> QED
    BY <1>21, <1>22, <2>1, <2>2 DEF AggregatesAreSound
<1> QED
  BY <1>16, <1>17, <1>18, <1>19, <1>23 DEF RatingsInv

\* Every step.
LEMMA RatingsStep ==
  ASSUME RatingsInv, [RatingsNext]_ratingVars
  PROVE  RatingsInv'
<1>1. CASE UNCHANGED <<eligible, rating, aggregate, rater, moderator>>
  BY <1>1, AggregatesAreLeft
  DEF RatingsInv, RatingsTyped, RatersAreSound, LocksAreTrue, DeletionsAreSound, Inserting, Exists,
      Deletable
<1>2. ASSUME NEW t \in RatedTrips,
             \/ ConsumesTripCompleted(t) \/ WindowCloses(t)
             \/ \E p \in Raters, passenger \in Users, byDriver \in BOOLEAN, score \in Scores :
                  ChecksEligibility(p, t, passenger, byDriver, score)
      PROVE  RatingsInv'
  BY <1>1, <1>2, ConsumesTripCompletedKeeps, ChecksEligibilityKeeps DEF WindowCloses
<1>3. ASSUME NEW p \in Raters, RatingFails(p)
      PROVE  RatingsInv'
  BY <1>3, IdleIsRater, RaterEnds DEF RatingFails
<1>4. ASSUME NEW p \in Raters,
             \/ InsertsRating(p) \/ FindsRating(p) \/ LocksAggregate(p) \/ UpdatesAggregate(p)
             \/ CreatesAggregate(p) \/ FindsAggregate(p) \/ RatingFails(p)
      PROVE  RatingsInv'
  BY <1>3, <1>4, InsertsRatingKeeps, AnswersDuplicateKeeps, LocksAggregateKeeps,
     UpdatesAggregateKeeps, CreatesAggregateKeeps DEF FindsRating, FindsAggregate
<1>5. ASSUME NEW d \in Moderators,
             (\E key \in RatingKeys : LocksRating(d, key)) \/ DeletesRating(d) \/ DeletionFails(d)
      PROVE  RatingsInv'
  BY <1>5, LocksRatingKeeps, DeletesRatingKeeps, DeletionFailsKeeps
<1> QED
  BY <1>1, <1>2, <1>4, <1>5 DEF RatingsNext, ratingVars

\* Types, keys and locks that one request has alone, and aggregates that are exact.
THEOREM RatingsInvariant == RatingsSpec => []RatingsInv
  BY RatingsInitInv, RatingsStep, PTL DEF RatingsSpec

\* The count and the sum of every user are those of the ratings that are not deleted,
\* for any number of users, trips, requests and moderators: no insert, deletion or
\* failure in between loses or doubles a score.
THEOREM AggregatesAreExact == RatingsSpec => []AggregateIsExact
<1>1. RatingsInv => AggregateIsExact
  BY DEF RatingsInv, AggregatesAreSound, IsExact, AggregateIsExact
<1> QED
  BY <1>1, RatingsInvariant, PTL

=============================================================================
