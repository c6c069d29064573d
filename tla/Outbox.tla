------------------------------- MODULE Outbox -------------------------------
(***************************************************************************)
(* The transactional outbox: workers/outbox.worker.ts and                  *)
(* adapters/db/outbox-event.repository.ts, of which trips, payments,       *)
(* notifications and admin each have a copy. Several instances of a        *)
(* service poll one table.                                                 *)
(*                                                                         *)
(* A tick reads the due ids, then takes them one after the other: a first  *)
(* transaction reads the row, the event is posted to its targets, a second *)
(* transaction writes the outcome. Row locks last one transaction: none is *)
(* held from the list to the row or while the event is being delivered.    *)
(* Both transactions lock with SKIP LOCKED: a row another instance has in  *)
(* a transaction is as good as absent.                                     *)
(***************************************************************************)
EXTENDS Naturals, FiniteSets

CONSTANTS
  Events,
  Consumers,
  Targets,       \* OUTBOX_TARGETS, by event: the consumers it is posted to
  Workers,       \* instances of the service
  RetryN,        \* OUTBOX_RETRY_N
  NoEvent

ASSUME TargetsAssumption == Targets \in [Events -> SUBSET Consumers]
ASSUME RetryAssumption == RetryN \in Nat \ {0}
ASSUME NoEventAssumption == NoEvent \notin Events

VARIABLES
  status,     \* outbox_events.status, "NONE" before the row exists
  tries,      \* try_count
  due,        \* next_retry_at <= NOW()
  worker,     \* what each instance is doing
  received,   \* the consumers that handled the event
  refused,    \* history: the consumers that answered it 4xx
  failures    \* history: rounds of posts that did not all succeed, up to RetryN

vars == <<status, tries, due, worker, received, refused, failures>>
row == <<status, tries, due>>
history == <<received, refused, failures>>

Undelivered == {"PENDING", "FAILED_RETRY"}
Over == {"SENT", "FAILED_FINAL"}

Idle == [at |-> "idle", todo |-> {}, event |-> NoEvent, saw |-> 0, left |-> {},
         allSuccess |-> TRUE, hasClientError |-> FALSE]

WorkerType ==
  [at : {"idle", "ticking", "delivering"}, todo : SUBSET Events,
   event : Events \cup {NoEvent}, saw : 0 .. RetryN, left : SUBSET Consumers,
   allSuccess : BOOLEAN, hasClientError : BOOLEAN]

TypeOK ==
  /\ status \in [Events -> {"NONE"} \cup Undelivered \cup Over]
  /\ tries \in [Events -> 0 .. RetryN]
  /\ due \in [Events -> BOOLEAN]
  /\ worker \in [Workers -> WorkerType]
  /\ received \in [Events -> SUBSET Consumers]
  /\ refused \in [Events -> SUBSET Consumers]
  /\ failures \in [Events -> 0 .. RetryN]

Init ==
  /\ status = [e \in Events |-> "NONE"]
  /\ tries = [e \in Events |-> 0]
  /\ due = [e \in Events |-> FALSE]
  /\ worker = [w \in Workers |-> Idle]
  /\ received = [e \in Events |-> {}]
  /\ refused = [e \in Events |-> {}]
  /\ failures = [e \in Events |-> 0]

-----------------------------------------------------------------------------
(* The row                                                                 *)

\* outboxService.publish, in the transaction of the business operation.
Publish(e) ==
  /\ status[e] = "NONE"
  /\ status' = [status EXCEPT ![e] = "PENDING"]
  /\ due' = [due EXCEPT ![e] = TRUE]
  /\ UNCHANGED <<tries, worker, history>>

\* The backoff is over.
TimePasses(e) ==
  /\ ~due[e]
  /\ status[e] = "FAILED_RETRY"
  /\ due' = [due EXCEPT ![e] = TRUE]
  /\ UNCHANGED <<status, tries, worker, history>>

\* Another instance may have e's row in a transaction now.
InTransaction(v, e) ==
  \/ worker[v].at = "ticking" /\ e \in worker[v].todo
  \/ worker[v].at = "delivering" /\ worker[v].event = e /\ worker[v].left = {}

MayBeLocked(w, e) == \E v \in Workers \ {w} : InTransaction(v, e)

\* Mutant: lockById does not look at the status.
Lockable_Any(e) == status[e] # "NONE"

\* Mutant: a row to be retried is listed but never taken.
Lockable_Pending(e) == status[e] = "PENDING"

\* What lockById looks for: the status, but not next_retry_at.
Lockable(e) == status[e] \in Undelivered

-----------------------------------------------------------------------------
(* A tick                                                                  *)

\* findDueIds; rows that are locked are left out.
Tick(w) ==
  /\ worker[w].at = "idle"
  /\ LET dueIds == {e \in Events : status[e] \in Undelivered /\ due[e]}
     IN  \E skipped \in SUBSET {e \in dueIds : MayBeLocked(w, e)} :
           /\ dueIds \ skipped # {}
           /\ worker' = [worker EXCEPT ![w] =
                [Idle EXCEPT !.at = "ticking", !.todo = dueIds \ skipped]]
  /\ UNCHANGED <<row, history>>

\* On to the next id, or the tick is over.
NextId(w, e) ==
  LET todo == worker[w].todo \ {e}
  IN  worker' = [worker EXCEPT ![w] =
        IF todo = {} THEN Idle ELSE [Idle EXCEPT !.at = "ticking", !.todo = todo]]

\* processEvent's first transaction: the row is read, its lock released.
Process(w, e) ==
  /\ worker[w].at = "ticking"
  /\ e \in worker[w].todo
  /\ Lockable(e)
  /\ Targets[e] # {}
  /\ worker' = [worker EXCEPT ![w] =
       [worker[w] EXCEPT !.at = "delivering", !.event = e, !.saw = tries[e],
                         !.left = Targets[e], !.allSuccess = TRUE,
                         !.hasClientError = FALSE]]
  /\ UNCHANGED <<row, history>>

\* No target is configured for the type: the event counts as sent.
ProcessWithoutTarget(w, e) ==
  /\ worker[w].at = "ticking"
  /\ e \in worker[w].todo
  /\ Lockable(e)
  /\ Targets[e] = {}
  /\ status' = [status EXCEPT ![e] = "SENT"]
  /\ NextId(w, e)
  /\ UNCHANGED <<tries, due, history>>

\* The row is locked, or delivered since the ids were read; or the transaction fails.
ProcessNothing(w, e) ==
  /\ worker[w].at = "ticking"
  /\ e \in worker[w].todo
  /\ NextId(w, e)
  /\ UNCHANGED <<row, history>>

-----------------------------------------------------------------------------
(* Delivery: every target is tried, whatever the others answered           *)

Answered(w, t, success, clientError) ==
  /\ worker[w].at = "delivering"
  /\ t \in worker[w].left
  /\ worker' = [worker EXCEPT ![w] =
       [worker[w] EXCEPT !.left = @ \ {t},
                         !.allSuccess = @ /\ success,
                         !.hasClientError = @ \/ clientError]]

Accepts(w, t) ==
  /\ Answered(w, t, TRUE, FALSE)
  /\ received' = [received EXCEPT ![worker[w].event] = @ \cup {t}]
  /\ UNCHANGED <<row, refused, failures>>

\* 4xx.
Refuses(w, t) ==
  /\ Answered(w, t, FALSE, TRUE)
  /\ refused' = [refused EXCEPT ![worker[w].event] = @ \cup {t}]
  /\ UNCHANGED <<row, received, failures>>

\* 5xx, no answer in time (the event may have been handled), or an open breaker.
Fails(w, t) ==
  /\ Answered(w, t, FALSE, FALSE)
  /\ \E handled \in SUBSET {t} :
       received' = [received EXCEPT ![worker[w].event] = @ \cup handled]
  /\ UNCHANGED <<row, refused, failures>>

-----------------------------------------------------------------------------
(* processEvent's second transaction                                       *)

Answers(w) == worker[w].at = "delivering" /\ worker[w].left = {}

\* Mutant: one success is enough.
AllSucceeded_Some(w) == worker[w].allSuccess \/ received[worker[w].event] # {}

AllSucceeded(w) == worker[w].allSuccess

\* Mutant: the last try is not made.
GivesUp_OneEarly(w) == worker[w].hasClientError \/ worker[w].saw + 1 >= RetryN - 1

\* try_count as it was before the posts, and one more.
GivesUp(w) == worker[w].hasClientError \/ worker[w].saw + 1 >= RetryN

CountFailure(w, e) ==
  failures' = [failures EXCEPT ![e] =
    IF worker[w].allSuccess \/ @ = RetryN THEN @ ELSE @ + 1]

Settle(w, e) ==
  /\ Answers(w)
  /\ worker[w].event = e
  /\ Lockable(e)
  /\ IF AllSucceeded(w)
       THEN /\ status' = [status EXCEPT ![e] = "SENT"]
            /\ UNCHANGED <<tries, due>>
       ELSE /\ tries' = [tries EXCEPT ![e] = worker[w].saw + 1]
            /\ IF GivesUp(w)
                 THEN status' = [status EXCEPT ![e] = "FAILED_FINAL"] /\ due' = due
                 ELSE /\ status' = [status EXCEPT ![e] = "FAILED_RETRY"]
                      /\ due' = [due EXCEPT ![e] = FALSE]
  /\ CountFailure(w, e)
  /\ NextId(w, e)
  /\ UNCHANGED <<received, refused>>

\* Another instance has the row in a transaction or settled it already, or the
\* transaction fails: the outcome is lost.
SettleNothing(w, e) ==
  /\ Answers(w)
  /\ worker[w].event = e
  /\ CountFailure(w, e)
  /\ NextId(w, e)
  /\ UNCHANGED <<row, received, refused>>

\* The instance stops and starts again.
Crash(w) ==
  /\ worker[w].at # "idle"
  /\ worker' = [worker EXCEPT ![w] = Idle]
  /\ UNCHANGED <<row, history>>

Next ==
  \/ \E e \in Events : Publish(e) \/ TimePasses(e)
  \/ \E w \in Workers :
       \/ Tick(w)
       \/ \E e \in Events :
            \/ Process(w, e) \/ ProcessWithoutTarget(w, e) \/ ProcessNothing(w, e)
            \/ Settle(w, e) \/ SettleNothing(w, e)
       \/ \E t \in Consumers : Accepts(w, t) \/ Refuses(w, t) \/ Fails(w, t)
       \/ Crash(w)

Spec == Init /\ [][Next]_vars

\* A post ends that is one of the last n of its round.
PostEnds(w, n) ==
  /\ Cardinality(worker[w].left) = n
  /\ \E t \in Consumers : Accepts(w, t) \/ Refuses(w, t) \/ Fails(w, t)

\* The interval timer ticks for ever, time passes, a post ends by
\* OUTBOX_DELIVERY_TIMEOUT_MS. A crash or a lost outcome may come any number of
\* times, but not at every try.
Fairness ==
  /\ \A e \in Events : WF_vars(TimePasses(e))
  /\ \A w \in Workers :
       /\ WF_vars(Tick(w))
       /\ \A e \in Events :
            /\ SF_vars(Process(w, e) \/ ProcessWithoutTarget(w, e))
            /\ WF_vars(Process(w, e) \/ ProcessWithoutTarget(w, e) \/ ProcessNothing(w, e))
            /\ SF_vars(Settle(w, e))
            /\ WF_vars(Settle(w, e) \/ SettleNothing(w, e))
       /\ \A n \in 1..Cardinality(Consumers) : SF_vars(PostEnds(w, n))

FairSpec == Spec /\ Fairness

-----------------------------------------------------------------------------
(* Properties                                                              *)

\* At least once: an event marked SENT was handled by every one of its targets,
\* although instances deliver it side by side and some of their posts fail.
SentWasDelivered ==
  \A e \in Events : status[e] = "SENT" => Targets[e] \subseteq received[e]

\* An event is given up only when a target refused it or OUTBOX_RETRY_N rounds of
\* posts failed: no instance counts the same round twice, and none writes a number
\* of tries that were not made.
GivenUpForCause ==
  \A e \in Events :
    /\ tries[e] <= failures[e]
    /\ status[e] = "FAILED_FINAL" => refused[e] # {} \/ failures[e] = RetryN

\* What one instance settled, another that was still delivering does not undo.
FinalIsFinal ==
  [][\A e \in Events : status[e] \in Over => status'[e] = status[e]]_vars

\* A published event is delivered or given up.
EventsResolve ==
  \A e \in Events : status[e] = "PENDING" ~> status[e] \in Over

=============================================================================
