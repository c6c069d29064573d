---------------------------- MODULE Notifications ----------------------------
(***************************************************************************)
(* notifications-service: notifications are enqueued by events and by      *)
(* users' requests, cancelled by users, and sent by a worker of which      *)
(* every instance of the service has one.                                  *)
(*                                                                         *)
(* A worker lists the due ids, then takes them one after the other: a      *)
(* transaction claims the row (a try is counted, the row is not due for    *)
(* 120 s), the provider is called outside any transaction, another         *)
(* transaction marks the row by its id, whatever its status is by then.    *)
(***************************************************************************)
EXTENDS Naturals, FiniteSets

CONSTANTS
  Notices,       \* notification ids
  NoNotice,
  NoticeEvents,  \* events delivered to /internal/events
  EventType,     \* their eventType
  Malformed,     \* those whose payload does not parse
  RequestKeys,   \* a user's Idempotency-Keys
  KeyTemplate,   \* the template and the channel asked for with a key
  Gone,          \* templates the worker's build does not have
  NoCause,
  Callers,       \* requests under way: deliveries of events, POST /notifications
  Senders,       \* instances of the service
  NotifRetryN    \* NOTIF_RETRY_N

Causes == NoticeEvents \cup RequestKeys

Templates ==
  {<<"BOOKING_CONFIRMED", "PUSH">>, <<"BOOKING_CONFIRMED", "EMAIL">>,
   <<"PAYMENT_CAPTURED", "EMAIL">>, <<"BOOKING_CANCELLED", "SMS">>,
   <<"PAYMENT_HOLD_PLACED", "PUSH">>, <<"PAYMENT_HOLD_PLACED", "EMAIL">>}

NoTemplate == <<"none", "none">>

ASSUME NotifRetryAssumption == NotifRetryN \in Nat \ {0}
ASSUME NoNoticeAssumption == NoNotice \notin Notices
ASSUME CausesAssumption == NoCause \notin Causes /\ NoticeEvents \cap RequestKeys = {}
ASSUME KeyTemplateAssumption ==
  DOMAIN KeyTemplate = RequestKeys /\ \A k \in RequestKeys : KeyTemplate[k] # NoTemplate

VARIABLES
  notice,       \* the rows: status ("NONE" before), try_count, due, template and cause
  consumed,     \* consumed_events
  caller,       \* what each request has found so far
  sender,       \* what each worker is doing
  accepted,     \* history: the notices a provider accepted
  claims        \* history: how often a notice was claimed, up to NOTIF_RETRY_N

notificationVars == <<notice, consumed, caller, sender, accepted, claims>>

Unsent == {"PENDING", "FAILED_RETRY"}
Settled == {"SENT", "FAILED_FINAL", "CANCELLED"}

NoticeType ==
  [status : {"NONE"} \cup Unsent \cup Settled, tries : 0 .. NotifRetryN,
   due : BOOLEAN, template : Templates \cup {NoTemplate}, cause : Causes \cup {NoCause}]

SenderType ==
  [at : {"idle", "ticking", "sending", "marking"}, todo : SUBSET Notices,
   notice : Notices \cup {NoNotice}, try : 0 .. NotifRetryN, ok : BOOLEAN]

NotificationsTypeOK ==
  /\ notice \in [Notices -> NoticeType]
  /\ consumed \in SUBSET NoticeEvents
  /\ caller \in [Callers -> Causes \cup {NoCause}]
  /\ sender \in [Senders -> SenderType]
  /\ accepted \in SUBSET Notices
  /\ claims \in [Notices -> 0 .. NotifRetryN]

IdleSender == [at |-> "idle", todo |-> {}, notice |-> NoNotice, try |-> 0, ok |-> FALSE]

NotificationsInit ==
  /\ notice = [n \in Notices |->
       [status |-> "NONE", tries |-> 0, due |-> FALSE, template |-> NoTemplate,
        cause |-> NoCause]]
  /\ consumed = {}
  /\ caller = [c \in Callers |-> NoCause]
  /\ sender = [s \in Senders |-> IdleSender]
  /\ accepted = {}
  /\ claims = [n \in Notices |-> 0]

\* Tries past NOTIF_RETRY_N are not told apart: the code asks only for >=.
OneMore(count) == IF count < NotifRetryN THEN count + 1 ELSE NotifRetryN

-----------------------------------------------------------------------------
(* Enqueueing: a look outside the transaction, the insert under a unique    *)
(* index                                                                    *)

\* The cause is recorded: in consumed_events, or as the key of a row.
Recorded(cause) ==
  \/ cause \in consumed
  \/ cause \in RequestKeys /\ \E n \in Notices : notice[n].cause = cause

\* A template that does not exist ends the request. Then findByEventId or
\* findByIdempotencyKey finds nothing; if it finds the cause, the request ends
\* there too (a duplicate, a replay or IDMP_CONFLICT).
LooksForCause(c, cause) ==
  /\ caller[c] = NoCause
  /\ cause \in RequestKeys => KeyTemplate[cause] \in Templates
  /\ ~Recorded(cause)
  /\ caller' = [caller EXCEPT ![c] = cause]
  /\ UNCHANGED <<notice, consumed, sender, accepted, claims>>

\* Mutant: the insert does not meet the unique index.
MayInsert_Always(cause) == TRUE

\* P2002 otherwise.
MayInsert(cause) == ~Recorded(cause)

CreatesNotice(why, template) ==
  \E n \in Notices :
    /\ notice[n].status = "NONE"
    /\ notice' = [notice EXCEPT ![n] =
         [status |-> "PENDING", tries |-> 0, due |-> TRUE, template |-> template,
          cause |-> why]]

\* The handlers: what each event is told the passenger with. A payload that does
\* not parse is told nobody.
HandlesBookingCancelled(e) ==
  /\ EventType[e] \in {"booking.cancelled", "booking.expired"}
  /\ CreatesNotice(e, <<"BOOKING_CANCELLED", "SMS">>)

HandlesHoldPlaced(e) ==
  /\ EventType[e] = "payment.intent.hold_placed"
  /\ CreatesNotice(e, <<"PAYMENT_HOLD_PLACED", "PUSH">>)

HandlesCaptured(e) ==
  /\ EventType[e] = "payment.captured"
  /\ CreatesNotice(e, <<"BOOKING_CONFIRMED", "PUSH">>)

HandlesMalformed(e) == e \in Malformed /\ notice' = notice

\* The event and its notification in one transaction. Events of other types are
\* ignored.
ConsumesEvent(c, e) ==
  /\ caller[c] = e
  /\ e \in NoticeEvents
  /\ MayInsert(e)
  /\ caller' = [caller EXCEPT ![c] = NoCause]
  /\ consumed' = consumed \cup {e}
  /\ \/ HandlesMalformed(e)
     \/ /\ e \notin Malformed
        /\ HandlesBookingCancelled(e) \/ HandlesHoldPlaced(e) \/ HandlesCaptured(e)
  /\ UNCHANGED <<sender, accepted, claims>>

Enqueues(c, k) ==
  /\ caller[c] = k
  /\ k \in RequestKeys
  /\ MayInsert(k)
  /\ caller' = [caller EXCEPT ![c] = NoCause]
  /\ CreatesNotice(k, KeyTemplate[k])
  /\ UNCHANGED <<consumed, sender, accepted, claims>>

\* The unique index is violated, the transaction fails, or the process stops.
CallerFails(c) ==
  /\ caller[c] # NoCause
  /\ caller' = [caller EXCEPT ![c] = NoCause]
  /\ UNCHANGED <<notice, consumed, sender, accepted, claims>>

-----------------------------------------------------------------------------
(* The row                                                                 *)

\* What lockById looks for: the status, but not next_retry_at.
NoticeLockable(n) == notice[n].status \in Unsent

\* The owner cancels, under the row's lock.
CancelsNotice(n) ==
  /\ NoticeLockable(n)
  /\ notice' = [notice EXCEPT ![n].status = "CANCELLED"]
  /\ UNCHANGED <<consumed, caller, sender, accepted, claims>>

\* The backoff is over, or the claim, also of a worker that is still at it: the
\* claim lasts 120 s and sending 3 s (PROVIDER_TIMEOUT_MS), but nothing bounds the
\* transaction that marks the row.
NoticeFallsDue(n) ==
  /\ notice[n].status = "FAILED_RETRY"
  /\ ~notice[n].due
  /\ notice' = [notice EXCEPT ![n].due = TRUE]
  /\ UNCHANGED <<consumed, caller, sender, accepted, claims>>

-----------------------------------------------------------------------------
(* The worker                                                              *)

\* findDueIds. A row may be locked just then, and left out.
SenderTicks(s) ==
  /\ sender[s].at = "idle"
  /\ \E todo \in SUBSET {n \in Notices : notice[n].status \in Unsent /\ notice[n].due} :
       /\ todo # {}
       /\ sender' = [sender EXCEPT ![s] = [IdleSender EXCEPT !.at = "ticking", !.todo = todo]]
  /\ UNCHANGED <<notice, consumed, caller, accepted, claims>>

\* On to the next id, or the tick is over.
NextNotice(s, todo) ==
  sender' = [sender EXCEPT ![s] =
    IF todo = {} THEN IdleSender ELSE [IdleSender EXCEPT !.at = "ticking", !.todo = todo]]

ClaimedStatus == "FAILED_RETRY"

ClaimsNotice(s, n) ==
  /\ sender[s].at = "ticking"
  /\ n \in sender[s].todo
  /\ NoticeLockable(n)
  /\ LET try == OneMore(notice[n].tries)
     IN  /\ notice' = [notice EXCEPT ![n].status = ClaimedStatus, ![n].tries = try,
                                     ![n].due = FALSE]
         /\ sender' = [sender EXCEPT ![s] =
              [at |-> "sending", todo |-> @.todo \ {n}, notice |-> n, try |-> try,
               ok |-> FALSE]]
  /\ claims' = [claims EXCEPT ![n] = OneMore(@)]
  /\ UNCHANGED <<consumed, caller, accepted>>

\* The row is locked or no longer to be sent, or the transaction fails.
PassesOver(s, n) ==
  /\ sender[s].at = "ticking"
  /\ n \in sender[s].todo
  /\ NextNotice(s, sender[s].todo \ {n})
  /\ UNCHANGED <<notice, consumed, caller, accepted, claims>>

\* getTemplate, in the worker's build.
Templated(n) == notice[n].template \in Templates \ Gone

\* What the worker learns of a send that went through or not.
Outcomes(ok) == {ok}

\* sendViaProvider: accepted; or an error; or no answer within
\* PROVIDER_TIMEOUT_MS, though the provider may have accepted.
Sends(s) ==
  /\ sender[s].at = "sending"
  /\ Templated(sender[s].notice)
  /\ \E reached, answered \in BOOLEAN :
       /\ answered => reached
       /\ accepted' = IF reached THEN accepted \cup {sender[s].notice} ELSE accepted
       /\ \E ok \in Outcomes(answered) :
            sender' = [sender EXCEPT ![s].at = "marking", ![s].ok = ok]
  /\ UNCHANGED <<notice, consumed, caller, claims>>

\* Marked by id, whatever the row's status is by now.
Marks(s, status, due) ==
  LET n == sender[s].notice
  IN  /\ notice' = [notice EXCEPT ![n].status = status, ![n].due = due,
                                  ![n].tries = sender[s].try]
      /\ NextNotice(s, sender[s].todo)
      /\ UNCHANGED <<consumed, caller, accepted, claims>>

MarksUntemplated(s) ==
  /\ sender[s].at = "sending"
  /\ ~Templated(sender[s].notice)
  /\ Marks(s, "FAILED_FINAL", notice[sender[s].notice].due)

\* With the event notification.sent.
MarksSent(s) ==
  /\ sender[s].at = "marking"
  /\ sender[s].ok
  /\ Marks(s, "SENT", notice[sender[s].notice].due)

\* Mutant: the last try is not made.
LastTry_OneEarly(s) == sender[s].try + 1 >= NotifRetryN

LastTry(s) == sender[s].try >= NotifRetryN

MarksFailedFinal(s) ==
  /\ sender[s].at = "marking"
  /\ ~sender[s].ok
  /\ LastTry(s)
  /\ Marks(s, "FAILED_FINAL", notice[sender[s].notice].due)

MarksRetry(s) ==
  /\ sender[s].at = "marking"
  /\ ~sender[s].ok
  /\ ~LastTry(s)
  /\ Marks(s, "FAILED_RETRY", FALSE)

\* The transaction fails: the row stays as it is.
MarksNothing(s) ==
  /\ sender[s].at \in {"sending", "marking"}
  /\ sender[s].at = "sending" => ~Templated(sender[s].notice)
  /\ NextNotice(s, sender[s].todo)
  /\ UNCHANGED <<notice, consumed, caller, accepted, claims>>

\* The instance stops and starts again.
SenderCrashes(s) ==
  /\ sender[s].at # "idle"
  /\ sender' = [sender EXCEPT ![s] = IdleSender]
  /\ UNCHANGED <<notice, consumed, caller, accepted, claims>>

SenderMarks(s) == MarksUntemplated(s) \/ MarksSent(s) \/ MarksFailedFinal(s) \/ MarksRetry(s)

NotificationsNext ==
  \/ \E c \in Callers :
       \/ \E cause \in Causes : LooksForCause(c, cause)
       \/ \E e \in NoticeEvents : ConsumesEvent(c, e)
       \/ \E k \in RequestKeys : Enqueues(c, k)
       \/ CallerFails(c)
  \/ \E n \in Notices : CancelsNotice(n) \/ NoticeFallsDue(n)
  \/ \E s \in Senders :
       \/ SenderTicks(s)
       \/ \E n \in Notices : ClaimsNotice(s, n) \/ PassesOver(s, n)
       \/ Sends(s) \/ SenderMarks(s) \/ MarksNothing(s) \/ SenderCrashes(s)

NotificationsSpec == NotificationsInit /\ [][NotificationsNext]_notificationVars

-----------------------------------------------------------------------------
(* Properties                                                              *)

\* An event delivered several times at once, and a request repeated with its
\* Idempotency-Key, make one notification: the look that found nothing is made
\* good by the unique index.
OneNoticePerCause ==
  \A m, n \in Notices :
    notice[m].cause = notice[n].cause /\ notice[m].cause # NoCause => m = n

\* A notification is SENT only if a provider accepted it, although instances
\* overwrite each other's marks; and it is given up only after NOTIF_RETRY_N
\* claims, or for want of a template.
MarksAreTrue ==
  \A n \in Notices :
    /\ notice[n].status = "SENT" => n \in accepted
    /\ notice[n].status = "FAILED_FINAL" => claims[n] = NotifRetryN \/ ~Templated(n)

=============================================================================
