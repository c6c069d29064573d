---------------------------- MODULE AdminCommands ----------------------------
(***************************************************************************)
(* Moderation: admin-service keeps commands, identity-service and          *)
(* trips-service poll them, carry them out and acknowledge them.           *)
(*                                                                         *)
(* Polling takes nothing from the list: a command is handed out by every   *)
(* poll until an acknowledgement is recorded, to every instance that asks. *)
(* And none is ever recorded (NextTry), so that every poll hands out the   *)
(* oldest commands once more, and they are carried out once more.          *)
(***************************************************************************)
EXTENDS Sessions, Integers

CONSTANTS
  Commands,        \* ids, in the order of next_retry_at, which only an
                   \* acknowledgement that is recorded moves on
  NoCommand,
  Trips,
  Workers,         \* one for each instance of identity-service and of trips-service
  ServiceOf,       \* the service an instance belongs to
  FetchLimit,      \* limit=10
  CommandMaxRetries

ASSUME CommandsAssumption == Commands \subseteq Nat /\ NoCommand \notin Commands
ASSUME ServiceOfAssumption == ServiceOf \in [Workers -> {"identity", "trips"}]
ASSUME FetchLimitAssumption == FetchLimit \in Nat \ {0}
ASSUME CommandMaxRetriesAssumption == CommandMaxRetries \in Nat \ {0}

VARIABLES
  command,      \* the rows of admin_commands
  cancelled,    \* trips that are CANCELLED or COMPLETED
  worker,       \* what each instance is doing
  acks,         \* acknowledgements on their way
  done          \* history: commands that were carried out, with no older batch in
                \* an instance's hands, and that no instance has given up since

commandVars == <<command, cancelled, worker, acks, done>>

Kinds == {"BAN_USER", "UNBAN_USER", "CANCEL_TRIP"}
NoKind == "none"
Targets == Accounts \cup Trips \cup {NoAccount}
OpenStatuses == {"PENDING", "FAILED_RETRY"}
FinalStatuses == {"APPLIED", "FAILED_FINAL"}

CommandType ==
  [status : {"NONE"} \cup OpenStatuses \cup FinalStatuses, kind : Kinds \cup {NoKind},
   target : Targets, tries : 0 .. CommandMaxRetries]

AckType == [command : Commands, status : {"APPLIED", "FAILED_RETRY"}]

WorkerType ==
  [at : {"idle", "ticking", "writing", "acking"}, todo : SUBSET Commands,
   command : Commands \cup {NoCommand}, status : {"APPLIED", "FAILED_RETRY"}]

CommandsTypeOK ==
  /\ command \in [Commands -> CommandType]
  /\ cancelled \in SUBSET Trips
  /\ worker \in [Workers -> WorkerType]
  /\ acks \in SUBSET AckType
  /\ done \in SUBSET Commands

IdleWorker == [at |-> "idle", todo |-> {}, command |-> NoCommand, status |-> "APPLIED"]

CommandsInit ==
  /\ command = [c \in Commands |->
       [status |-> "NONE", kind |-> NoKind, target |-> NoAccount, tries |-> 0]]
  /\ cancelled = {}
  /\ worker = [w \in Workers |-> IdleWorker]
  /\ acks = {}
  /\ done = {}

Open(c) == command[c].status \in OpenStatuses

\* An instance has the command in its hands and has not carried it out.
Ahead(w, c) == c \in worker[w].todo \/ (worker[w].at = "writing" /\ worker[w].command = c)

-----------------------------------------------------------------------------
(* Moderators                                                              *)

\* The next row, PENDING.
Orders(c, kind, target) ==
  /\ command[c].status = "NONE"
  /\ \A d \in Commands : d < c => command[d].status # "NONE"
  /\ command' = [command EXCEPT ![c] =
       [status |-> "PENDING", kind |-> kind, target |-> target, tries |-> 0]]
  /\ UNCHANGED <<cancelled, worker, acks, done, sessionVars>>

\* A command and its audit row in one transaction. Moderators ban others only.
OrdersBan(c, a) == Orders(c, "BAN_USER", a)
OrdersUnban(c, a) == Orders(c, "UNBAN_USER", a)
OrdersCancel(c, trip) == Orders(c, "CANCEL_TRIP", trip)

-----------------------------------------------------------------------------
(* An instance of a service                                                *)

TargetService(kind) == IF kind = "CANCEL_TRIP" THEN "trips" ELSE "identity"

\* findPendingByService: the open commands of a service, the oldest first, up to
\* the limit. The locks of the query are gone when it returns.
Pending(service) ==
  LET open == {c \in Commands : Open(c) /\ TargetService(command[c].kind) = service}
  IN  {c \in open : Cardinality({d \in open : d < c}) < FetchLimit}

\* A poll that is answered with commands.
Fetches(w) ==
  /\ worker[w].at = "idle"
  /\ Pending(ServiceOf[w]) # {}
  /\ worker' = [worker EXCEPT ![w].at = "ticking", ![w].todo = Pending(ServiceOf[w])]
  /\ UNCHANGED <<command, cancelled, acks, done, sessionVars>>

\* Mutant: the newest first.
First_Newest(w, c) == c \in worker[w].todo /\ \A d \in worker[w].todo : d <= c

\* One command after the other.
First(w, c) == c \in worker[w].todo /\ \A d \in worker[w].todo : c <= d

\* isBanned for a ban, bannedUntil for an unban.
InPlace(c) ==
  CASE command[c].kind = "BAN_USER" -> command[c].target \in banned
    [] command[c].kind = "UNBAN_USER" -> command[c].target \notin banned
    [] command[c].kind = "CANCEL_TRIP" -> command[c].target \in cancelled

\* Another instance has an earlier command on the same target ahead of it, in a
\* batch it fetched before this command was made.
OlderBatch(w, c) ==
  \E v \in Workers \ {w} :
    c \notin worker[v].todo
    /\ \E d \in Commands : d < c /\ command[d].target = command[c].target /\ Ahead(v, d)

\* The effect of the command is in place.
Completes(w, c) == done' = IF OlderBatch(w, c) THEN done ELSE done \cup {c}

TakesUp(w, c, at, status) ==
  worker' = [worker EXCEPT ![w] =
    [at |-> at, todo |-> @.todo \ {c}, command |-> c, status |-> status]]

\* Nothing to do: no such user, or the effect is in place.
FindsInPlace(w, c) ==
  /\ worker[w].at = "ticking"
  /\ First(w, c)
  /\ InPlace(c) \/ (command[c].kind # "CANCEL_TRIP" /\ command[c].target \notin registered)
  /\ TakesUp(w, c, "acking", "APPLIED")
  /\ Completes(w, c)
  /\ UNCHANGED <<command, cancelled, acks, sessionVars>>

\* A user to ban or to unban: the row is read now and written in the next step.
FindsUser(w, c) ==
  /\ worker[w].at = "ticking"
  /\ First(w, c)
  /\ command[c].kind # "CANCEL_TRIP" /\ command[c].target \in registered
  /\ ~InPlace(c)
  /\ TakesUp(w, c, "writing", "APPLIED")
  /\ UNCHANGED <<command, cancelled, acks, done, sessionVars>>

WritesUser(w) ==
  LET c == worker[w].command
  IN  /\ worker[w].at = "writing"
      /\ \/ command[c].kind = "BAN_USER" /\ Bans(command[c].target)
         \/ command[c].kind = "UNBAN_USER" /\ Unbans(command[c].target)
      /\ worker' = [worker EXCEPT ![w].at = "acking"]
      /\ Completes(w, c)
      /\ UNCHANGED <<command, cancelled, acks>>

\* One transaction under the lock of the trip.
CancelsTrip(w, c) ==
  /\ worker[w].at = "ticking"
  /\ First(w, c)
  /\ command[c].kind = "CANCEL_TRIP"
  /\ ~InPlace(c)
  /\ TakesUp(w, c, "acking", "APPLIED")
  /\ cancelled' = cancelled \cup {command[c].target}
  /\ Completes(w, c)
  /\ UNCHANGED <<command, acks, sessionVars>>

FailureStatus == "FAILED_RETRY"

\* Reading or writing throws: nothing is changed.
FailsToApply(w, c) ==
  /\ \/ worker[w].at = "ticking" /\ First(w, c)
     \/ worker[w].at = "writing" /\ c = worker[w].command
  /\ TakesUp(w, c, "acking", FailureStatus)
  /\ done' = done \ {c}
  /\ UNCHANGED <<command, cancelled, acks, sessionVars>>

\* What is left of the batch, after an attempt that failed too.
Rest(w) == worker[w].todo

\* ackCommand goes on when it is answered, whatever the answer, and when it is not.
Acknowledges(w) ==
  /\ worker[w].at = "acking"
  /\ acks' = acks \cup {[command |-> worker[w].command, status |-> worker[w].status]}
  /\ worker' = [worker EXCEPT ![w] =
       IF Rest(w) = {} THEN IdleWorker ELSE [IdleWorker EXCEPT !.at = "ticking", !.todo = Rest(w)]]
  /\ UNCHANGED <<command, cancelled, done, sessionVars>>

\* The instance stops and starts again.
WorkerCrashes(w) ==
  /\ worker[w].at # "idle"
  /\ worker' = [worker EXCEPT ![w] = IdleWorker]
  /\ done' = {c \in done : ~Ahead(w, c)}
  /\ UNCHANGED <<command, cancelled, acks, sessionVars>>

-----------------------------------------------------------------------------
(* Acknowledgements                                                        *)

\* acknowledge: a FAILED_RETRY that makes the tries enough is a FAILED_FINAL.
FinalStatus(ack) ==
  IF ack.status = "FAILED_RETRY" /\ command[ack.command].tries + 1 >= CommandMaxRetries
  THEN "FAILED_FINAL" ELSE ack.status

\* undefined + 1: no number of tries.
NaN == -1

\* SELECT * gives the columns under their own names, whatever the type says.
Selected(c) == [status |-> command[c].status, try_count |-> command[c].tries]

NextTry(row) == IF "tryCount" \in DOMAIN row THEN row.tryCount + 1 ELSE NaN

\* ack. tryCount is NextTry whatever the status, and a column of integers that is
\* not nullable takes no NaN: Prisma refuses the update, the transaction is rolled
\* back, the answer is a 500. A command that is final is answered as it is.
RecordsAck(ack) ==
  LET c == ack.command
      next == NextTry(Selected(c))
  IN  /\ ack \in acks
      /\ acks' = acks \ {ack}
      /\ command' = IF Open(c) /\ next # NaN
                    THEN [command EXCEPT ![c].status = FinalStatus(ack), ![c].tries = next]
                    ELSE command
      /\ UNCHANGED <<cancelled, worker, done, sessionVars>>

\* It never arrives, and the instance does not ask.
DropsAck(ack) ==
  /\ ack \in acks
  /\ acks' = acks \ {ack}
  /\ UNCHANGED <<command, cancelled, worker, done, sessionVars>>

Works(w) ==
  \/ Fetches(w) \/ WritesUser(w) \/ Acknowledges(w)
  \/ \E c \in Commands : FindsInPlace(w, c) \/ FindsUser(w, c) \/ CancelsTrip(w, c)

CommandsNext ==
  \/ \E c \in Commands :
       \/ \E a \in Accounts : OrdersBan(c, a) \/ OrdersUnban(c, a)
       \/ \E trip \in Trips : OrdersCancel(c, trip)
  \/ \E w \in Workers :
       Works(w) \/ WorkerCrashes(w) \/ \E c \in Commands : FailsToApply(w, c)
  \/ \E ack \in acks : RecordsAck(ack) \/ DropsAck(ack)

CommandsSpec == CommandsInit /\ SessionsInit /\ [][CommandsNext]_<<commandVars, sessionVars>>

\* setInterval polls for ever, and admin-service answers some poll. An attempt may
\* fail and an instance crash any number of times, but not at each try of the same step.
CommandsFairness ==
  \A w \in Workers :
    /\ WF_<<commandVars, sessionVars>>(Fetches(w))
    /\ \A c \in Commands :
         /\ SF_<<commandVars, sessionVars>>(FindsInPlace(w, c) \/ FindsUser(w, c) \/ CancelsTrip(w, c))
         /\ SF_<<commandVars, sessionVars>>(worker[w].command = c /\ WritesUser(w))
         /\ SF_<<commandVars, sessionVars>>(worker[w].command = c /\ Acknowledges(w))

\* An acknowledgement that is sent for ever arrives for ever.
AcksFairness == \A ack \in AckType : SF_<<commandVars, sessionVars>>(RecordsAck(ack))

-----------------------------------------------------------------------------
(* Properties                                                              *)

\* The last command on a target.
LastOn(c) ==
  /\ command[c].status # "NONE"
  /\ \A d \in Commands : d > c => command[d].target # command[c].target

\* A moderator's last word holds. Every batch carries out the commands on a target
\* all over again, and between two instances' batches the target may be anything; but
\* when the last command on it was carried out, and nobody who could undo it is at
\* work, the target is as that command ordered.
LastWordHolds ==
  \A c \in done :
    LastOn(c) /\ command[c].target \notin Accounts \ registered
    /\ (\A w \in Workers : ~Ahead(w, c)) => InPlace(c)

\* Moderation commands are delivered by polling: none stays on the list for ever
\* without being carried out.
CommandsAreDelivered ==
  \A c \in Commands : command[c].status = "PENDING" ~> c \in done \/ ~Open(c)

=============================================================================
