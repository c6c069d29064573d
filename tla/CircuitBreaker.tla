--------------------------- MODULE CircuitBreaker ---------------------------
(***************************************************************************)
(* shared/resilience/circuit-breaker.ts: the breaker every outgoing call   *)
(* goes through (the gateway to a service, an outbox worker to a target,   *)
(* payments to the PSP). The object is shared by all the calls of a        *)
(* process; execute() runs up to its await, other calls run, and the       *)
(* result is recorded in whatever state the breaker is in by then.         *)
(*                                                                         *)
(* Time is kept as ages, in seconds: of a bucket (its epochSec), of the    *)
(* OPEN state (its openedAt), of a call. An age stops at the value beyond  *)
(* which nothing distinguishes it.                                         *)
(***************************************************************************)
EXTENDS Integers, FiniteSets, FiniteSetsExt

CONSTANTS
  Calls,                  \* calls that can be under way at once
  WindowSec,              \* rollingWindowMs
  MinimumRequests,
  ErrorThresholdPercent,
  OpenSec,                \* openDurationMs
  HalfOpenMaxProbes,
  CallSec,                \* the longest a call runs: the timeout inside fn
  Busy                    \* bound: results of one second while CLOSED

ASSUME WindowAssumption ==
  WindowSec \in Nat \ {0} /\ OpenSec \in Nat \ {0} /\ CallSec \in Nat
ASSUME ThresholdAssumption ==
  /\ MinimumRequests \in Nat \ {0}
  /\ ErrorThresholdPercent \in 1 .. 100
  /\ HalfOpenMaxProbes \in Nat \ {0}

VARIABLES
  hanging,            \* fn has no timeout of its own: it may never settle
  state,              \* CLOSED, OPEN, HALF_OPEN
  bucket,             \* the ring buffer, by index
  hand,               \* the index of the current second
  openFor,            \* now - openedAt, up to OpenSec
  halfOpenSuccesses,
  halfOpenInFlight,
  call,               \* the calls under way: age, and whether let in as a probe
  healthy,            \* whether the target answers
  recent,             \* history: results counted in each of the last seconds
  probesOk            \* history: probes of this HALF_OPEN that succeeded

breaker == <<state, bucket, openFor, halfOpenSuccesses, halfOpenInFlight>>
vars == <<breaker, hand, call, healthy, recent, probesOk, hanging>>

NoCall == [age |-> 0, probe |-> FALSE, on |-> FALSE]
NoResults == [total |-> 0, errors |-> 0]
EmptyBucket == [age |-> WindowSec, total |-> 0, errors |-> 0]
InFlight == {c \in Calls : call[c].on}
Indices == 0 .. (WindowSec - 1)

\* Initial values of the fields; resetBuckets writes the same buckets.
ResetBuckets == [j \in Indices |-> EmptyBucket]
NothingRecent == [a \in Indices |-> NoResults]

TypeOK ==
  /\ hanging \in BOOLEAN
  /\ state \in {"CLOSED", "OPEN", "HALF_OPEN"}
  /\ bucket \in [Indices -> [age : 0 .. WindowSec, total : Nat, errors : Nat]]
  /\ hand \in Indices
  /\ openFor \in 0 .. OpenSec
  /\ halfOpenSuccesses \in 0 .. HalfOpenMaxProbes
  /\ halfOpenInFlight \in BOOLEAN
  /\ call \in [Calls -> [age : 0 .. CallSec, probe : BOOLEAN, on : BOOLEAN]]
  /\ healthy \in BOOLEAN
  /\ recent \in [Indices -> [total : Nat, errors : Nat]]
  /\ probesOk \in 0 .. HalfOpenMaxProbes

Init ==
  /\ hanging \in BOOLEAN
  /\ state = "CLOSED"
  /\ bucket = ResetBuckets
  /\ hand = 0
  /\ openFor = 0
  /\ halfOpenSuccesses = 0
  /\ halfOpenInFlight = FALSE
  /\ call = [c \in Calls |-> NoCall]
  /\ healthy = TRUE
  /\ recent = NothingRecent
  /\ probesOk = 0

-----------------------------------------------------------------------------
(* The window                                                              *)

Plus(r, isError) ==
  [r EXCEPT !.total = @ + 1, !.errors = IF isError THEN @ + 1 ELSE @]

\* currentBucket: a bucket of an earlier turn of the ring is emptied first.
CurrentBucket ==
  IF bucket[hand].age = 0 THEN bucket[hand] ELSE [EmptyBucket EXCEPT !.age = 0]

Counted(isError) == [bucket EXCEPT ![hand] = Plus(CurrentBucket, isError)]

\* Mutant: off by one, a bucket whose slot is due for reuse still counts.
InWindow_OneMore(b) == {j \in Indices : b[j].age <= WindowSec}

InWindow(b) == {j \in Indices : b[j].age < WindowSec}

Totals(r) == [j \in Indices |-> r[j].total]
Errors(r) == [j \in Indices |-> r[j].errors]

\* windowStats, of the buckets b.
WindowStats(b) ==
  [total |-> SumFunctionOnSet(Totals(b), InWindow(b)),
   errors |-> SumFunctionOnSet(Errors(b), InWindow(b))]

\* evaluateThreshold: the share of errors, without the division.
Exceeded(stats) ==
  /\ stats.total >= MinimumRequests
  /\ stats.errors * 100 >= ErrorThresholdPercent * stats.total

Remember(isError) == recent' = [recent EXCEPT ![0] = Plus(@, isError)]

-----------------------------------------------------------------------------
(* execute(): a call is let in, or fails fast and changes nothing          *)

Enters(c, isProbe) ==
  call' = [d \in Calls |->
    IF d = c THEN [age |-> 0, probe |-> isProbe, on |-> TRUE] ELSE call[d]]

\* CLOSED: everybody passes.
BeginClosed(c) ==
  /\ ~call[c].on
  /\ state = "CLOSED"
  /\ recent[0].total + Cardinality(InFlight) < Busy
  /\ Enters(c, FALSE)
  /\ UNCHANGED <<breaker, hand, healthy, hanging, recent, probesOk>>

\* Mutant: halfOpenSuccesses is not reset, successes of an earlier HALF_OPEN count.
BeginAfterOpen_Resuming(c) ==
  /\ ~call[c].on
  /\ state = "OPEN"
  /\ openFor >= OpenSec
  /\ state' = "HALF_OPEN"
  /\ halfOpenInFlight' = TRUE
  /\ call' = [d \in Calls |->
       IF d = c THEN [age |-> 0, probe |-> TRUE, on |-> TRUE]
                ELSE [call[d] EXCEPT !.probe = FALSE]]
  /\ probesOk' = 0
  /\ UNCHANGED <<bucket, openFor, halfOpenSuccesses, hand, healthy, hanging, recent>>

\* OPEN for openDurationMs: this call makes it HALF_OPEN and is its first probe.
BeginAfterOpen(c) ==
  /\ ~call[c].on
  /\ state = "OPEN"
  /\ openFor >= OpenSec
  /\ state' = "HALF_OPEN"
  /\ halfOpenSuccesses' = 0
  /\ halfOpenInFlight' = TRUE
  /\ call' = [d \in Calls |->
       IF d = c THEN [age |-> 0, probe |-> TRUE, on |-> TRUE]
                ELSE [call[d] EXCEPT !.probe = FALSE]]
  /\ probesOk' = 0
  /\ UNCHANGED <<bucket, openFor, hand, healthy, hanging, recent>>

\* HALF_OPEN: one at a time.
BeginProbe(c) ==
  /\ ~call[c].on
  /\ state = "HALF_OPEN"
  /\ ~halfOpenInFlight
  /\ halfOpenInFlight' = TRUE
  /\ Enters(c, TRUE)
  /\ UNCHANGED <<state, bucket, openFor, halfOpenSuccesses, hand, healthy, hanging, recent,
                 probesOk>>

Begin == \E c \in Calls : BeginClosed(c) \/ BeginAfterOpen(c) \/ BeginProbe(c)

-----------------------------------------------------------------------------
(* recordSuccess, recordFailure                                            *)

Leaves(c) == call[c].on /\ call' = [call EXCEPT ![c] = NoCall]

\* Mutant: halfOpenInFlight is not cleared.
ProbeSucceeds_FlagStays(c) ==
  /\ state = "HALF_OPEN"
  /\ Leaves(c)
  /\ halfOpenSuccesses' = halfOpenSuccesses + 1
  /\ probesOk' = IF call[c].probe THEN probesOk + 1 ELSE probesOk
  /\ IF halfOpenSuccesses + 1 < HalfOpenMaxProbes
       THEN UNCHANGED <<state, bucket, recent>>
       ELSE state' = "CLOSED" /\ bucket' = ResetBuckets /\ recent' = NothingRecent
  /\ UNCHANGED <<openFor, halfOpenInFlight, hand, healthy, hanging>>

ProbeSucceeds(c) ==
  /\ state = "HALF_OPEN"
  /\ Leaves(c)
  /\ halfOpenInFlight' = FALSE
  /\ halfOpenSuccesses' = halfOpenSuccesses + 1
  /\ probesOk' = IF call[c].probe THEN probesOk + 1 ELSE probesOk
  /\ IF halfOpenSuccesses + 1 < HalfOpenMaxProbes
       THEN UNCHANGED <<state, bucket, recent>>
       ELSE state' = "CLOSED" /\ bucket' = ResetBuckets /\ recent' = NothingRecent
  /\ UNCHANGED <<openFor, hand, healthy, hanging>>

\* CLOSED, or OPEN when the call was let in before. A success is not evaluated.
CallSucceeds(c) ==
  /\ state # "HALF_OPEN"
  /\ Leaves(c)
  /\ bucket' = Counted(FALSE)
  /\ Remember(FALSE)
  /\ UNCHANGED <<state, openFor, halfOpenSuccesses, halfOpenInFlight, hand, healthy, hanging,
                 probesOk>>

ProbeFails(c) ==
  /\ ~healthy
  /\ state = "HALF_OPEN"
  /\ Leaves(c)
  /\ halfOpenInFlight' = FALSE
  /\ state' = "OPEN"
  /\ openFor' = 0
  /\ UNCHANGED <<bucket, halfOpenSuccesses, hand, healthy, hanging, recent, probesOk>>

CallFails(c) ==
  /\ ~healthy
  /\ state # "HALF_OPEN"
  /\ Leaves(c)
  /\ bucket' = Counted(TRUE)
  /\ Remember(TRUE)
  /\ IF state = "CLOSED" /\ Exceeded(WindowStats(bucket'))
       THEN state' = "OPEN" /\ openFor' = 0
       ELSE UNCHANGED <<state, openFor>>
  /\ UNCHANGED <<halfOpenSuccesses, halfOpenInFlight, hand, healthy, hanging, probesOk>>

Succeeds(c) == ProbeSucceeds(c) \/ CallSucceeds(c)
Fails(c) == ProbeFails(c) \/ CallFails(c)

\* fn never settles. withTimeout(psp.capture(...)) is outside of execute(): its
\* caller goes on, and nothing is recorded.
Hangs(c) ==
  /\ hanging
  /\ ~healthy
  /\ Leaves(c)
  /\ UNCHANGED <<breaker, hand, healthy, hanging, recent, probesOk>>

-----------------------------------------------------------------------------
(* Time, and the target                                                    *)

Older(age, limit) == IF age < limit THEN age + 1 ELSE limit

\* A second passes. A call with a timeout has ended by then.
Tick ==
  /\ hanging \/ \A c \in InFlight : call[c].age < CallSec
  /\ hand' = (hand + 1) % WindowSec
  /\ bucket' = [j \in Indices |-> [bucket[j] EXCEPT !.age = Older(@, WindowSec)]]
  /\ openFor' = Older(openFor, OpenSec)
  /\ call' = [c \in Calls |->
       IF call[c].on THEN [call[c] EXCEPT !.age = Older(@, CallSec)] ELSE call[c]]
  /\ recent' = [a \in Indices |-> IF a = 0 THEN NoResults ELSE recent[a - 1]]
  /\ UNCHANGED <<state, halfOpenSuccesses, halfOpenInFlight, healthy, hanging, probesOk>>

TargetChanges ==
  /\ healthy' = ~healthy
  /\ UNCHANGED <<breaker, hand, call, recent, probesOk, hanging>>

Next ==
  \/ \E c \in Calls :
       \/ BeginClosed(c) \/ BeginAfterOpen(c) \/ BeginProbe(c)
       \/ ProbeSucceeds(c) \/ CallSucceeds(c) \/ ProbeFails(c) \/ CallFails(c)
       \/ Hangs(c)
  \/ Tick
  \/ TargetChanges

Spec == Init /\ [][Next]_vars

\* Time passes, callers keep coming (the workers poll for ever, users retry),
\* and a call that does not hang ends.
Fairness ==
  /\ WF_vars(Tick)
  /\ WF_vars(Begin)
  /\ \A c \in Calls : WF_vars(Succeeds(c) \/ Fails(c) \/ Hangs(c))

FairSpec == Spec /\ Fairness

-----------------------------------------------------------------------------
(* Properties                                                              *)

\* windowStats is what was recorded in the last rollingWindowMs since the breaker
\* last closed: the ring buffer, emptied only when its slots are written again,
\* neither forgets a result nor counts one of an earlier turn.
WindowIsExact ==
  WindowStats(bucket) =
    [total |-> SumFunctionOnSet(Totals(recent), Indices),
     errors |-> SumFunctionOnSet(Errors(recent), Indices)]

\* While HALF_OPEN one call at most is under way and halfOpenInFlight says which is
\* the case: no straggler of the time before, no second probe, and no flag left set
\* by a probe that is gone, which would refuse every call for ever. (Of a breaker
\* whose calls have a timeout, here as in the next two.)
ProbesAlone ==
  ~hanging /\ state = "HALF_OPEN" =>
    /\ halfOpenInFlight <=> InFlight # {}
    /\ \A c, d \in InFlight : c = d

\* The breaker opens for a cause: too large a share of the calls of the window
\* failed, or a probe did; and it closes only when halfOpenMaxProbes of this
\* HALF_OPEN's own probes succeeded (circuit-breaker.spec.ts: "closes after
\* successful HALF_OPEN probes").
OpensAndClosesForCause ==
  [][/\ state = "CLOSED" /\ state' = "OPEN" => Exceeded(WindowStats(bucket'))
     /\ ~hanging /\ state = "HALF_OPEN" /\ state' = "OPEN" =>
          \E c \in Calls : call[c].on /\ call[c].probe /\ ~call'[c].on
     /\ ~hanging /\ state = "HALF_OPEN" /\ state' = "CLOSED" => probesOk' = HalfOpenMaxProbes
     /\ state = "OPEN" /\ state' # "OPEN" => state' = "HALF_OPEN" /\ openFor = OpenSec]_vars

\* Once the target answers, calls get through again: the runbooks rely on it
\* (docs/runbooks/outbox-backlog-growth.md, "HALF_OPEN -> CLOSED").
Recovers == ~hanging /\ <>[]healthy => <>[](state = "CLOSED")

=============================================================================
