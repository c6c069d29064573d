------------------------ MODULE CircuitBreakerProofs ------------------------
(***************************************************************************)
(* Theorems about CircuitBreaker, for any number of calls and any window,  *)
(* thresholds and durations.                                               *)
(***************************************************************************)
EXTENDS CircuitBreaker, Sums, TLAPS

\* HTTP_TIMEOUT_MS and BFF_TIMEOUT_MS (3 s and less) against CB_OPEN_DURATION_MS
\* (10 s): a call that ends does so before a breaker that opened meanwhile lets one in.
ShortCalls == CallSec < OpenSec

\* Successes are counted up to the number that closes the breaker.
SuccessesAreFew ==
  state = "HALF_OPEN" =>
    probesOk <= halfOpenSuccesses /\ halfOpenSuccesses < HalfOpenMaxProbes

\* Types.
TypeInv == TypeOK /\ SuccessesAreFew

\* What is under way while OPEN was let in before, and is at least as old.
StragglersEnd ==
  state = "OPEN" => \A c \in InFlight : openFor <= call[c].age

\* Successes are of probes of this HALF_OPEN.
ProbesCount ==
  state = "HALF_OPEN" =>
    halfOpenSuccesses = probesOk /\ \A c \in InFlight : call[c].probe

\* A call that hangs may end, or be forgotten, in any state of the breaker.
ProbeInv == ~hanging => StragglersEnd /\ ProbesAlone /\ ProbesCount

\* The inductive invariant.
Inv == TypeInv /\ ProbeInv

-----------------------------------------------------------------------------
(* Types                                                                   *)

\* Buckets, results and calls.
BucketType == [age : 0 .. WindowSec, total : Nat, errors : Nat]
ResultType == [total : Nat, errors : Nat]
CallType == [age : 0 .. CallSec, probe : BOOLEAN, on : BOOLEAN]

\* The ring has a first slot.
LEMMA Zero == 0 \in Indices /\ 0 \in 0 .. WindowSec /\ WindowSec \in 0 .. WindowSec
  BY WindowAssumption DEF Indices

\* What is empty has its type.
LEMMA EmptyTypes ==
  /\ EmptyBucket \in BucketType
  /\ [EmptyBucket EXCEPT !.age = 0] \in BucketType
  /\ NoResults \in ResultType
  /\ NoCall \in CallType
  <1>1. EmptyBucket \in BucketType
    BY Zero DEF EmptyBucket, BucketType
  <1>2. [EmptyBucket EXCEPT !.age = 0] \in BucketType
    BY <1>1, Zero DEF BucketType
  <1>3. NoResults \in ResultType
    BY DEF NoResults, ResultType
  <1>4. NoCall \in CallType
    BY WindowAssumption DEF NoCall, CallType
  <1>5. QED
    BY <1>1, <1>2, <1>3, <1>4

\* So has the ring when it is reset.
LEMMA ResetTypes ==
  /\ ResetBuckets \in [Indices -> BucketType]
  /\ NothingRecent \in [Indices -> ResultType]
  BY EmptyTypes DEF ResetBuckets, NothingRecent

\* Types hold at first.
LEMMA InitTypes == Init => TypeInv
  <1> SUFFICES ASSUME Init PROVE TypeInv
    OBVIOUS
  <1>1. call \in [Calls -> CallType]
    BY EmptyTypes DEF Init
  <1>2. bucket \in [Indices -> BucketType] /\ recent \in [Indices -> ResultType]
    BY ResetTypes DEF Init
  <1>3. 0 \in 0 .. OpenSec /\ 0 \in 0 .. HalfOpenMaxProbes
    BY WindowAssumption, ThresholdAssumption
  <1>4. TypeOK
    BY <1>1, <1>2, <1>3, Zero DEF Init, TypeOK, BucketType, ResultType, CallType
  <1>5. QED
    BY <1>4 DEF Init, TypeInv, SuccessesAreFew

\* Whether its calls have a timeout is a matter of what the breaker guards.
LEMMA WhatItGuards == [Next]_vars => hanging' = hanging
  BY DEF Next, vars, BeginClosed, BeginAfterOpen, BeginProbe, ProbeSucceeds, CallSucceeds,
         ProbeFails, CallFails, Hangs, Tick, TargetChanges

\* A counted result leaves a bucket of the ring, and a result of the history.
LEMMA CountedType ==
  ASSUME TypeOK, NEW isError \in BOOLEAN
  PROVE  /\ Counted(isError) \in [Indices -> BucketType]
         /\ [recent EXCEPT ![0] = Plus(@, isError)] \in [Indices -> ResultType]
  <1>1. CurrentBucket \in BucketType
    BY EmptyTypes DEF CurrentBucket, TypeOK, BucketType
  <1>2. ASSUME NEW r \in BucketType PROVE Plus(r, isError) \in BucketType
    <2>1. (IF isError THEN r.errors + 1 ELSE r.errors) \in Nat /\ r.total + 1 \in Nat
      BY DEF BucketType
    <2>2. QED
      BY <2>1 DEF BucketType, Plus
  <1>3. ASSUME NEW r \in ResultType PROVE Plus(r, isError) \in ResultType
    <2>1. (IF isError THEN r.errors + 1 ELSE r.errors) \in Nat /\ r.total + 1 \in Nat
      BY DEF ResultType
    <2>2. QED
      BY <2>1 DEF ResultType, Plus
  <1>4. bucket \in [Indices -> BucketType] /\ recent \in [Indices -> ResultType]
    BY DEF TypeOK, BucketType, ResultType
  <1>5. Counted(isError) \in [Indices -> BucketType]
    BY <1>1, <1>2, <1>4 DEF Counted
  <1>6. [recent EXCEPT ![0] = Plus(@, isError)] \in [Indices -> ResultType]
    BY <1>3, <1>4, Zero
  <1>7. QED
    BY <1>5, <1>6

\* The calls under way after one more was let in, or one is gone.
LEMMA CallsType ==
  ASSUME TypeOK, NEW c \in Calls
  PROVE  /\ \A p \in BOOLEAN : Enters(c, p) => call' \in [Calls -> CallType]
         /\ Leaves(c) => call' \in [Calls -> CallType]
  <1>1. call \in [Calls -> CallType]
    BY DEF TypeOK, CallType
  <1>2. \A p \in BOOLEAN : [age |-> 0, probe |-> p, on |-> TRUE] \in CallType
    BY WindowAssumption DEF CallType
  <1>3. QED
    BY <1>1, <1>2, EmptyTypes DEF Enters, Leaves

\* So do they when a second has passed.
LEMMA OlderType ==
  ASSUME NEW limit \in Nat, NEW age \in 0 .. limit
  PROVE  Older(age, limit) \in 0 .. limit
  BY DEF Older

\* Every step keeps them.
LEMMA TypeStep == TypeInv /\ [Next]_vars => TypeInv'
  <1> SUFFICES ASSUME TypeInv, [Next]_vars PROVE TypeInv'
    OBVIOUS
  <1> USE DEF TypeInv, SuccessesAreFew
  <1>t. /\ bucket \in [Indices -> BucketType]
        /\ recent \in [Indices -> ResultType]
        /\ call \in [Calls -> CallType]
    BY DEF TypeOK, BucketType, ResultType, CallType
  <1>h. hanging' = hanging
    BY WhatItGuards
  <1>u. ASSUME bucket' \in [Indices -> BucketType], recent' \in [Indices -> ResultType],
               call' \in [Calls -> CallType], hand' \in Indices, openFor' \in 0 .. OpenSec,
               state' \in {"CLOSED", "OPEN", "HALF_OPEN"},
               halfOpenSuccesses' \in 0 .. HalfOpenMaxProbes,
               halfOpenInFlight' \in BOOLEAN, healthy' \in BOOLEAN,
               probesOk' \in 0 .. HalfOpenMaxProbes
        PROVE  TypeOK'
    BY <1>u, <1>h DEF TypeOK, BucketType, ResultType, CallType
  <1>1. ASSUME NEW c \in Calls, BeginClosed(c) PROVE TypeInv'
    BY <1>1, <1>t, <1>u, CallsType DEF TypeOK, BeginClosed, breaker
  <1>2. ASSUME NEW c \in Calls, BeginAfterOpen(c) PROVE TypeInv'
    <2>1. call' \in [Calls -> CallType]
      <3>1. \A d \in Calls : [call[d] EXCEPT !.probe = FALSE] \in CallType
        BY <1>t DEF CallType
      <3>2. [age |-> 0, probe |-> TRUE, on |-> TRUE] \in CallType
        BY WindowAssumption DEF CallType
      <3>3. QED
        BY <1>2, <3>1, <3>2 DEF BeginAfterOpen
    <2>2. 0 \in 0 .. HalfOpenMaxProbes /\ 0 < HalfOpenMaxProbes /\ 0 <= 0
      BY ThresholdAssumption
    <2>3. QED
      BY <1>2, <1>t, <1>u, <2>1, <2>2 DEF TypeOK, BeginAfterOpen
  <1>3. ASSUME NEW c \in Calls, BeginProbe(c) PROVE TypeInv'
    BY <1>3, <1>t, <1>u, CallsType DEF TypeOK, BeginProbe
  <1>4. ASSUME NEW c \in Calls, ProbeSucceeds(c) PROVE TypeInv'
    <2>1. /\ halfOpenSuccesses' \in 0 .. HalfOpenMaxProbes
          /\ probesOk' \in 0 .. HalfOpenMaxProbes
          /\ probesOk' <= halfOpenSuccesses'
          /\ state' \in {"CLOSED", "HALF_OPEN"}
          /\ state' = "HALF_OPEN" => halfOpenSuccesses' < HalfOpenMaxProbes
      BY <1>4, ThresholdAssumption DEF TypeOK, ProbeSucceeds
    <2>2. bucket' \in [Indices -> BucketType] /\ recent' \in [Indices -> ResultType]
      BY <1>4, <1>t, ResetTypes DEF ProbeSucceeds
    <2>3. call' \in [Calls -> CallType]
      BY <1>4, CallsType DEF ProbeSucceeds
    <2>4. QED
      BY <1>4, <1>u, <2>1, <2>2, <2>3 DEF TypeOK, ProbeSucceeds
  <1>5. ASSUME NEW c \in Calls, CallSucceeds(c) PROVE TypeInv'
    BY <1>5, <1>t, <1>u, CallsType, CountedType DEF TypeOK, CallSucceeds, Remember
  <1>6. ASSUME NEW c \in Calls, ProbeFails(c) PROVE TypeInv'
    <2>1. 0 \in 0 .. OpenSec
      BY WindowAssumption
    <2>2. QED
      BY <1>6, <1>t, <1>u, <2>1, CallsType DEF TypeOK, ProbeFails
  <1>7. ASSUME NEW c \in Calls, CallFails(c) PROVE TypeInv'
    <2>1. 0 \in 0 .. OpenSec
      BY WindowAssumption
    <2>2. /\ state' \in {state, "OPEN"}
          /\ openFor' \in {openFor, 0}
      BY <1>7 DEF CallFails
    <2>3. QED
      BY <1>7, <1>t, <1>u, <2>1, <2>2, CallsType, CountedType
      DEF TypeOK, CallFails, Remember
  <1>8. ASSUME NEW c \in Calls, Hangs(c) PROVE TypeInv'
    BY <1>8, <1>t, <1>u, CallsType DEF TypeOK, Hangs, breaker
  <1>9. ASSUME Tick PROVE TypeInv'
    <2>1. (hand + 1) % WindowSec \in Indices
      BY WindowAssumption DEF Indices, TypeOK
    <2>2. bucket' \in [Indices -> BucketType]
      <3>1. \A j \in Indices : [bucket[j] EXCEPT !.age = Older(@, WindowSec)] \in BucketType
        BY <1>t, OlderType, WindowAssumption DEF BucketType
      <3>2. QED
        BY <1>9, <3>1 DEF Tick
    <2>3. call' \in [Calls -> CallType]
      <3>1. \A c \in Calls : [call[c] EXCEPT !.age = Older(@, CallSec)] \in CallType
        BY <1>t, OlderType, WindowAssumption DEF CallType
      <3>2. QED
        BY <1>9, <1>t, <3>1 DEF Tick
    <2>4. recent' \in [Indices -> ResultType]
      <3>1. \A a \in Indices : a # 0 => a - 1 \in Indices
        BY WindowAssumption DEF Indices
      <3>2. QED
        BY <1>9, <1>t, <3>1, EmptyTypes DEF Tick
    <2>5. openFor' \in 0 .. OpenSec
      BY <1>9, OlderType, WindowAssumption DEF Tick, TypeOK
    <2>6. QED
      BY <1>9, <1>u, <2>1, <2>2, <2>3, <2>4, <2>5 DEF TypeOK, Tick
  <1>10. ASSUME TargetChanges PROVE TypeInv'
    BY <1>10, <1>t, <1>u DEF TypeOK, TargetChanges, breaker
  <1>11. ASSUME UNCHANGED vars PROVE TypeInv'
    BY <1>11 DEF TypeOK, vars, breaker
  <1>12. QED
    BY <1>1, <1>2, <1>3, <1>4, <1>5, <1>6, <1>7, <1>8, <1>9, <1>10, <1>11 DEF Next

\* The breaker's fields keep their ranges: in particular the successes of HALF_OPEN
\* never pass halfOpenMaxProbes, stragglers or not.
THEOREM TypeCorrect == Spec => []TypeOK
  <1>1. TypeInv => TypeOK
    BY DEF TypeInv
  <1>2. QED
    BY InitTypes, TypeStep, <1>1, PTL DEF Spec

-----------------------------------------------------------------------------
(* Probes                                                                  *)

\* There are no probes at first.
LEMMA InitProbes == Init => ProbeInv
  BY DEF Init, ProbeInv, StragglersEnd, ProbesAlone, ProbesCount

\* A call that ends leaves the others as they are.
LEMMA LeavesOthers ==
  ASSUME TypeOK, NEW c \in Calls, Leaves(c)
  PROVE  /\ c \in InFlight
         /\ InFlight' = InFlight \ {c}
         /\ \A d \in InFlight' : call'[d] = call[d]
  BY DEF TypeOK, Leaves, InFlight, NoCall

\* Nothing is under way when a breaker has been OPEN for long enough.
LEMMA NoStragglers ==
  ASSUME ShortCalls, TypeOK, StragglersEnd, state = "OPEN", openFor >= OpenSec
  PROVE  InFlight = {}
  <1>1. \A c \in InFlight : call[c].age \in 0 .. CallSec
    BY DEF TypeOK, InFlight
  <1>2. \A c \in InFlight : openFor <= call[c].age
    BY DEF StragglersEnd
  <1>3. QED
    BY <1>1, <1>2, WindowAssumption DEF ShortCalls, TypeOK

\* Every step keeps what is said of probes.
LEMMA ProbeStep ==
  ASSUME ShortCalls, TypeInv, ProbeInv, [Next]_vars
  PROVE  ProbeInv'
  <1> USE DEF ProbeInv
  <1>h. hanging' = hanging
    BY WhatItGuards
  <1> SUFFICES ASSUME ~hanging PROVE ProbeInv'
    BY <1>h
  <1>t. /\ TypeOK
        /\ \A c \in Calls : call[c].age \in 0 .. CallSec
        /\ openFor \in 0 .. OpenSec
    BY DEF TypeInv, TypeOK
  <1>1. ASSUME NEW c \in Calls, BeginClosed(c) PROVE ProbeInv'
    BY <1>1 DEF BeginClosed, breaker, StragglersEnd, ProbesAlone, ProbesCount
  <1>2. ASSUME NEW c \in Calls, BeginAfterOpen(c) PROVE ProbeInv'
    <2>1. InFlight = {}
      BY <1>2, <1>t, NoStragglers DEF BeginAfterOpen
    <2>2. InFlight' = {c} /\ call'[c].probe
      BY <1>2, <2>1 DEF BeginAfterOpen, InFlight
    <2>3. QED
      BY <1>2, <2>2 DEF BeginAfterOpen, StragglersEnd, ProbesAlone, ProbesCount
  <1>3. ASSUME NEW c \in Calls, BeginProbe(c) PROVE ProbeInv'
    <2>1. InFlight = {}
      BY <1>3 DEF BeginProbe, ProbesAlone
    <2>2. InFlight' = {c} /\ call'[c].probe
      BY <1>3, <2>1 DEF BeginProbe, Enters, InFlight
    <2>3. QED
      BY <1>3, <2>2 DEF BeginProbe, StragglersEnd, ProbesAlone, ProbesCount
  <1>4. ASSUME NEW c \in Calls, ProbeSucceeds(c) PROVE ProbeInv'
    <2>1. c \in InFlight /\ InFlight' = {}
      BY <1>4, <1>t, LeavesOthers DEF ProbeSucceeds, ProbesAlone
    <2>2. call[c].probe /\ halfOpenSuccesses = probesOk
      BY <1>4, <2>1 DEF ProbeSucceeds, ProbesCount
    <2>3. state' \in {"HALF_OPEN", "CLOSED"}
      BY <1>4 DEF ProbeSucceeds
    <2>4. QED
      BY <1>4, <2>1, <2>2, <2>3 DEF ProbeSucceeds, StragglersEnd, ProbesAlone, ProbesCount
  <1>5. ASSUME NEW c \in Calls, CallSucceeds(c) PROVE ProbeInv'
    BY <1>5, <1>t, LeavesOthers
    DEF CallSucceeds, StragglersEnd, ProbesAlone, ProbesCount
  <1>6. ASSUME NEW c \in Calls, ProbeFails(c) PROVE ProbeInv'
    <2>1. InFlight' = {}
      BY <1>6, <1>t, LeavesOthers DEF ProbeFails, ProbesAlone
    <2>2. QED
      BY <1>6, <2>1 DEF ProbeFails, StragglersEnd, ProbesAlone, ProbesCount
  <1>7. ASSUME NEW c \in Calls, CallFails(c) PROVE ProbeInv'
    <2>1. state' # "HALF_OPEN"
      BY <1>7 DEF CallFails
    <2>2. ASSUME NEW d \in InFlight', state' = "OPEN" PROVE openFor' <= call'[d].age
      <3>1. d \in InFlight /\ d \in Calls /\ call'[d] = call[d]
        BY <1>7, <1>t, LeavesOthers DEF CallFails, InFlight
      <3>2. CASE state = "OPEN"
        BY <1>7, <2>2, <3>1, <3>2 DEF CallFails, StragglersEnd
      <3>3. CASE state # "OPEN"
        <4>1. openFor' = 0
          BY <1>7, <2>2, <3>3 DEF CallFails
        <4>2. QED
          BY <1>t, <3>1, <4>1, WindowAssumption
      <3>4. QED
        BY <3>2, <3>3
    <2>3. QED
      BY <2>1, <2>2 DEF StragglersEnd, ProbesAlone, ProbesCount
  <1>8. ASSUME NEW c \in Calls, Hangs(c) PROVE ProbeInv'
    BY <1>8 DEF Hangs
  <1>9. ASSUME Tick PROVE ProbeInv'
    <2>1. \A c \in Calls : call'[c].on = call[c].on /\ call'[c].probe = call[c].probe
      BY <1>9, <1>t DEF Tick, TypeOK
    <2>2. InFlight' = InFlight
      BY <2>1 DEF InFlight
    <2>3. ASSUME NEW c \in InFlight, state = "OPEN" PROVE openFor' <= call'[c].age
      <3>1. call[c].age < CallSec /\ c \in Calls
        BY <1>9 DEF Tick, InFlight
      <3>2. call'[c].age = call[c].age + 1
        BY <1>9, <1>t, <3>1 DEF Tick, Older, InFlight, TypeOK
      <3>3. openFor' <= openFor + 1
        BY <1>9, <1>t, WindowAssumption DEF Tick, Older
      <3>4. openFor <= call[c].age
        BY <2>3 DEF StragglersEnd
      <3>5. openFor' \in 0 .. OpenSec
        BY <1>9, <1>t, OlderType, WindowAssumption DEF Tick
      <3>6. QED
        BY <1>t, <3>1, <3>2, <3>3, <3>4, <3>5, WindowAssumption
    <2>4. state' = state /\ UNCHANGED <<halfOpenSuccesses, halfOpenInFlight, probesOk>>
      BY <1>9 DEF Tick
    <2>5. StragglersEnd'
      BY <2>2, <2>3, <2>4 DEF StragglersEnd
    <2>6. ProbesAlone'
      BY <2>2, <2>4 DEF ProbesAlone
    <2>7. ProbesCount'
      BY <2>1, <2>2, <2>4 DEF ProbesCount, InFlight
    <2>8. QED
      BY <2>5, <2>6, <2>7
  <1>10. ASSUME TargetChanges PROVE ProbeInv'
    BY <1>10 DEF TargetChanges, breaker, StragglersEnd, ProbesAlone, ProbesCount, InFlight
  <1>11. ASSUME UNCHANGED vars PROVE ProbeInv'
    BY <1>11 DEF vars, breaker, StragglersEnd, ProbesAlone, ProbesCount, InFlight
  <1>12. QED
    BY <1>1, <1>2, <1>3, <1>4, <1>5, <1>6, <1>7, <1>8, <1>9, <1>10, <1>11 DEF Next

\* Types and probes, for any breaker whose calls end before it lets the next one in.
THEOREM Invariant == ShortCalls => (Spec => []Inv)
  <1> SUFFICES ASSUME ShortCalls PROVE Spec => []Inv
    OBVIOUS
  <1>1. Init => Inv
    BY InitTypes, InitProbes DEF Inv
  <1>2. Inv /\ [Next]_vars => Inv'
    BY TypeStep, ProbeStep DEF Inv
  <1>3. QED
    BY <1>1, <1>2, PTL DEF Spec

\* With timeouts shorter than the OPEN period, as the gateway is configured, probes
\* are let in one at a time, alone, and none can leave the flag set behind it.
THEOREM ProbesAreAlone == ShortCalls => (Spec => []ProbesAlone)
  <1>1. Inv => ProbesAlone
    BY DEF Inv, ProbeInv, ProbesAlone
  <1>2. QED
    BY <1>1, Invariant, PTL

\* With such timeouts the breaker opens, half-opens and closes only for its cause:
\* no call of the time before opens it again or helps to close it.
THEOREM ChangesForCause == ShortCalls => (Spec => OpensAndClosesForCause)
  <1> SUFFICES ASSUME ShortCalls PROVE Spec => OpensAndClosesForCause
    OBVIOUS
  <1>1. Inv => TypeOK /\ SuccessesAreFew /\ ProbeInv
    BY DEF Inv, TypeInv
  <1>2. ASSUME Inv, [Next]_vars
        PROVE  /\ state = "CLOSED" /\ state' = "OPEN" => Exceeded(WindowStats(bucket'))
               /\ ~hanging /\ state = "HALF_OPEN" /\ state' = "OPEN" =>
                    \E c \in Calls : call[c].on /\ call[c].probe /\ ~call'[c].on
               /\ ~hanging /\ state = "HALF_OPEN" /\ state' = "CLOSED" => probesOk' = HalfOpenMaxProbes
               /\ state = "OPEN" /\ state' # "OPEN" =>
                    state' = "HALF_OPEN" /\ openFor = OpenSec
    <2>1. CASE state' = state
      BY <2>1, <1>2, <1>1 DEF TypeOK
    <2>2. ASSUME NEW c \in Calls, CallFails(c), state' # state
          PROVE  state = "CLOSED" /\ state' = "OPEN" /\ Exceeded(WindowStats(bucket'))
      BY <2>2 DEF CallFails
    <2>3. ASSUME NEW c \in Calls, ProbeFails(c)
          PROVE  /\ state = "HALF_OPEN" /\ state' = "OPEN"
                 /\ ~hanging => call[c].on /\ call[c].probe /\ ~call'[c].on
      BY <2>3, <1>1, <1>2
      DEF ProbeFails, Leaves, NoCall, TypeOK, ProbeInv, ProbesCount, InFlight
    <2>4. ASSUME NEW c \in Calls, ProbeSucceeds(c), state' # state
          PROVE  /\ state = "HALF_OPEN" /\ state' = "CLOSED"
                 /\ ~hanging => probesOk' = HalfOpenMaxProbes
      <3>1. ~hanging => call[c].probe /\ halfOpenSuccesses = probesOk
        BY <2>4, <1>1, <1>2 DEF ProbeSucceeds, Leaves, ProbeInv, ProbesCount, InFlight
      <3>2. probesOk < HalfOpenMaxProbes /\ probesOk \in Nat
        BY <2>4, <3>1, <1>1, <1>2, ThresholdAssumption
        DEF ProbeSucceeds, SuccessesAreFew, TypeOK
      <3>3. QED
        BY <2>4, <3>1, <3>2, ThresholdAssumption DEF ProbeSucceeds
    <2>5. ASSUME NEW c \in Calls, BeginAfterOpen(c)
          PROVE  state = "OPEN" /\ state' = "HALF_OPEN" /\ openFor = OpenSec
      <3>1. openFor \in 0 .. OpenSec
        BY <1>1, <1>2 DEF TypeOK
      <3>2. QED
        BY <2>5, <3>1, WindowAssumption DEF BeginAfterOpen
    <2>6. state' = state \/ \E c \in Calls : CallFails(c) \/ ProbeFails(c)
                              \/ ProbeSucceeds(c) \/ BeginAfterOpen(c)
      BY <1>2 DEF Next, BeginClosed, BeginProbe, CallSucceeds, Hangs, Tick, TargetChanges,
                  vars, breaker
    <2>7. QED
      BY <2>1, <2>2, <2>3, <2>4, <2>5, <2>6
  <1>3. QED
    BY <1>2, Invariant, PTL DEF Spec, OpensAndClosesForCause

-----------------------------------------------------------------------------
(* The ring of buckets and the window.                                     *)

\* The slot of the second that was a seconds ago.
Slot(a) == IF a <= hand THEN hand - a ELSE hand - a + WindowSec

\* A bucket of the ring is of the second its slot stands for, and has what was
\* counted in it; or it is of an earlier turn, and nothing was.
RingIsSound ==
  \A a \in Indices :
    IF bucket[Slot(a)].age < WindowSec
      THEN /\ bucket[Slot(a)].age = a
           /\ bucket[Slot(a)].total = recent[a].total
           /\ bucket[Slot(a)].errors = recent[a].errors
      ELSE recent[a] = NoResults

\* Seconds have slots of their own.
LEMMA SlotsAreIn ==
  ASSUME hand \in Indices
  PROVE  /\ \A a \in Indices : Slot(a) \in Indices
         /\ \A a, b \in Indices : Slot(a) = Slot(b) => a = b
         /\ Slot(0) = hand
  BY WindowAssumption DEF Indices, Slot

\* Every slot is that of a second.
LEMMA SlotsAreAll ==
  ASSUME hand \in Indices, NEW j \in Indices
  PROVE  \E a \in Indices : j = Slot(a)
<1> DEFINE a == IF j <= hand THEN hand - j ELSE hand - j + WindowSec
<1>1. a \in Indices /\ j = Slot(a)
  BY WindowAssumption DEF Indices, Slot
<1> QED
  BY <1>1

\* After a second each slot stands for a second further back.
LEMMA HandMoves ==
  ASSUME hand \in Indices, hand' = (hand + 1) % WindowSec
  PROVE  /\ hand' \in Indices
         /\ \A a \in Indices : a # 0 => a - 1 \in Indices /\ Slot(a)' = Slot(a - 1)
         /\ Slot(0)' = Slot(WindowSec - 1)
<1>1. hand' = IF hand + 1 = WindowSec THEN 0 ELSE hand + 1
  <2>1. CASE hand + 1 = WindowSec
    BY <2>1, WindowAssumption DEF Indices
  <2>2. CASE hand + 1 # WindowSec
    <3>1. hand + 1 \in 0 .. WindowSec - 1
      BY <2>2, WindowAssumption DEF Indices
    <3> QED
      BY <2>2, <3>1, WindowAssumption
  <2> QED
    BY <2>1, <2>2
<1> QED
  BY <1>1, WindowAssumption DEF Indices, Slot

\* The ring is empty at first.
LEMMA InitRing == Init => RingIsSound
<1> SUFFICES ASSUME Init PROVE RingIsSound
  OBVIOUS
<1>1. hand \in Indices
  BY Zero DEF Init
<1>2. \A a \in Indices : bucket[Slot(a)] = EmptyBucket /\ recent[a] = NoResults
  BY <1>1, SlotsAreIn DEF Init, ResetBuckets, NothingRecent
<1> QED
  BY <1>2, WindowAssumption DEF RingIsSound, EmptyBucket

\* A result is counted in the bucket of this second, and nowhere else.
LEMMA CountsInRing ==
  ASSUME TypeOK, RingIsSound, NEW isError \in BOOLEAN, hand' = hand,
         bucket' = Counted(isError), Remember(isError)
  PROVE  RingIsSound'
<1>1. /\ hand \in Indices
      /\ bucket \in [Indices -> BucketType] /\ recent \in [Indices -> ResultType]
  BY DEF TypeOK, BucketType, ResultType
<1>2. /\ CurrentBucket \in BucketType /\ CurrentBucket.age = 0
      /\ CurrentBucket.total = recent[0].total /\ CurrentBucket.errors = recent[0].errors
  <2>1. CASE bucket[hand].age = 0
    BY <2>1, <1>1, SlotsAreIn, Zero, WindowAssumption DEF CurrentBucket, RingIsSound
  <2>2. CASE bucket[hand].age # 0
    <3>1. CurrentBucket = [EmptyBucket EXCEPT !.age = 0]
      BY <2>2 DEF CurrentBucket
    <3>2. recent[0] = NoResults
      BY <2>2, <1>1, SlotsAreIn, Zero DEF RingIsSound
    <3> QED
      BY <3>1, <3>2, EmptyTypes DEF EmptyBucket, NoResults
  <2> QED
    BY <2>1, <2>2
<1>3. \A r \in BucketType : /\ Plus(r, isError).age = r.age
                            /\ Plus(r, isError).total = r.total + 1
                            /\ Plus(r, isError).errors = IF isError THEN r.errors + 1 ELSE r.errors
  BY DEF BucketType, Plus
<1>4. \A r \in ResultType : /\ Plus(r, isError).total = r.total + 1
                            /\ Plus(r, isError).errors = IF isError THEN r.errors + 1 ELSE r.errors
  BY DEF ResultType, Plus
<1>5. bucket' = [bucket EXCEPT ![hand] = Plus(CurrentBucket, isError)]
  BY DEF Counted
<1>6. recent' = [recent EXCEPT ![0] = Plus(recent[0], isError)]
  BY DEF Remember
<1>7. \A a \in Indices : Slot(a)' = Slot(a)
  BY DEF Slot
<1>8. ASSUME NEW a \in Indices
      PROVE  IF bucket'[Slot(a)].age < WindowSec
               THEN /\ bucket'[Slot(a)].age = a
                    /\ bucket'[Slot(a)].total = recent'[a].total
                    /\ bucket'[Slot(a)].errors = recent'[a].errors
               ELSE recent'[a] = NoResults
  <2>1. CASE a = 0
    <3>1. bucket'[Slot(a)] = Plus(CurrentBucket, isError) /\ recent'[a] = Plus(recent[0], isError)
      BY <2>1, <1>1, <1>5, <1>6, SlotsAreIn
    <3>2. recent[0] \in ResultType
      BY <1>1, Zero
    <3> QED
      BY <2>1, <3>1, <3>2, <1>2, <1>3, <1>4, WindowAssumption
  <2>2. CASE a # 0
    <3>1. Slot(a) # hand /\ Slot(a) \in Indices
      BY <2>2, <1>1, SlotsAreIn, Zero
    <3>2. bucket'[Slot(a)] = bucket[Slot(a)] /\ recent'[a] = recent[a]
      BY <2>2, <3>1, <1>1, <1>5, <1>6
    <3> QED
      BY <3>2 DEF RingIsSound
  <2> QED
    BY <2>1, <2>2
<1> QED
  BY <1>7, <1>8 DEF RingIsSound

\* A second passes.
LEMMA TicksInRing ==
  ASSUME TypeOK, RingIsSound, Tick
  PROVE  RingIsSound'
<1>1. /\ hand \in Indices
      /\ bucket \in [Indices -> BucketType] /\ recent \in [Indices -> ResultType]
  BY DEF TypeOK, BucketType, ResultType
<1>2. /\ hand' = (hand + 1) % WindowSec
      /\ bucket' = [j \in Indices |-> [bucket[j] EXCEPT !.age = Older(@, WindowSec)]]
      /\ recent' = [a \in Indices |-> IF a = 0 THEN NoResults ELSE recent[a - 1]]
  BY DEF Tick
<1>3. \A j \in Indices : /\ bucket'[j].age = Older(bucket[j].age, WindowSec)
                         /\ bucket'[j].total = bucket[j].total
                         /\ bucket'[j].errors = bucket[j].errors
                         /\ bucket[j].age \in 0 .. WindowSec
  BY <1>1, <1>2 DEF BucketType
<1>4. ASSUME NEW a \in Indices
      PROVE  IF bucket'[Slot(a)'].age < WindowSec
               THEN /\ bucket'[Slot(a)'].age = a
                    /\ bucket'[Slot(a)'].total = recent'[a].total
                    /\ bucket'[Slot(a)'].errors = recent'[a].errors
               ELSE recent'[a] = NoResults
  <2>1. CASE a = 0
    <3>1. WindowSec - 1 \in Indices
      BY WindowAssumption DEF Indices
    <3>2. PICK j \in Indices : j = Slot(a)' /\ j = Slot(WindowSec - 1)
      BY <2>1, <3>1, <1>1, <1>2, HandMoves, SlotsAreIn
    <3>3. bucket[j].age = WindowSec - 1 \/ ~(bucket[j].age < WindowSec)
      BY <3>1, <3>2 DEF RingIsSound
    <3>4. ~(bucket'[j].age < WindowSec)
      BY <3>3, <1>3, WindowAssumption DEF Older
    <3> QED
      BY <2>1, <3>2, <3>4, <1>2
  <2>2. CASE a # 0
    <3>1. a - 1 \in Indices /\ Slot(a)' = Slot(a - 1)
      BY <2>2, <1>1, <1>2, HandMoves
    <3>2. PICK j \in Indices : j = Slot(a)' /\ j = Slot(a - 1)
      BY <3>1, <1>1, SlotsAreIn
    <3>3. recent'[a] = recent[a - 1]
      BY <2>2, <1>2
    <3>4. IF bucket[j].age < WindowSec
            THEN /\ bucket[j].age = a - 1
                 /\ bucket[j].total = recent'[a].total /\ bucket[j].errors = recent'[a].errors
            ELSE recent'[a] = NoResults
      BY <3>1, <3>2, <3>3 DEF RingIsSound
    <3>5. bucket'[j].age = IF bucket[j].age < WindowSec THEN bucket[j].age + 1 ELSE WindowSec
      BY <1>3 DEF Older
    <3>6. a \in Int /\ a < WindowSec
      BY WindowAssumption DEF Indices
    <3> QED
      BY <3>2, <3>4, <3>5, <3>6, <1>3, WindowAssumption
  <2> QED
    BY <2>1, <2>2
<1> QED
  BY <1>4 DEF RingIsSound

\* Every step keeps the ring.
LEMMA RingStep ==
  ASSUME TypeInv, RingIsSound, [Next]_vars
  PROVE  RingIsSound'
<1>0. TypeOK
  BY DEF TypeInv
<1>1. CASE UNCHANGED <<hand, bucket, recent>>
  BY <1>1 DEF RingIsSound, Slot
<1>2. CASE hand' = hand /\ bucket' = ResetBuckets /\ recent' = NothingRecent
  <2>1. \A a \in Indices : Slot(a)' = Slot(a)
    BY <1>2 DEF Slot
  <2>2. \A a \in Indices : Slot(a)' \in Indices
    BY <1>0, <2>1, SlotsAreIn DEF TypeOK
  <2>3. \A a \in Indices : bucket'[Slot(a)'] = EmptyBucket /\ recent'[a] = NoResults
    BY <1>2, <2>2 DEF ResetBuckets, NothingRecent
  <2> QED
    BY <2>3, WindowAssumption DEF RingIsSound, EmptyBucket
<1>3. CASE \E c \in Calls : CallSucceeds(c) \/ CallFails(c)
  <2>1. \E isError \in BOOLEAN : hand' = hand /\ bucket' = Counted(isError) /\ Remember(isError)
    BY <1>3 DEF CallSucceeds, CallFails
  <2> QED
    BY <1>0, <2>1, CountsInRing
<1>4. CASE Tick
  BY <1>0, <1>4, TicksInRing
<1> QED
  BY <1>1, <1>2, <1>3, <1>4
  DEF Next, vars, breaker, BeginClosed, BeginAfterOpen, BeginProbe, ProbeSucceeds, ProbeFails,
      Hangs, TargetChanges

\* What the ring says adds up.
LEMMA RingAddsUp ==
  ASSUME TypeOK, RingIsSound
  PROVE  WindowIsExact
<1>1. /\ hand \in Indices
      /\ bucket \in [Indices -> BucketType] /\ recent \in [Indices -> ResultType]
  BY DEF TypeOK, BucketType, ResultType
<1>2. IsFiniteSet(Indices)
  BY WindowAssumption, FS_Interval DEF Indices
<1> DEFINE S == {a \in Indices : bucket[Slot(a)].age < WindowSec}
           p == [a \in Indices |-> Slot(a)]
<1>3. S \subseteq Indices /\ IsFiniteSet(S)
  BY <1>2, FS_Subset
<1>4. {p[a] : a \in S} = InWindow(bucket)
  <2>1. ASSUME NEW j \in InWindow(bucket)
        PROVE  \E a \in S : j = p[a]
    <3>1. PICK a \in Indices : j = Slot(a)
      BY <1>1, SlotsAreAll DEF InWindow
    <3> QED
      BY <3>1 DEF InWindow
  <2>2. \A a \in S : p[a] \in InWindow(bucket)
    BY <1>1, SlotsAreIn DEF InWindow
  <2> QED
    BY <2>1, <2>2
<1>5. IsFiniteSet(InWindow(bucket))
  BY <1>2, FS_Subset DEF InWindow
<1>6. \A a, b \in S : p[a] = p[b] => a = b
  BY <1>1, SlotsAreIn
<1>7. ASSUME NEW f, NEW h,
             \A j \in Indices : h[j] \in Int,
             \A a \in S : f[p[a]] = h[a],
             \A a \in Indices \ S : h[a] = 0
      PROVE  SumFunctionOnSet(f, InWindow(bucket)) = SumFunctionOnSet(h, Indices)
  <2> HIDE DEF S, p
  <2>1. SumFunctionOnSet(f, {p[a] : a \in S}) = SumFunctionOnSet(h, S)
    BY <1>3, <1>4, <1>5, <1>6, <1>7, SumElsewhere
  <2>2. SumFunctionOnSet(h, Indices) = SumFunctionOnSet(h, S)
    BY <1>2, <1>3, <1>7, SumOfTheOthers
  <2> QED
    BY <2>1, <2>2, <1>4
<1>8. \A a \in S : /\ p[a] \in Indices
                   /\ bucket[p[a]].total = recent[a].total
                   /\ bucket[p[a]].errors = recent[a].errors
  BY <1>1, SlotsAreIn DEF RingIsSound
<1>9. \A a \in Indices \ S : recent[a].total = 0 /\ recent[a].errors = 0
  BY DEF RingIsSound, NoResults
<1>10. \A a \in Indices : recent[a].total \in Int /\ recent[a].errors \in Int
  BY <1>1 DEF ResultType
<1> HIDE DEF S, p
<1>11. SumFunctionOnSet(Totals(bucket), InWindow(bucket)) = SumFunctionOnSet(Totals(recent), Indices)
  <2>1. \A j \in Indices : Totals(recent)[j] = recent[j].total /\ Totals(bucket)[j] = bucket[j].total
    BY DEF Totals
  <2> QED
    BY <2>1, <1>3, <1>7, <1>8, <1>9, <1>10
<1>12. SumFunctionOnSet(Errors(bucket), InWindow(bucket)) = SumFunctionOnSet(Errors(recent), Indices)
  <2>1. \A j \in Indices : Errors(recent)[j] = recent[j].errors /\ Errors(bucket)[j] = bucket[j].errors
    BY DEF Errors
  <2> QED
    BY <2>1, <1>3, <1>7, <1>8, <1>9, <1>10
<1> QED
  BY <1>11, <1>12 DEF WindowIsExact, WindowStats

\* What the breaker decides on is what came back in the last window, no more and no
\* less: the ring of buckets that are reset when their slot comes round again counts
\* each result for a window and then no longer, however long the window is. The proof
\* takes the sum over the slots to the sum over the seconds (SumElsewhere).
THEOREM WindowsAreExact == Spec => []WindowIsExact
<1>1. Init => TypeInv /\ RingIsSound
  BY InitTypes, InitRing
<1>2. TypeInv /\ RingIsSound /\ [Next]_vars => (TypeInv /\ RingIsSound)'
  BY TypeStep, RingStep
<1>3. TypeInv /\ RingIsSound => WindowIsExact
  BY RingAddsUp DEF TypeInv
<1> QED
  BY <1>1, <1>2, <1>3, PTL DEF Spec

=============================================================================
