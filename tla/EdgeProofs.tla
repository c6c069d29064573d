----------------------------- MODULE EdgeProofs -----------------------------
(***************************************************************************)
(* What the gateway promises of its calls, trip search of its cache and the *)
(* rate limiter of its windows, for any number of requests, seats and seconds. *)
(***************************************************************************)
EXTENDS Gateway, SearchCache, RateLimit, Sums, TLAPS

-----------------------------------------------------------------------------
(* Gateway: calls behind breakers.                                         *)

\* What the gateway answers when it says that it has not sent a write.
Refusals == {"RATE_LIMITED", "RATE_LIMITER_UNAVAILABLE", "CIRCUIT_OPEN"}

\* Where a write is tells whether it was sent: not before its call is through the
\* breaker, once after that, and never if the breaker was open or it was refused.
SentAsSeen(w) ==
  /\ w.at # "answered" => w.answer = "none"
  /\ w.at \in {"idle", "checking"} => \A l \in Legs : w.call[l].at = "none"
  /\ Writes(w.kind) =>
       /\ w.sent <= 1
       /\ w.call["side"].at = "none"
       /\ w.call["main"].at \in {"none", "ready"} => w.sent = 0
       /\ w.call["main"].result = "open" => w.sent = 0 /\ w.call["main"].at = "done"
       /\ w.answer \in Refusals => w.sent = 0 /\ w.call["main"].at \in {"none", "done"}

\* The inductive invariant.
GatewayInv ==
  /\ GatewayTypeOK
  /\ \A r \in Requests : SentAsSeen(request[r])

-----------------------------------------------------------------------------
\* The actions of the gateway by name.
LEMMA GatewayCases ==
  ASSUME GatewayNext
  PROVE  \/ \E r \in Requests, kind \in AllKinds : Arrives(r, kind)
         \/ \E r \in Requests : IsLimited(r) \/ IsShutOut(r)
         \/ \E r \in Requests, limiter \in {"allowed", "error"} : IsRefused(r, limiter)
         \/ \E r \in Requests, limiter \in {"allowed", "error"} : Starts(r, limiter)
         \/ \E r \in Requests, leg \in Legs : IsBroken(r, leg)
         \/ \E r \in Requests, leg \in Legs : Sends(r, leg)
         \/ \E r \in Requests, leg \in Legs, outcome \in Outcomes, closes \in BOOLEAN :
              Ends(r, leg, outcome, closes)
         \/ \E r \in Requests : Follows(r)
         \/ \E r \in Requests : Replies(r)
         \/ \E r \in Requests : Leaves(r)
         \/ \E breaker \in Breakers : Opens(breaker)
  BY KindsAssumption DEF GatewayNext, Serves, Checked, Calls

\* One request goes on, the breakers stay as they are.
LEMMA RequestStep ==
  ASSUME GatewayInv, UNCHANGED <<failed, open>>,
         NEW r \in Requests, NEW w \in RequestType, SentAsSeen(w),
         request' = [request EXCEPT ![r] = w]
  PROVE  GatewayInv'
<1>1. /\ request' \in [Requests -> RequestType]
      /\ \A q \in Requests : SentAsSeen(request'[q])
  BY DEF GatewayInv, GatewayTypeOK
<1> QED
  BY <1>1 DEF GatewayInv, GatewayTypeOK

\* Nothing is known of a request that is not there.
LEMMA NoRequestIsSound ==
  NoRequest \in RequestType /\ SentAsSeen(NoRequest)
  BY MaxAttemptsAssumption
  DEF NoRequest, NoCall, RequestType, CallType, Results, Codes, SentAsSeen, Refusals, Legs, Writes

\* The calls of a request.
LEMMA CallsAre ==
  ASSUME NEW c \in CallType, NEW d \in CallType
  PROVE  [main |-> c, side |-> d] \in [Legs -> CallType]
  BY DEF Legs

\* A request that is answered without a call is known not to be sent.
LEMMA RefusalIsSound ==
  ASSUME NEW w \in RequestType, SentAsSeen(w), w.at = "checking",
         NEW answer \in Codes
  PROVE  LET v == [[w EXCEPT !.at = "answered"] EXCEPT !.answer = answer] IN
         v \in RequestType /\ SentAsSeen(v)
<1> DEFINE v == [[w EXCEPT !.at = "answered"] EXCEPT !.answer = answer]
<1>1. v \in RequestType
  BY DEF RequestType
<1>2. /\ v.at = "answered" /\ v.call = w.call /\ v.kind = w.kind /\ v.sent = w.sent
      /\ v.answer = answer
  BY DEF RequestType
<1>3. "main" \in Legs
  BY DEF Legs
<1> HIDE DEF v
<1>4. SentAsSeen(v)
  BY <1>2, <1>3 DEF SentAsSeen
<1> QED
  BY <1>1, <1>4 DEF v

\* Every state begins without requests.
LEMMA GatewayInitInv ==
  ASSUME GatewayInit
  PROVE  GatewayInv
  BY NoRequestIsSound DEF GatewayInit, GatewayInv, GatewayTypeOK

\* What one call of a request becomes: the rest of the request stays.
WithCall(w, leg, c, sent) == [w EXCEPT !.call = [w.call EXCEPT ![leg] = c], !.sent = sent]

\* The request v is w but for one call, and for how often it was sent.
OneCallDiffers(v, w, leg, c, sent) ==
  /\ v \in RequestType
  /\ v.call[leg] = c
  /\ \A l \in Legs : l # leg => v.call[l] = w.call[l]
  /\ v.sent = sent /\ v.at = w.at /\ v.kind = w.kind /\ v.answer = w.answer

\* WithCall changes no more than that.
LEMMA CallStep ==
  ASSUME NEW w \in RequestType, NEW leg \in Legs, NEW c \in CallType, NEW sent \in 0 .. 2
  PROVE  OneCallDiffers(WithCall(w, leg, c, sent), w, leg, c, sent)
<1> DEFINE v == [[w EXCEPT !.call = [w.call EXCEPT ![leg] = c]] EXCEPT !.sent = sent]
<1>1. WithCall(w, leg, c, sent) = v
  BY DEF WithCall
<1>2. [w.call EXCEPT ![leg] = c] \in [Legs -> CallType]
  BY DEF RequestType
<1>3. v \in RequestType
  BY <1>2 DEF RequestType
<1>4. /\ v.call = [w.call EXCEPT ![leg] = c] /\ v.sent = sent
      /\ v.at = w.at /\ v.kind = w.kind /\ v.answer = w.answer
  BY DEF RequestType
<1>5. /\ v.call[leg] = c
      /\ \A l \in Legs : l # leg => v.call[l] = w.call[l]
  BY <1>4 DEF RequestType
<1> HIDE DEF v
<1> QED
  BY <1>1, <1>3, <1>4, <1>5 DEF OneCallDiffers

\* What a call becomes by itself.
CallAt(c, at) == [c EXCEPT !.at = at]
CallNotMade(c) == [c EXCEPT !.at = "done", !.result = "open"]

\* A call that moves, or is not made, stays a call.
LEMMA CallTurns ==
  ASSUME NEW c \in CallType
  PROVE  /\ \A at \in {"ready", "waiting"} :
              CallAt(c, at) \in CallType /\ CallAt(c, at).at = at /\ CallAt(c, at).result = c.result
         /\ CallNotMade(c) \in CallType
         /\ CallNotMade(c).at = "done" /\ CallNotMade(c).result = "open"
<1>1. \A at \in {"ready", "waiting"} :
        CallAt(c, at) \in CallType /\ CallAt(c, at).at = at /\ CallAt(c, at).result = c.result
  BY DEF CallType, CallAt
<1> DEFINE d == [[c EXCEPT !.at = "done"] EXCEPT !.result = "open"]
<1>2. d \in CallType /\ d.at = "done" /\ d.result = "open"
  BY DEF CallType, Results
<1>3. CallNotMade(c) = d
  BY DEF CallNotMade
<1> HIDE DEF d
<1> QED
  BY <1>1, <1>2, <1>3

\* A call that is not made yet, and one that is about to be.
LEMMA FirstCalls ==
  /\ NoCall \in CallType /\ NoCall.at = "none" /\ NoCall.result = "none"
  /\ Ready \in CallType /\ Ready.at = "ready" /\ Ready.result = "none"
<1>1. NoCall \in CallType /\ NoCall.at = "none" /\ NoCall.result = "none"
  BY MaxAttemptsAssumption DEF NoCall, CallType, Results
<1>2. Ready = CallAt(NoCall, "ready")
  BY DEF Ready, CallAt
<1> QED
  BY <1>1, <1>2, CallTurns

\* An answer to a main call that is done is no refusal, unless the breaker was open.
LEMMA AnswersAre ==
  ASSUME NEW kind, NEW result
  PROVE  \A error \in {ProxyError(kind, result), BffError(result)} :
           error \in Codes /\ (error \in Refusals => result = "open")
  BY DEF ProxyError, BffError, Codes, Refusals

\* Every step keeps the invariant.
LEMMA GatewayStep ==
  ASSUME GatewayInv, [GatewayNext]_gatewayVars
  PROVE  GatewayInv'
<1> USE DEF GatewayInv, GatewayTypeOK
<1>0. /\ "main" \in Legs /\ "side" \in Legs
      /\ \A l \in Legs : l \in {"main", "side"}
  BY DEF Legs
<1>01. ASSUME NEW r \in Requests
      PROVE  /\ request[r] \in RequestType /\ request[r].sent \in 0 .. 2
             /\ \A l \in Legs : request[r].call[l] \in CallType
             /\ SentAsSeen(request[r])
  BY DEF RequestType
<1>1. ASSUME NEW r \in Requests, NEW kind \in AllKinds, Arrives(r, kind)
      PROVE  GatewayInv'
  <2> DEFINE w == [[NoRequest EXCEPT !.at = "checking"] EXCEPT !.kind = kind]
  <2>1. request' = [request EXCEPT ![r] = w] /\ UNCHANGED <<failed, open>>
    BY <1>1 DEF Arrives
  <2>2. w \in RequestType
    BY NoRequestIsSound DEF RequestType
  <2>3. /\ w.at = "checking" /\ w.kind = kind /\ w.sent = 0 /\ w.answer = "none"
        /\ w.call = [l \in Legs |-> NoCall]
    BY DEF NoRequest
  <2> HIDE DEF w
  <2>4. SentAsSeen(w)
    BY <1>0, <2>3 DEF SentAsSeen, NoCall, Refusals
  <2> QED
    BY <2>1, <2>2, <2>4, RequestStep
<1>2. ASSUME NEW r \in Requests,
             \/ IsLimited(r) \/ IsShutOut(r)
             \/ \E limiter \in {"allowed", "error"} : IsRefused(r, limiter)
      PROVE  GatewayInv'
  <2>1. /\ request[r].at = "checking" /\ UNCHANGED <<failed, open>>
        /\ \E answer \in Codes : request' = [request EXCEPT ![r] = AnsweredWith(r, answer)]
    BY <1>2 DEF IsLimited, IsShutOut, IsRefused, Codes
  <2>2. PICK answer \in Codes :
          request' = [request EXCEPT ![r] =
            [[request[r] EXCEPT !.at = "answered"] EXCEPT !.answer = answer]]
    BY <2>1 DEF AnsweredWith
  <2> QED
    BY <2>1, <2>2, RefusalIsSound, RequestStep
<1>3. ASSUME NEW r \in Requests, NEW limiter \in {"allowed", "error"}, Starts(r, limiter)
      PROVE  GatewayInv'
  <2> DEFINE side == IF request[r].kind = "booking" THEN Ready ELSE NoCall
             calls == [main |-> Ready, side |-> side]
             w == [[request[r] EXCEPT !.at = "calling"] EXCEPT !.call = calls]
  <2>1. /\ request[r].at = "checking" /\ UNCHANGED <<failed, open>>
        /\ request' = [request EXCEPT ![r] = w]
    BY <1>3 DEF Starts
  <2>2. side \in CallType /\ (Writes(request[r].kind) => side = NoCall)
    BY FirstCalls DEF Writes
  <2> HIDE DEF side
  <2>3. calls \in [Legs -> CallType] /\ calls["main"] = Ready /\ calls["side"] = side
    BY <2>2, FirstCalls, CallsAre
  <2> HIDE DEF calls
  <2>4. w \in RequestType
    BY <2>3 DEF RequestType
  <2>5. /\ w.at = "calling" /\ w.kind = request[r].kind /\ w.sent = request[r].sent
        /\ w.answer = request[r].answer /\ w.call = calls
    BY DEF RequestType
  <2> HIDE DEF w
  <2>6. SentAsSeen(w)
    <3>1. /\ request[r].answer = "none" /\ request[r].call["main"].at = "none"
          /\ Writes(request[r].kind) => request[r].sent = 0
      BY <1>0, <1>01, <2>1 DEF SentAsSeen
    <3>2. "none" \notin Refusals
      BY DEF Refusals
    <3> QED
      BY <2>2, <2>3, <2>5, <3>1, <3>2, FirstCalls DEF SentAsSeen
  <2> QED
    BY <2>1, <2>4, <2>6, RequestStep
<1>4. ASSUME NEW r \in Requests, NEW leg \in Legs, IsBroken(r, leg)
      PROVE  GatewayInv'
  <2> DEFINE c == CallNotMade(request[r].call[leg])
             w == WithCall(request[r], leg, c, request[r].sent)
  <2>1. /\ request' = [request EXCEPT ![r] = w] /\ UNCHANGED <<failed, open>>
        /\ request[r].call[leg].at = "ready"
    <3>1. /\ UNCHANGED <<failed, open>> /\ request[r].call[leg].at = "ready"
          /\ request' = [request EXCEPT ![r].call[leg] = c]
      BY <1>4 DEF IsBroken, CallNotMade
    <3> QED
      BY <1>01, <3>1 DEF WithCall, RequestType
  <2>2. c \in CallType /\ c.at = "done" /\ c.result = "open"
    BY <1>01, CallTurns
  <2> HIDE DEF c
  <2>3. OneCallDiffers(w, request[r], leg, c, request[r].sent)
    BY <1>01, <2>2, CallStep
  <2> HIDE DEF w
  <2>4. SentAsSeen(w)
    BY <1>0, <2>1, <2>2, <2>3 DEF OneCallDiffers, SentAsSeen, Legs
  <2> QED
    BY <2>1, <2>3, <2>4, RequestStep DEF OneCallDiffers
<1>5. ASSUME NEW r \in Requests, NEW leg \in Legs, Sends(r, leg)
      PROVE  GatewayInv'
  <2> DEFINE c == CallAt(request[r].call[leg], "waiting")
             sent == IF leg = "main" THEN Min({request[r].sent + 1, 2}) ELSE request[r].sent
             w == WithCall(request[r], leg, c, sent)
  <2>1. /\ request' = [request EXCEPT ![r] = w] /\ UNCHANGED <<failed, open>>
        /\ request[r].call[leg].at = "ready"
    <3>1. /\ UNCHANGED <<failed, open>> /\ request[r].call[leg].at = "ready"
          /\ request' = [request EXCEPT ![r].call[leg] = c, ![r].sent = sent]
      BY <1>5 DEF Sends, CallAt
    <3> QED
      BY <1>01, <3>1 DEF WithCall, RequestType
  <2>2. c \in CallType /\ c.at = "waiting" /\ c.result = request[r].call[leg].result
    BY <1>01, CallTurns
  <2>3. /\ sent \in 0 .. 2
        /\ leg = "main" /\ request[r].sent = 0 => sent = 1
        /\ leg # "main" => sent = request[r].sent
    <3>1. request[r].sent \in 0 .. 2
      BY DEF RequestType
    <3>2. /\ Min({request[r].sent + 1, 2}) \in {request[r].sent + 1, 2}
          /\ Min({request[r].sent + 1, 2}) <= request[r].sent + 1
          /\ Min({request[r].sent + 1, 2}) <= 2
      BY <3>1, MinOfTwo
    <3> QED
      BY <3>1, <3>2
  <2> HIDE DEF c, sent
  <2>4. OneCallDiffers(w, request[r], leg, c, sent)
    BY <1>01, <2>2, <2>3, CallStep
  <2> HIDE DEF w
  <2>5. SentAsSeen(w)
    BY <1>0, <2>1, <2>2, <2>3, <2>4 DEF OneCallDiffers, SentAsSeen, Legs
  <2> QED
    BY <2>1, <2>4, <2>5, RequestStep DEF OneCallDiffers
<1>6. ASSUME NEW r \in Requests, NEW leg \in Legs, NEW outcome \in Outcomes,
             NEW closes \in BOOLEAN, Ends(r, leg, outcome, closes)
      PROVE  GatewayInv'
  <2> DEFINE kind == request[r].kind
             breaker == Breaker(kind, leg)
             tries == Min({request[r].call[leg].tries + 1, MaxAttempts})
             c == IF Again(kind, leg, outcome, tries)
                  THEN [at |-> "ready", tries |-> tries, result |-> "none"]
                  ELSE [at |-> "done", tries |-> 0, result |-> outcome]
             w == WithCall(request[r], leg, c, request[r].sent)
  <2>1. /\ request' = [request EXCEPT ![r] = w] /\ request[r].call[leg].at = "waiting"
    <3>1. /\ request[r].call[leg].at = "waiting"
          /\ request' = [request EXCEPT ![r].call[leg] = c]
      BY <1>6 DEF Ends
    <3> QED
      BY <1>01, <3>1 DEF WithCall, RequestType
  <2>2. /\ c \in CallType
        /\ Writes(kind) => c.at = "done"
        /\ c.result # "open"
    <3>1. request[r].call[leg].tries \in 0 .. MaxAttempts
      BY <1>01 DEF CallType
    <3>2. tries \in 0 .. MaxAttempts
      BY <3>1, MaxAttemptsAssumption, MinOfTwo
    <3> HIDE DEF tries
    <3> QED
      BY <3>2, MaxAttemptsAssumption DEF CallType, Results, Outcomes, Outages, Bodies, Again, Idempotent
  <2> HIDE DEF c
  <2>3. OneCallDiffers(w, request[r], leg, c, request[r].sent)
    BY <1>01, <2>2, CallStep
  <2> HIDE DEF w
  <2>4. SentAsSeen(w)
    BY <1>0, <2>1, <2>2, <2>3 DEF OneCallDiffers, SentAsSeen, Legs
  <2>5. /\ request' \in [Requests -> RequestType]
        /\ \A q \in Requests : SentAsSeen(request'[q])
    BY <2>1, <2>3, <2>4 DEF OneCallDiffers
  <2>6. breaker \in Breakers
    BY DEF Breaker, Breakers, Layer, Target, Services
  <2>7. /\ failed' = IF closes THEN failed \ {breaker}
                     ELSE IF Success(kind, outcome) THEN failed ELSE failed \cup {breaker}
        /\ open' = IF closes THEN open \ {breaker} ELSE open
    BY <1>6 DEF Ends
  <2> HIDE DEF breaker
  <2>8. failed' \subseteq Breakers /\ open' \subseteq failed'
    BY <2>6, <2>7
  <2> QED
    BY <2>5, <2>8
<1>7. ASSUME NEW r \in Requests, Follows(r)
      PROVE  GatewayInv'
  <2> DEFINE w == WithCall(request[r], "side", Ready, request[r].sent)
  <2>1. /\ request' = [request EXCEPT ![r] = w] /\ UNCHANGED <<failed, open>>
        /\ request[r].at = "calling" /\ ~Writes(request[r].kind)
    <3>1. /\ UNCHANGED <<failed, open>> /\ request[r].at = "calling"
          /\ request[r].kind \in {"trip", "bookings"}
          /\ request' = [request EXCEPT ![r].call["side"] = Ready]
      BY <1>7 DEF Follows
    <3> QED
      BY <1>01, <3>1 DEF WithCall, RequestType, Writes
  <2>2. Ready \in CallType
    BY FirstCalls
  <2>3. OneCallDiffers(w, request[r], "side", Ready, request[r].sent)
    BY <1>0, <1>01, <2>2, CallStep
  <2> HIDE DEF w
  <2>4. SentAsSeen(w)
    BY <2>1, <2>3 DEF OneCallDiffers, SentAsSeen
  <2> QED
    BY <2>1, <2>3, <2>4, RequestStep DEF OneCallDiffers
<1>8. ASSUME NEW r \in Requests, Replies(r)
      PROVE  GatewayInv'
  <2> DEFINE w == [[request[r] EXCEPT !.at = "answered"] EXCEPT !.answer = Answer(r)]
  <2>1. /\ request' = [request EXCEPT ![r] = w] /\ UNCHANGED <<failed, open>>
        /\ request[r].at = "calling" /\ request[r].call["main"].at = "done"
    BY <1>8 DEF Replies, AnsweredWith, Main
  <2>2. /\ Answer(r) \in Codes
        /\ Answer(r) \in Refusals => request[r].call["main"].result = "open"
    BY AnswersAre DEF Answer, Main, Codes, Refusals
  <2>3. w \in RequestType
    BY <2>2 DEF RequestType
  <2>4. /\ w.at = "answered" /\ w.answer = Answer(r) /\ w.call = request[r].call
        /\ w.kind = request[r].kind /\ w.sent = request[r].sent
    BY DEF RequestType
  <2> HIDE DEF w
  <2>5. SentAsSeen(w)
    BY <2>1, <2>2, <2>4 DEF SentAsSeen
  <2> QED
    BY <2>1, <2>3, <2>5, RequestStep
<1>9. ASSUME NEW r \in Requests, Leaves(r)
      PROVE  GatewayInv'
  BY <1>9, NoRequestIsSound, RequestStep DEF Leaves
<1>10. ASSUME NEW breaker \in Breakers, Opens(breaker)
       PROVE  GatewayInv'
  BY <1>10 DEF Opens, MayOpen
<1>11. CASE UNCHANGED gatewayVars
  BY <1>11 DEF gatewayVars
<1> QED
  BY <1>1, <1>2, <1>3, <1>4, <1>5, <1>6, <1>7, <1>8, <1>9, <1>10, <1>11, GatewayCases

\* Types, and writes that are sent as is seen.
THEOREM GatewayInvariant == GatewaySpec => []GatewayInv
  BY GatewayInitInv, GatewayStep, PTL DEF GatewaySpec

\* For any number of requests side by side and any number of attempts, a write is sent once
\* at most, and one that the limiter or an open breaker refuses is not sent. (Of an answer
\* PAYLOAD_TOO_LARGE that cannot be said: GatewayInv leaves its writes sent or not.)
THEOREM WritesAreSentOnce == GatewaySpec => []WritesGoOnce
<1>1. GatewayInv => WritesGoOnce
  BY DEF GatewayInv, WritesGoOnce, SentAsSeen, Refusals
<1> QED
  BY <1>1, GatewayInvariant, PTL

-----------------------------------------------------------------------------
(* Trip search: the cache.                                                 *)

\* A key serves queries that the rows do not tell apart, if its town is listed.
KeysAreSound ==
  \A t \in SearchTrips, q, p \in Queries :
    Key(q) = Key(p) /\ q.town \in Listed => settled[<<t, q>>] = settled[<<t, p>>]

\* The rows answer q as those of an instant did that is at most that many ticks ago.
AsOf(rows, q, ticks) ==
  \A t \in SearchTrips :
    settled[<<t, q>>] > ticks => (t \in rows <=> Matches(trips[t], q))

\* An entry is as old as it says, and a search's time older.
EntriesAreRecent ==
  \A q \in Queries :
    Alive(Key(q)) /\ q.town \in Listed => AsOf(cached[Key(q)].rows, q, cached[Key(q)].age + Lag)

\* What a search has read is as old as the search at most until it answers.
SearchIsRecent(w) ==
  w.query.town \in Listed =>
    /\ w.at = "storing" => AsOf(w.rows, w.query, w.lag)
    /\ w.at = "answered" => AsOf(w.rows, w.query, Fresh)

\* The inductive invariant.
SearchInv ==
  /\ SearchTypeOK /\ KeysAreSound /\ EntriesAreRecent
  /\ \A s \in Searches : SearchIsRecent(search[s])

-----------------------------------------------------------------------------
\* The actions by name.
LEMMA SearchCases ==
  ASSUME SearchTypeOK, SearchNext
  PROVE  \/ \E t \in SearchTrips, trip \in TripType : Changes(t, trip)
         \/ \E s \in Searches, q \in Queries : Hits(s, q)
         \/ \E s \in Searches, q \in Queries : Misses(s, q)
         \/ \E s \in Searches : Reads(s)
         \/ \E s \in Searches : Stores(s)
         \/ \E s \in Searches : StoreFails(s)
         \/ \E s \in Searches : Responds(s)
         \/ \E k \in SearchKeys : Evicts(k)
         \/ ClockTicks
<1>1. ASSUME NEW t \in SearchTrips, NEW town \in Towns, NEW padded \in BOOLEAN,
             Offers(t, town, padded)
      PROVE  \E trip \in TripType : Changes(t, trip)
  <2>1. [status |-> "ACTIVE", town |-> town, padded |-> padded, seats |-> MaxSeats] \in TripType
    BY SeatsAssumption DEF TripType
  <2> QED
    BY <1>1, <2>1 DEF Offers
<1>2. ASSUME NEW t \in SearchTrips, NEW n \in 0 .. MaxSeats, SeatsMove(t, n)
      PROVE  \E trip \in TripType : Changes(t, trip)
  <2>1. [trips[t] EXCEPT !.seats = n] \in TripType
    BY DEF SearchTypeOK, TripType
  <2> QED
    BY <1>2, <2>1 DEF SeatsMove
<1>3. ASSUME NEW t \in SearchTrips, Finishes(t)
      PROVE  \E trip \in TripType : Changes(t, trip)
  <2>1. [trips[t] EXCEPT !.status = "ended"] \in TripType
    BY DEF SearchTypeOK, TripType
  <2> QED
    BY <1>3, <2>1 DEF Finishes
<1> QED
  BY <1>1, <1>2, <1>3 DEF SearchNext

\* Queries with one key, of a listed town, match the same trips.
LEMMA KeysTellApart ==
  ASSUME NEW q \in Queries, NEW p \in Queries, Key(q) = Key(p), q.town \in Listed, NEW trip
  PROVE  p.town = q.town /\ (Matches(trip, q) <=> Matches(trip, p))
<1>1. /\ q.town = p.town /\ q.seats = p.seats
      /\ (q.by = "id" \/ Resolves(q.town, q.padded)) <=> (p.by = "id" \/ Resolves(p.town, p.padded))
      /\ (q.by = "name") <=> (p.by = "name")
  BY DEF Key
<1>2. /\ q.by \in {"id", "name"} /\ p.by \in {"id", "name"}
      /\ q.padded \in BOOLEAN /\ p.padded \in BOOLEAN
  BY QueriesAssumption DEF Asked
<1>3. CASE q.by = "id" \/ Resolves(q.town, q.padded)
  BY <1>1, <1>3 DEF Matches
<1>4. CASE ~(q.by = "id" \/ Resolves(q.town, q.padded))
  <2>1. q.padded = TRUE /\ p.padded = TRUE
    BY <1>1, <1>2, <1>4 DEF Resolves
  <2> QED
    BY <1>1, <1>4, <2>1 DEF Matches
<1> QED
  BY <1>1, <1>3, <1>4

\* What is read of a search, and a TTL with a search's time, are numbers.
LEMMA FreshIs == Fresh \in Nat /\ Ttl \in Nat \ {0} /\ Lag \in Nat /\ Lag < Fresh
  BY TtlAssumption DEF Fresh

\* One search goes on, the rows and the entries stay as they are.
LEMMA OneSearchStep ==
  ASSUME SearchInv, UNCHANGED <<trips, cached, settled>>,
         NEW s \in Searches, NEW w \in SearchType, SearchIsRecent(w),
         search' = [search EXCEPT ![s] = w]
  PROVE  SearchInv'
<1>1. \A v : SearchIsRecent(v)' = SearchIsRecent(v)
  BY DEF SearchIsRecent, AsOf
<1>2. /\ search' \in [Searches -> SearchType]
      /\ \A r \in Searches : SearchIsRecent(search'[r])
  BY DEF SearchInv, SearchTypeOK
<1> QED
  BY <1>1, <1>2 DEF SearchInv, SearchTypeOK, KeysAreSound, EntriesAreRecent, AsOf, Alive

\* A search that is not under way.
LEMMA NoSearchIsSound == NoSearch \in SearchType /\ NoSearch.at = "idle" /\ NoSearch.lag = 0
<1>1. SomeQuery \in Queries
  BY QueriesAssumption DEF SomeQuery
<1> QED
  BY <1>1, FreshIs DEF NoSearch, SearchType

\* What an entry becomes by itself.
LEMMA EntriesAre ==
  /\ NoEntry \in EntryType /\ NoEntry.age = Ttl
  /\ \A entry \in EntryType :
       /\ Ages(entry) \in EntryType
       /\ Ages(entry).age < Ttl => Ages(entry).age = entry.age + 1 /\ Ages(entry).rows = entry.rows
<1>1. NoEntry \in EntryType /\ NoEntry.age = Ttl
  BY FreshIs DEF NoEntry, EntryType
<1>2. ASSUME NEW entry \in EntryType
      PROVE  /\ Ages(entry) \in EntryType
             /\ Ages(entry).age < Ttl =>
                  Ages(entry).age = entry.age + 1 /\ Ages(entry).rows = entry.rows
  <2>1. CASE entry.age + 1 < Ttl
    <3>1. Ages(entry) = [entry EXCEPT !.age = entry.age + 1]
      BY <2>1 DEF Ages
    <3>2. entry.age \in 0 .. Ttl
      BY DEF EntryType
    <3> QED
      BY <2>1, <3>1, <3>2, FreshIs DEF EntryType
  <2>2. CASE ~(entry.age + 1 < Ttl)
    BY <1>1, <2>2, FreshIs DEF Ages
  <2> QED
    BY <2>1, <2>2
<1> QED
  BY <1>1, <1>2

\* What was so for longer was so for less long.
LEMMA OlderToo ==
  ASSUME SearchTypeOK, NEW q \in Queries, NEW rows, NEW a \in Nat, NEW b \in Nat, a <= b,
         AsOf(rows, q, a)
  PROVE  AsOf(rows, q, b)
<1>1. \A t \in SearchTrips : settled[<<t, q>>] \in Nat
  BY FreshIs DEF SearchTypeOK
<1> QED
  BY <1>1 DEF AsOf

\* Queries with one key find the same.
LEMMA SameKeySameAnswer ==
  ASSUME SearchInv, NEW q \in Queries, NEW p \in Queries, Key(q) = Key(p), q.town \in Listed,
         NEW rows, NEW ticks, AsOf(rows, q, ticks)
  PROVE  AsOf(rows, p, ticks)
<1>1. \A t \in SearchTrips : settled[<<t, q>>] = settled[<<t, p>>]
  BY DEF SearchInv, KeysAreSound
<1>2. \A t \in SearchTrips : Matches(trips[t], q) <=> Matches(trips[t], p)
  BY KeysTellApart
<1> QED
  BY <1>1, <1>2 DEF AsOf

\* The rows change: what they answered differently before is of now.
LEMMA ChangesStep ==
  ASSUME SearchInv, NEW t \in SearchTrips, NEW trip \in TripType, Changes(t, trip)
  PROVE  SearchInv'
<1> USE DEF SearchInv
<1>1. trips' \in [SearchTrips -> TripType] /\ UNCHANGED <<cached, search>>
  BY DEF Changes, SearchTypeOK
<1>2. \A u \in SearchTrips, q \in Queries :
        settled'[<<u, q>>] = IF Matches(trips'[u], q) = Matches(trips[u], q)
                             THEN settled[<<u, q>>] ELSE 0
  BY DEF Changes, Unsettles
<1>3. settled' \in [SearchTrips \X Queries -> 0 .. Fresh + 1]
  <2>1. settled' = [tq \in SearchTrips \X Queries |->
          IF Matches(trips'[tq[1]], tq[2]) = Matches(trips[tq[1]], tq[2]) THEN settled[tq] ELSE 0]
    BY DEF Changes, Unsettles
  <2>2. \A tq \in SearchTrips \X Queries : settled[tq] \in 0 .. Fresh + 1
    BY DEF SearchTypeOK
  <2> QED
    BY <2>1, <2>2, FreshIs
<1>4. SearchTypeOK'
  BY <1>1, <1>3 DEF SearchTypeOK
<1>5. KeysAreSound'
  <2> SUFFICES ASSUME NEW u \in SearchTrips, NEW q \in Queries, NEW p \in Queries,
                      Key(q) = Key(p), q.town \in Listed
               PROVE  settled'[<<u, q>>] = settled'[<<u, p>>]
    BY DEF KeysAreSound
  <2>1. /\ Matches(trips[u], q) <=> Matches(trips[u], p)
        /\ Matches(trips'[u], q) <=> Matches(trips'[u], p)
    BY KeysTellApart
  <2>2. settled[<<u, q>>] = settled[<<u, p>>]
    BY DEF KeysAreSound
  <2>3. (Matches(trips'[u], q) = Matches(trips[u], q)) <=> (Matches(trips'[u], p) = Matches(trips[u], p))
    BY <2>1 DEF Matches
  <2> QED
    BY <1>2, <2>2, <2>3
<1>6. ASSUME NEW rows, NEW q \in Queries, NEW ticks \in Nat, AsOf(rows, q, ticks)
      PROVE  AsOf(rows, q, ticks)'
  <2> SUFFICES ASSUME NEW u \in SearchTrips, settled'[<<u, q>>] > ticks
               PROVE  u \in rows <=> Matches(trips'[u], q)
    BY DEF AsOf
  <2>1. Matches(trips'[u], q) = Matches(trips[u], q) /\ settled'[<<u, q>>] = settled[<<u, q>>]
    BY <1>2
  <2> QED
    BY <1>6, <2>1 DEF AsOf
<1>7. EntriesAreRecent'
  <2> SUFFICES ASSUME NEW q \in Queries, Alive(Key(q)), q.town \in Listed
               PROVE  AsOf(cached[Key(q)].rows, q, cached[Key(q)].age + Lag)'
    BY <1>1 DEF EntriesAreRecent, Alive
  <2>1. Key(q) \in SearchKeys
    BY DEF SearchKeys
  <2>2. cached[Key(q)].age + Lag \in Nat
    BY <2>1, FreshIs DEF SearchTypeOK, EntryType
  <2>3. AsOf(cached[Key(q)].rows, q, cached[Key(q)].age + Lag)
    BY DEF EntriesAreRecent
  <2>4. UNCHANGED <<cached[Key(q)].rows, cached[Key(q)].age>>
    BY <1>1
  <2> DEFINE rows == cached[Key(q)].rows
             age == cached[Key(q)].age
  <2>5. \A u \in SearchTrips :
          settled'[<<u, q>>] > age + Lag => (u \in rows <=> Matches(trips'[u], q))
    <3>1. age + Lag \in Nat /\ AsOf(rows, q, age + Lag)
      BY <2>2, <2>3
    <3> HIDE DEF rows, age
    <3> QED
      BY <1>6, <3>1 DEF AsOf
  <2> QED
    BY <1>1, <2>5 DEF AsOf
<1>8. ASSUME NEW s \in Searches
      PROVE  SearchIsRecent(search[s])'
  <2>1. search[s].query \in Queries /\ search[s].lag \in Nat
    BY FreshIs DEF SearchTypeOK, SearchType
  <2>2. ASSUME NEW ticks \in Nat, AsOf(search[s].rows, search[s].query, ticks)
        PROVE  \A u \in SearchTrips : settled'[<<u, search[s].query>>] > ticks =>
                 (u \in search[s].rows <=> Matches(trips'[u], search[s].query))
    BY <1>6, <2>1, <2>2 DEF AsOf
  <2>3. SearchIsRecent(search[s])
    OBVIOUS
  <2> QED
    BY <1>1, <2>1, <2>2, <2>3, FreshIs DEF SearchIsRecent, AsOf
<1> QED
  BY <1>4, <1>5, <1>7, <1>8

\* A tick: entries and searches grow older with what they have read.
LEMMA TickStep ==
  ASSUME SearchInv, ClockTicks
  PROVE  SearchInv'
<1> USE DEF SearchInv
<1>1. /\ trips' = trips
      /\ cached' = [k \in SearchKeys |-> Ages(cached[k])]
      /\ settled' = [tq \in SearchTrips \X Queries |-> Min({settled[tq] + 1, Fresh + 1})]
      /\ search' = [s \in Searches |->
           IF search[s].at = "idle" THEN search[s] ELSE [search[s] EXCEPT !.lag = search[s].lag + 1]]
      /\ \A s \in Searches :
           search[s].at = "idle" \/ (search[s].at # "answered" /\ search[s].lag < Lag)
  BY DEF ClockTicks
<1>2. \A tq \in SearchTrips \X Queries :
        /\ settled[tq] \in 0 .. Fresh + 1
        /\ settled'[tq] \in 0 .. Fresh + 1 /\ settled'[tq] <= settled[tq] + 1
  <2> SUFFICES ASSUME NEW tq \in SearchTrips \X Queries
               PROVE  /\ settled[tq] \in 0 .. Fresh + 1
                      /\ settled'[tq] \in 0 .. Fresh + 1 /\ settled'[tq] <= settled[tq] + 1
    OBVIOUS
  <2>1. settled[tq] \in 0 .. Fresh + 1
    BY DEF SearchTypeOK
  <2>2. settled'[tq] = Min({settled[tq] + 1, Fresh + 1})
    BY <1>1
  <2>3. settled[tq] + 1 \in Nat /\ Fresh + 1 \in Nat
    BY <2>1, FreshIs
  <2> QED
    BY <2>1, <2>2, <2>3, MinOfTwo
<1>3. settled' \in [SearchTrips \X Queries -> 0 .. Fresh + 1]
  BY <1>1, <1>2
<1>4. cached' \in [SearchKeys -> EntryType]
  BY <1>1, EntriesAre DEF SearchTypeOK
<1>5. ASSUME NEW s \in Searches
      PROVE  /\ search'[s] \in SearchType
             /\ search'[s].query = search[s].query /\ search'[s].rows = search[s].rows
             /\ search'[s].at = search[s].at /\ search'[s].at # "answered"
             /\ search'[s].at # "idle" => search'[s].lag = search[s].lag + 1
  <2>1. search[s] \in SearchType
    BY DEF SearchTypeOK
  <2>2. CASE search[s].at = "idle"
    BY <1>1, <2>1, <2>2
  <2>3. CASE search[s].at # "idle"
    <3>1. /\ search'[s] = [search[s] EXCEPT !.lag = search[s].lag + 1]
          /\ search[s].at # "answered" /\ search[s].lag < Lag
      BY <1>1, <2>3
    <3>2. search[s].lag + 1 \in 0 .. Lag
      BY <2>1, <3>1, FreshIs DEF SearchType
    <3> QED
      BY <2>1, <3>1, <3>2 DEF SearchType
  <2> QED
    BY <2>2, <2>3
<1>6. SearchTypeOK'
  <2>1. search' \in [Searches -> SearchType]
    BY <1>1, <1>5
  <2> QED
    BY <1>1, <1>3, <1>4, <2>1 DEF SearchTypeOK
<1>7. KeysAreSound'
  BY <1>1 DEF KeysAreSound
<1>8. ASSUME NEW rows, NEW q \in Queries, NEW ticks \in Nat, AsOf(rows, q, ticks),
             NEW t \in SearchTrips, settled'[<<t, q>>] > ticks + 1
      PROVE  t \in rows <=> Matches(trips'[t], q)
  <2>1. settled[<<t, q>>] > ticks
    BY <1>2, <1>8
  <2> QED
    BY <1>1, <1>8, <2>1 DEF AsOf
<1>9. EntriesAreRecent'
  <2> SUFFICES ASSUME NEW q \in Queries, cached'[Key(q)].age < Ttl, q.town \in Listed,
                      NEW t \in SearchTrips, settled'[<<t, q>>] > cached'[Key(q)].age + Lag
               PROVE  t \in cached'[Key(q)].rows <=> Matches(trips'[t], q)
    BY DEF EntriesAreRecent, Alive, AsOf
  <2>1. Key(q) \in SearchKeys
    BY DEF SearchKeys
  <2>2. cached[Key(q)] \in EntryType /\ cached'[Key(q)] = Ages(cached[Key(q)])
    BY <1>1, <2>1 DEF SearchTypeOK
  <2>3. /\ cached'[Key(q)].age = cached[Key(q)].age + 1
        /\ cached'[Key(q)].rows = cached[Key(q)].rows
    BY <2>2, EntriesAre
  <2>4. cached[Key(q)].age \in 0 .. Ttl
    BY <2>2 DEF EntryType
  <2>5. AsOf(cached[Key(q)].rows, q, cached[Key(q)].age + Lag)
    BY <2>3, <2>4, FreshIs DEF EntriesAreRecent, Alive
  <2>6. settled'[<<t, q>>] > (cached[Key(q)].age + Lag) + 1
    BY <2>3, <2>4, FreshIs
  <2>7. cached[Key(q)].age + Lag \in Nat
    BY <2>4, FreshIs
  <2> QED
    BY <1>8, <2>3, <2>5, <2>6, <2>7
<1>10. ASSUME NEW s \in Searches
       PROVE  SearchIsRecent(search[s])'
  <2>1. search[s].query \in Queries /\ search[s].lag \in Nat
    BY FreshIs DEF SearchTypeOK, SearchType
  <2>2. search'[s].at = "storing" /\ search'[s].query.town \in Listed =>
          AsOf(search[s].rows, search[s].query, search[s].lag)
    BY <1>5 DEF SearchIsRecent
  <2>3. ASSUME search'[s].at = "storing", search'[s].query.town \in Listed,
               NEW t \in SearchTrips, settled'[<<t, search'[s].query>>] > search'[s].lag
        PROVE  t \in search'[s].rows <=> Matches(trips'[t], search'[s].query)
    <3>1. search'[s].lag = search[s].lag + 1
      BY <1>5, <2>3
    <3> QED
      BY <1>5, <1>8, <2>1, <2>2, <2>3, <3>1
  <2> QED
    BY <1>5, <2>3 DEF SearchIsRecent, AsOf
<1> QED
  BY <1>6, <1>7, <1>9, <1>10

\* A search keeps what it read, under a key that serves no other answers.
LEMMA StoresStep ==
  ASSUME SearchInv, NEW s \in Searches, Stores(s)
  PROVE  SearchInv'
<1> USE DEF SearchInv
<1> DEFINE q == search[s].query
           entry == [age |-> 0, rows |-> search[s].rows]
           w == [search[s] EXCEPT !.at = "answered"]
<1>1. /\ search[s].at = "storing" /\ UNCHANGED <<trips, settled>>
      /\ cached' = [cached EXCEPT ![Key(q)] = entry] /\ search' = [search EXCEPT ![s] = w]
  BY DEF Stores
<1>2. search[s] \in SearchType /\ q \in Queries /\ search[s].lag \in 0 .. Lag
  BY DEF SearchTypeOK, SearchType
<1>3. entry \in EntryType /\ entry.age = 0 /\ entry.rows = search[s].rows
  BY <1>2, FreshIs DEF EntryType, SearchType
<1>4. /\ w \in SearchType /\ w.at = "answered"
      /\ w.query = q /\ w.rows = search[s].rows
  BY <1>2 DEF SearchType
<1>5. q.town \in Listed => AsOf(search[s].rows, q, Lag) /\ AsOf(search[s].rows, q, Fresh)
  <2>1. q.town \in Listed => AsOf(search[s].rows, q, search[s].lag)
    BY <1>1 DEF SearchIsRecent
  <2> QED
    BY <1>2, <2>1, FreshIs, OlderToo
<1> HIDE DEF q, entry, w
<1>6. SearchTypeOK'
  BY <1>1, <1>3, <1>4 DEF SearchTypeOK
<1>7. \A rows, p, ticks : AsOf(rows, p, ticks)' <=> AsOf(rows, p, ticks)
  BY <1>1 DEF AsOf
<1>8. EntriesAreRecent'
  <2> SUFFICES ASSUME NEW p \in Queries, cached'[Key(p)].age < Ttl, p.town \in Listed
               PROVE  AsOf(cached'[Key(p)].rows, p, cached'[Key(p)].age + Lag)
    BY <1>7 DEF EntriesAreRecent, Alive
  <2>1. Key(p) \in SearchKeys
    BY DEF SearchKeys
  <2>2. CASE Key(p) = Key(q)
    <3>1. cached'[Key(p)].rows = search[s].rows /\ cached'[Key(p)].age + Lag = Lag
      BY <1>1, <1>3, <2>1, <2>2, FreshIs DEF SearchTypeOK
    <3>2. q.town \in Listed
      BY <1>2, <2>2, KeysTellApart
    <3> QED
      BY <1>2, <1>5, <2>2, <3>1, <3>2, SameKeySameAnswer
  <2>3. CASE Key(p) # Key(q)
    <3>1. cached'[Key(p)] = cached[Key(p)]
      BY <1>1, <2>1, <2>3 DEF SearchTypeOK
    <3> QED
      BY <3>1 DEF EntriesAreRecent, Alive
  <2> QED
    BY <2>2, <2>3
<1>9. KeysAreSound'
  BY <1>1 DEF KeysAreSound
<1>10. ASSUME NEW r \in Searches
       PROVE  SearchIsRecent(search[r])'
  <2>1. CASE r = s
    <3>1. search'[r] = w
      BY <1>1, <2>1 DEF SearchTypeOK
    <3> QED
      BY <1>4, <1>5, <1>7, <3>1 DEF SearchIsRecent
  <2>2. CASE r # s
    <3>1. search'[r] = search[r]
      BY <1>1, <2>2 DEF SearchTypeOK
    <3> QED
      BY <1>7, <3>1 DEF SearchIsRecent
  <2> QED
    BY <2>1, <2>2
<1> QED
  BY <1>6, <1>8, <1>9, <1>10

\* At first there are no trips, and nothing has been asked.
LEMMA SearchInitInv ==
  ASSUME SearchInit
  PROVE  SearchInv
<1> USE DEF SearchInit
<1>1. NoTrip \in TripType
  <2>1. (CHOOSE t \in Towns : TRUE) \in Towns
    BY QueriesAssumption DEF Asked
  <2> QED
    BY <2>1, SeatsAssumption DEF NoTrip, TripType
<1>2. SearchTypeOK
  BY <1>1, NoSearchIsSound, EntriesAre, FreshIs DEF SearchTypeOK
<1>3. KeysAreSound
  BY DEF KeysAreSound
<1>4. EntriesAreRecent
  <2>1. \A q \in Queries : ~Alive(Key(q))
    BY EntriesAre, FreshIs DEF Alive, SearchKeys
  <2> QED
    BY <2>1 DEF EntriesAreRecent
<1>5. \A s \in Searches : SearchIsRecent(search[s])
  BY NoSearchIsSound DEF SearchIsRecent
<1> QED
  BY <1>2, <1>3, <1>4, <1>5 DEF SearchInv

\* Every step keeps the invariant.
LEMMA SearchStep ==
  ASSUME SearchInv, [SearchNext]_searchVars
  PROVE  SearchInv'
<1> USE DEF SearchInv
<1>1. ASSUME NEW s \in Searches
      PROVE  /\ search[s] \in SearchType /\ search[s].query \in Queries
             /\ search[s].lag \in 0 .. Lag /\ SearchIsRecent(search[s])
  BY DEF SearchTypeOK, SearchType
<1>2. ASSUME NEW s \in Searches, NEW q \in Queries, Hits(s, q)
      PROVE  SearchInv'
  <2> DEFINE w == [at |-> "answered", query |-> q, rows |-> cached[Key(q)].rows, lag |-> 0]
  <2>1. /\ UNCHANGED <<trips, cached, settled>> /\ search' = [search EXCEPT ![s] = w]
        /\ Alive(Key(q))
    BY <1>2 DEF Hits
  <2>2. Key(q) \in SearchKeys
    BY DEF SearchKeys
  <2>3. cached[Key(q)] \in EntryType /\ cached[Key(q)].age \in 0 .. Ttl
    BY <2>2 DEF SearchTypeOK, EntryType
  <2>4. w \in SearchType
    BY <2>3, FreshIs DEF EntryType, SearchType
  <2>5. q.town \in Listed => AsOf(cached[Key(q)].rows, q, Fresh)
    <3>1. q.town \in Listed => AsOf(cached[Key(q)].rows, q, cached[Key(q)].age + Lag)
      BY <2>1 DEF EntriesAreRecent
    <3>2. cached[Key(q)].age + Lag \in Nat /\ cached[Key(q)].age + Lag <= Fresh
      BY <2>3, FreshIs DEF Fresh
    <3> QED
      BY <3>1, <3>2, FreshIs, OlderToo
  <2>6. SearchIsRecent(w)
    BY <2>5 DEF SearchIsRecent
  <2> QED
    BY <2>1, <2>4, <2>6, OneSearchStep
<1>3. ASSUME NEW s \in Searches, NEW q \in Queries, Misses(s, q)
      PROVE  SearchInv'
  <2> DEFINE w == [[NoSearch EXCEPT !.at = "reading"] EXCEPT !.query = q]
  <2>1. w \in SearchType /\ w.at = "reading"
    BY NoSearchIsSound DEF SearchType
  <2>2. UNCHANGED <<trips, cached, settled>> /\ search' = [search EXCEPT ![s] = w]
    BY <1>3 DEF Misses
  <2> HIDE DEF w
  <2> QED
    BY <2>1, <2>2, OneSearchStep DEF SearchIsRecent
<1>4. ASSUME NEW s \in Searches, Reads(s)
      PROVE  SearchInv'
  <2> DEFINE w == [[search[s] EXCEPT !.at = "storing"] EXCEPT !.rows = Found(search[s].query)]
  <2>1. UNCHANGED <<trips, cached, settled>> /\ search' = [search EXCEPT ![s] = w]
    BY <1>1, <1>4 DEF Reads, SearchTypeOK
  <2>2. Found(search[s].query) \in SUBSET SearchTrips
    BY DEF Found
  <2>3. /\ w \in SearchType /\ w.at = "storing"
        /\ w.query = search[s].query /\ w.rows = Found(search[s].query)
    BY <1>1, <2>2 DEF SearchType
  <2> HIDE DEF w
  <2>4. SearchIsRecent(w)
    BY <2>3 DEF SearchIsRecent, AsOf, Found
  <2> QED
    BY <2>1, <2>3, <2>4, OneSearchStep
<1>5. ASSUME NEW s \in Searches, StoreFails(s)
      PROVE  SearchInv'
  <2> DEFINE w == [search[s] EXCEPT !.at = "answered"]
  <2>1. /\ UNCHANGED <<trips, cached, settled>> /\ search' = [search EXCEPT ![s] = w]
        /\ search[s].at = "storing"
    BY <1>5 DEF StoreFails
  <2>2. /\ w \in SearchType /\ w.at = "answered"
        /\ w.query = search[s].query /\ w.rows = search[s].rows
    BY <1>1 DEF SearchType
  <2> HIDE DEF w
  <2>3. search[s].query.town \in Listed => AsOf(search[s].rows, search[s].query, search[s].lag)
    BY <1>1, <2>1 DEF SearchIsRecent
  <2>4. search[s].query.town \in Listed => AsOf(search[s].rows, search[s].query, Fresh)
    BY <1>1, <2>3, FreshIs, OlderToo
  <2> QED
    BY <2>1, <2>2, <2>4, OneSearchStep DEF SearchIsRecent
<1>6. ASSUME NEW s \in Searches, Responds(s)
      PROVE  SearchInv'
  BY <1>6, NoSearchIsSound, OneSearchStep DEF Responds, SearchIsRecent
<1>7. ASSUME NEW k \in SearchKeys, Evicts(k)
      PROVE  SearchInv'
  <2>1. UNCHANGED <<trips, search, settled>> /\ cached' = [cached EXCEPT ![k] = NoEntry]
    BY <1>7 DEF Evicts
  <2>2. SearchTypeOK'
    BY <2>1, EntriesAre DEF SearchTypeOK
  <2>3. \A rows, q, ticks : AsOf(rows, q, ticks)' <=> AsOf(rows, q, ticks)
    BY <2>1 DEF AsOf
  <2>4. EntriesAreRecent'
    <3> SUFFICES ASSUME NEW q \in Queries, cached'[Key(q)].age < Ttl, q.town \in Listed
                 PROVE  AsOf(cached'[Key(q)].rows, q, cached'[Key(q)].age + Lag)
      BY <2>3 DEF EntriesAreRecent, Alive
    <3>1. Key(q) \in SearchKeys
      BY DEF SearchKeys
    <3>2. Key(q) # k
      BY <2>1, <3>1, EntriesAre, FreshIs DEF SearchTypeOK
    <3>3. cached'[Key(q)] = cached[Key(q)]
      BY <2>1, <3>1, <3>2 DEF SearchTypeOK
    <3> QED
      BY <3>3 DEF EntriesAreRecent, Alive
  <2>5. \A s \in Searches : SearchIsRecent(search[s])'
    BY <2>1, <2>3 DEF SearchIsRecent
  <2> QED
    BY <2>1, <2>2, <2>4, <2>5 DEF KeysAreSound
<1>8. CASE UNCHANGED searchVars
  BY <1>8
  DEF searchVars, SearchTypeOK, KeysAreSound, EntriesAreRecent, SearchIsRecent, AsOf, Alive
<1> QED
  BY <1>2, <1>3, <1>4, <1>5, <1>6, <1>7, <1>8, SearchCases, ChangesStep, TickStep, StoresStep

\* Types, keys, entries and searches that are as recent as they are said to be.
THEOREM SearchInvariant == SearchSpec => []SearchInv
  BY SearchInitInv, SearchStep, PTL DEF SearchSpec

\* For any number of trips, searches and queries, and any TTL, an answer about a town of the
\* table is a TTL and a search's time behind the rows at most.
THEOREM SearchesAreRecent == SearchSpec => []AnswersAreRecent
<1>1. SearchInv => AnswersAreRecent
  <2> SUFFICES ASSUME SearchInv, NEW s \in Searches, NEW t \in SearchTrips,
                      search[s].at \in {"storing", "answered"}, search[s].query.town \in Listed,
                      settled[<<t, search[s].query>>] > Fresh
               PROVE  t \in search[s].rows <=> Matches(trips[t], search[s].query)
    BY DEF AnswersAreRecent
  <2>1. /\ search[s].query \in Queries /\ search[s].lag \in 0 .. Lag
        /\ SearchTypeOK /\ SearchIsRecent(search[s])
    BY DEF SearchInv, SearchTypeOK, SearchType
  <2>2. AsOf(search[s].rows, search[s].query, Fresh)
    BY <2>1, FreshIs, OlderToo DEF SearchIsRecent
  <2> QED
    BY <2>2 DEF AsOf
<1> QED
  BY <1>1, SearchInvariant, PTL

-----------------------------------------------------------------------------
(* Rate limits: windows of requests.                                       *)

\* When a window begins.
Start(k) == k * WindowSec

\* Scripts run within Skew of their stamp; counts are not older than the clock, and the
\* hash lives for two windows after each.
ClocksAgree ==
  /\ \A c \in Checks : check[c].at = "sent" =>
       check[c].stamp <= now /\ now <= check[c].stamp + Skew
  /\ \A k \in Windows : admitted[k] > 0 =>
       Start(k) <= now /\ Start(k) + Lifetime <= expires

\* A window's count is that of what was let through for as long as scripts of it run.
CountsInTime ==
  \A k \in Windows : hash[k] = admitted[k] \/ now >= Start(k + 1) + Skew

\* It is so for a window longer, unless a request of the window after the next came.
CountsForTheNext ==
  \A k \in Windows :
    \/ hash[k] = admitted[k]
    \/ now >= Start(k + 2) + Skew
    \/ Overtaken(k + 1)

\* The inductive invariants, of the count and of the estimate.
LimitInv == LimitTypeOK /\ ClocksAgree /\ CountsInTime /\ NoWindowOverflows
EstimateInv == LimitInv /\ CountsForTheNext /\ weighed

\* A script is late by no more than the hash outlives its two windows.
SmallSkew == 2 * WindowSec + Skew <= Lifetime

-----------------------------------------------------------------------------
\* The constants are numbers.
LEMMA LimitNumbers ==
  /\ WindowSec \in Nat /\ WindowSec > 0 /\ Skew \in Nat /\ Skew <= WindowSec
  /\ Limit \in Nat /\ Limit > 0 /\ MaxNow \in Nat
  /\ Lifetime \in Nat /\ Lifetime = 2 * WindowSec + 1
  BY LimitAssumption, WindowAssumption, MaxNowAssumption DEF Lifetime

\* What is rounded down is as large, but for a part.
LEMMA Division ==
  ASSUME NEW a \in Nat, NEW b \in Nat, b > 0
  PROVE  /\ a \div b \in Nat
         /\ (a \div b) * b <= a
         /\ a < ((a \div b) + 1) * b
  OBVIOUS

\* Windows follow each other.
LEMMA WindowStarts ==
  /\ \A k \in Nat : Start(k) \in Nat /\ Start(k + 1) = Start(k) + WindowSec
                    /\ Start(k + 2) = Start(k) + 2 * WindowSec
  /\ \A j, k \in Nat : j < k => Start(j) + WindowSec <= Start(k)
  BY LimitNumbers DEF Start

\* A stamp is in the window it is counted in.
LEMMA StampsAreIn ==
  ASSUME NEW stamp \in 0 .. MaxNow
  PROVE  /\ Window(stamp) \in Windows /\ Window(stamp) \in Nat
         /\ Start(Window(stamp)) <= stamp /\ stamp < Start(Window(stamp) + 1)
<1> DEFINE k == Window(stamp)
           last == MaxNow \div WindowSec
<1>1. /\ k \in Nat /\ Start(k) <= stamp /\ stamp < Start(k + 1)
      /\ last \in Nat /\ MaxNow < Start(last + 1)
  BY LimitNumbers, Division DEF Window, Start
<1> HIDE DEF k, last
<1>2. k <= last
  <2> SUFFICES ASSUME last < k PROVE FALSE
    BY <1>1
  <2>1. last + 1 <= k /\ Start(last + 1) <= Start(k)
    BY <1>1, WindowStarts, LimitNumbers
  <2> QED
    BY <1>1, <2>1, WindowStarts, LimitNumbers
<1> QED
  BY <1>1, <1>2 DEF Windows, k, last

\* Windows are numbered from 0 on.
LEMMA WindowsAre ==
  /\ Windows \subseteq Nat
  /\ \A k \in Windows, j \in Nat : j <= k => j \in Windows
<1> DEFINE last == MaxNow \div WindowSec
<1>1. last \in Nat
  BY LimitNumbers, Division
<1>2. Windows = 0 .. last
  BY DEF Windows
<1> HIDE DEF last
<1> QED
  BY <1>1, <1>2

\* Room is in the window itself, too.
LEMMA RoomInWindow ==
  ASSUME NEW counts \in [Windows -> Nat], NEW stamp \in 0 .. MaxNow,
         Estimate(counts, stamp) < Limit
  PROVE  counts[Window(stamp)] < Limit
<1> DEFINE k == Window(stamp)
           left == WindowSec - (stamp - k * WindowSec)
           before == Before(counts, k)
<1>1. /\ k \in Windows /\ k \in Nat /\ Start(k) <= stamp /\ stamp < Start(k + 1)
      /\ Start(k) \in Nat /\ Start(k + 1) = Start(k) + WindowSec
  BY StampsAreIn, WindowStarts
<1>2. left \in Nat
  BY <1>1, LimitNumbers DEF Start
<1>3. before \in Nat
  <2>1. k # 0 => k - 1 \in Windows
    BY <1>1, WindowsAre
  <2> QED
    BY <2>1 DEF Before
<1>4. counts[k] \in Nat /\ Estimate(counts, stamp) = (before * left) \div WindowSec + counts[k]
  BY <1>1 DEF Estimate
<1> HIDE DEF k, left, before
<1>5. before * left \in Nat
  BY <1>2, <1>3
<1>6. (before * left) \div WindowSec \in Nat
  BY <1>5, LimitNumbers, Division
<1> QED
  BY <1>4, <1>6, LimitNumbers DEF k

\* A hash that goes had its time.
LEMMA ExpiryIsLate ==
  ASSUME LimitTypeOK, ClocksAgree, NEW k \in Windows, now + 1 >= expires, admitted[k] # 0
  PROVE  now + 1 >= Start(k) + Lifetime
<1>1. admitted[k] \in Nat /\ expires \in Nat /\ now \in Nat
  BY LimitNumbers DEF LimitTypeOK
<1>2. Start(k) + Lifetime <= expires
  BY <1>1 DEF ClocksAgree
<1>3. k \in Nat
  BY WindowsAre
<1>4. Start(k) \in Nat /\ Start(k) + Lifetime \in Nat
  <2>1. Start(k) \in Nat
    BY <1>3, WindowStarts
  <2> QED
    BY <2>1, LimitNumbers
<1> QED
  BY <1>1, <1>2, <1>4

\* Redis begins empty.
LEMMA LimitInitInv ==
  ASSUME LimitInit
  PROVE  EstimateInv
<1> USE LimitNumbers DEF LimitInit, NoCounts
<1>1. LimitTypeOK
  BY DEF LimitTypeOK
<1>2. ClocksAgree /\ CountsInTime /\ CountsForTheNext /\ NoWindowOverflows
  BY DEF ClocksAgree, CountsInTime, CountsForTheNext, NoWindowOverflows
<1> QED
  BY <1>1, <1>2 DEF LimitInv, EstimateInv

\* The script lets a request through.
LEMMA AdmitsStep ==
  ASSUME LimitInv, NEW c \in Checks, Admits(c)
  PROVE  /\ LimitInv'
         /\ CountsForTheNext => CountsForTheNext'
         /\ CountsForTheNext /\ SmallSkew => weighed'
<1> DEFINE stamp == check[c].stamp
           k == Window(stamp)
<1> USE DEF LimitInv
<1>1. /\ check[c].at = "sent" /\ Estimate(hash, stamp) < Limit
      /\ hash' = Kept([hash EXCEPT ![k] = @ + 1], k)
      /\ expires' = now + Lifetime
      /\ weighed' = (Estimate(admitted, stamp) < Limit \/ Overtaken(k))
      /\ admitted' = [admitted EXCEPT ![k] = @ + 1]
      /\ check' = [check EXCEPT ![c].at = "idle"]
      /\ now' = now
  BY DEF Admits, Room
<1>2. stamp \in 0 .. MaxNow /\ now \in 0 .. MaxNow
  BY DEF LimitTypeOK
<1>3. stamp <= now /\ now <= stamp + Skew
  BY <1>1 DEF ClocksAgree
<1>4. /\ k \in Windows /\ k \in Nat /\ Start(k) <= stamp /\ stamp < Start(k + 1)
      /\ Start(k) \in Nat /\ Start(k + 1) = Start(k) + WindowSec
  BY <1>2, StampsAreIn, WindowStarts
<1>5. hash \in [Windows -> Nat] /\ hash[k] < Limit /\ hash[k] \in 0 .. Limit
  <2>1. hash \in [Windows -> Nat] /\ hash[k] \in 0 .. Limit
    BY <1>4, LimitNumbers DEF LimitTypeOK
  <2> QED
    BY <1>1, <1>2, <2>1, RoomInWindow
<1> HIDE DEF stamp, k
<1>6. hash[k] = admitted[k]
  BY <1>2, <1>3, <1>4, LimitNumbers DEF CountsInTime
<1>7. /\ admitted' \in [Windows -> Nat] /\ admitted'[k] = admitted[k] + 1
      /\ \A j \in Windows : j # k => admitted'[j] = admitted[j]
      /\ \A j \in Windows : admitted[j] \in Nat
  BY <1>1, <1>4 DEF LimitTypeOK
<1>8. /\ hash' \in [Windows -> 0 .. Limit] /\ hash'[k] = hash[k] + 1
      /\ \A j \in Windows : j # k /\ j + 2 # k => hash'[j] = hash[j]
  <2> DEFINE counted == [hash EXCEPT ![k] = hash[k] + 1]
  <2>1. hash[k] + 1 \in 0 .. Limit /\ 0 \in 0 .. Limit
    BY <1>5, LimitNumbers
  <2>2. /\ counted \in [Windows -> 0 .. Limit] /\ counted[k] = hash[k] + 1
        /\ \A j \in Windows : j # k => counted[j] = hash[j]
    BY <1>4, <2>1 DEF LimitTypeOK
  <2>3. hash' = Kept(counted, k)
    BY <1>1
  <2> HIDE DEF counted
  <2>4. CASE k < 2
    BY <2>2, <2>3, <2>4 DEF Kept
  <2>5. CASE ~(k < 2)
    <3>1. hash' = [counted EXCEPT ![k - 2] = 0]
      BY <2>3, <2>5 DEF Kept
    <3>2. k - 2 \in Windows /\ k - 2 # k /\ \A j \in Windows : j + 2 # k => j # k - 2
      <4>1. k - 2 \in Nat /\ k - 2 <= k /\ k - 2 # k
        BY <1>4, <2>5
      <4>2. \A j \in Windows : j + 2 # k => j # k - 2
        BY <1>4, WindowsAre
      <4> QED
        BY <1>4, <4>1, <4>2, WindowsAre
    <3> QED
      BY <1>4, <2>1, <2>2, <3>1, <3>2
  <2> QED
    BY <2>4, <2>5
<1>9. LimitTypeOK'
  <2>1. check' \in [Checks -> [at : {"idle", "sent"}, stamp : 0 .. MaxNow]]
    BY <1>1 DEF LimitTypeOK
  <2>2. expires' \in 0 .. MaxNow + 2 * WindowSec + 1
    BY <1>1, <1>2, LimitNumbers
  <2>3. weighed' \in BOOLEAN
    BY <1>1
  <2> QED
    BY <1>1, <1>2, <1>7, <1>8, <2>1, <2>2, <2>3 DEF LimitTypeOK
<1>10. ClocksAgree'
  <2>1. ASSUME NEW d \in Checks, check'[d].at = "sent"
        PROVE  check'[d].stamp <= now' /\ now' <= check'[d].stamp + Skew
    <3>1. d # c /\ check'[d] = check[d]
      BY <1>1, <2>1 DEF LimitTypeOK
    <3> QED
      BY <1>1, <2>1, <3>1 DEF ClocksAgree
  <2>2. ASSUME NEW j \in Windows, admitted'[j] > 0
        PROVE  Start(j) <= now' /\ Start(j) + Lifetime <= expires'
    <3>1. Start(j) <= now
      <4>1. CASE j = k
        BY <1>2, <1>3, <1>4, <4>1
      <4>2. CASE j # k
        BY <1>7, <2>2, <4>2 DEF ClocksAgree
      <4> QED
        BY <4>1, <4>2
    <3>2. Start(j) \in Nat
      BY WindowsAre, WindowStarts
    <3> QED
      BY <1>1, <1>2, <3>1, <3>2, LimitNumbers
  <2> QED
    BY <2>1, <2>2 DEF ClocksAgree
<1>11. ASSUME NEW j \in Windows, j + 2 = k
       PROVE  now >= Start(j + 1) + Skew
  <2>1. j \in Nat /\ Start(j) \in Nat
    BY WindowsAre, WindowStarts
  <2>2. Start(j + 1) + WindowSec = Start(k)
    BY <1>11, <2>1, WindowStarts, LimitNumbers
  <2> QED
    BY <1>2, <1>3, <1>4, <2>1, <2>2, WindowStarts, LimitNumbers
<1>12. CountsInTime'
  <2> SUFFICES ASSUME NEW j \in Windows
               PROVE  hash'[j] = admitted'[j] \/ now' >= Start(j + 1) + Skew
    BY DEF CountsInTime
  <2>1. CASE j = k
    BY <1>6, <1>7, <1>8, <2>1
  <2>2. CASE j + 2 = k
    BY <1>1, <1>11, <2>2
  <2>3. CASE j # k /\ j + 2 # k
    BY <1>1, <1>7, <1>8, <2>3 DEF CountsInTime
  <2> QED
    BY <2>1, <2>2, <2>3
<1>13. NoWindowOverflows'
  <2>1. admitted'[k] <= Limit
    BY <1>5, <1>6, <1>7, LimitNumbers
  <2> QED
    BY <1>7, <2>1 DEF NoWindowOverflows
<1>14. \A j \in Windows : admitted[j] > 0 => admitted'[j] > 0
  BY <1>7
<1>15. ASSUME CountsForTheNext PROVE CountsForTheNext'
  <2> SUFFICES ASSUME NEW j \in Windows
               PROVE  hash'[j] = admitted'[j] \/ now' >= Start(j + 2) + Skew \/ Overtaken(j + 1)'
    BY DEF CountsForTheNext
  <2>1. CASE j = k
    BY <1>6, <1>7, <1>8, <2>1
  <2>2. CASE j + 2 = k
    <3>1. k > j + 1 /\ admitted'[k] > 0
      BY <1>7, <1>4, <2>2, WindowsAre
    <3> QED
      BY <1>4, <3>1 DEF Overtaken
  <2>3. CASE j # k /\ j + 2 # k
    BY <1>1, <1>7, <1>8, <1>14, <1>15, <2>3 DEF CountsForTheNext, Overtaken
  <2> QED
    BY <2>1, <2>2, <2>3
<1>16. ASSUME CountsForTheNext, SmallSkew PROVE weighed'
  <2>1. CASE k = 0
    <3>1. Before(hash, k) = Before(admitted, k)
      BY <2>1 DEF Before
    <3> QED
      BY <1>1, <1>6, <3>1 DEF Estimate, k
  <2>2. CASE k # 0
    <3> DEFINE j == k - 1
    <3>1. j \in Windows /\ j \in Nat /\ j + 1 = k /\ j + 2 = k + 1
      BY <1>4, <2>2, WindowsAre
    <3> HIDE DEF j
    <3>2. now < Start(j + 2) + Skew
      BY <1>2, <1>3, <1>4, <3>1, LimitNumbers
    <3>3. hash[j] = admitted[j] \/ Overtaken(k)
      <4>1. hash[j] = admitted[j] \/ now >= Start(j + 2) + Skew \/ Overtaken(j + 1)
        BY <1>16, <3>1 DEF CountsForTheNext
      <4>2. Start(j + 2) \in Nat
        BY <1>4, <3>1, LimitNumbers
      <4> QED
        BY <1>2, <3>1, <3>2, <4>1, <4>2, LimitNumbers
    <3>4. CASE hash[j] = admitted[j]
      <4>1. Before(hash, k) = Before(admitted, k)
        BY <2>2, <3>4 DEF Before, j
      <4> QED
        BY <1>1, <1>6, <4>1 DEF Estimate, k
    <3> QED
      BY <1>1, <3>3, <3>4
  <2> QED
    BY <2>1, <2>2
<1> QED
  BY <1>9, <1>10, <1>12, <1>13, <1>15, <1>16

\* A second passes, and the hash may go with it.
LEMMA PassesStep ==
  ASSUME LimitInv, Passes
  PROVE  /\ LimitInv'
         /\ CountsForTheNext /\ SmallSkew => CountsForTheNext'
<1> USE DEF LimitInv
<1>1. /\ now < MaxNow /\ now' = now + 1
      /\ \A c \in Checks : check[c].at = "sent" => check[c].stamp + Skew > now
      /\ hash' = IF now + 1 >= expires THEN NoCounts ELSE hash
      /\ UNCHANGED <<expires, check, admitted, weighed>>
  BY DEF Passes
<1>2. /\ now \in 0 .. MaxNow /\ \A k \in Windows : admitted[k] \in Nat
      /\ \A c \in Checks : check[c].stamp \in 0 .. MaxNow
  BY DEF LimitTypeOK
<1>3. \A k \in Windows : /\ Start(k) \in Nat
                         /\ Start(k + 1) = Start(k) + WindowSec
                         /\ Start(k + 2) = Start(k) + 2 * WindowSec
  BY WindowsAre, WindowStarts
<1>4. ASSUME NEW k \in Windows
      PROVE  hash'[k] = hash[k] \/ (hash'[k] = 0 /\ admitted[k] = 0)
               \/ (hash'[k] = 0 /\ now' >= Start(k) + Lifetime)
  <2>1. CASE now + 1 >= expires
    <3>1. hash'[k] = 0
      BY <1>1, <2>1 DEF NoCounts
    <3> QED
      BY <1>1, <2>1, <3>1, ExpiryIsLate
  <2>2. CASE ~(now + 1 >= expires)
    BY <1>1, <2>2
  <2> QED
    BY <2>1, <2>2
<1>5. LimitTypeOK'
  <2>1. now' \in 0 .. MaxNow
    BY <1>1, <1>2, LimitNumbers
  <2>2. NoCounts \in [Windows -> 0 .. Limit]
    BY LimitNumbers DEF NoCounts
  <2> QED
    BY <1>1, <2>1, <2>2 DEF LimitTypeOK
<1>6. ClocksAgree'
  BY <1>1, <1>2, <1>3, LimitNumbers DEF ClocksAgree
<1>7. CountsInTime'
  <2> SUFFICES ASSUME NEW k \in Windows
               PROVE  hash'[k] = admitted'[k] \/ now' >= Start(k + 1) + Skew
    BY DEF CountsInTime
  <2>1. hash[k] = admitted[k] \/ now >= Start(k + 1) + Skew
    BY DEF CountsInTime
  <2> QED
    BY <1>1, <1>2, <1>3, <1>4, <2>1, LimitNumbers
<1>8. NoWindowOverflows'
  BY <1>1 DEF NoWindowOverflows
<1>9. ASSUME CountsForTheNext, SmallSkew PROVE CountsForTheNext'
  <2> SUFFICES ASSUME NEW k \in Windows
               PROVE  hash'[k] = admitted'[k] \/ now' >= Start(k + 2) + Skew \/ Overtaken(k + 1)'
    BY DEF CountsForTheNext
  <2>1. hash[k] = admitted[k] \/ now >= Start(k + 2) + Skew \/ Overtaken(k + 1)
    BY <1>9 DEF CountsForTheNext
  <2>2. Overtaken(k + 1)' <=> Overtaken(k + 1)
    BY <1>1 DEF Overtaken
  <2>3. Start(k) + Lifetime >= Start(k + 2) + Skew
    BY <1>3, <1>9, LimitNumbers DEF SmallSkew
  <2> QED
    BY <1>1, <1>2, <1>3, <1>4, <2>1, <2>2, <2>3, LimitNumbers
<1> QED
  BY <1>5, <1>6, <1>7, <1>8, <1>9

\* Everything else writes no count, or forgets them all.
LEMMA OtherLimitSteps ==
  ASSUME LimitInv,
         \/ \E c \in Checks : \/ \E stamp \in 0 .. now : Stamps(c, stamp)
                              \/ Denies(c)
         \/ Forgets
         \/ UNCHANGED limitVars
  PROVE  LimitInv' /\ (CountsForTheNext => CountsForTheNext') /\ weighed' = weighed
<1> USE DEF LimitInv
<1>1. ASSUME NEW c \in Checks, NEW stamp \in 0 .. now, Stamps(c, stamp)
      PROVE  LimitInv' /\ (CountsForTheNext => CountsForTheNext') /\ weighed' = weighed
  <2>1. /\ stamp + Skew >= now /\ check' = [check EXCEPT ![c] = [at |-> "sent", stamp |-> stamp]]
        /\ UNCHANGED <<now, hash, expires, admitted, weighed>>
    BY <1>1 DEF Stamps
  <2>2. stamp \in 0 .. MaxNow /\ stamp \in Nat /\ stamp <= now
    BY LimitNumbers DEF LimitTypeOK
  <2>3. LimitTypeOK'
    BY <2>1, <2>2 DEF LimitTypeOK
  <2>4. ClocksAgree'
    BY <2>1, <2>2, LimitNumbers DEF ClocksAgree, LimitTypeOK
  <2> QED
    BY <2>1, <2>3, <2>4 DEF CountsInTime, NoWindowOverflows, CountsForTheNext, Overtaken
<1>2. ASSUME NEW c \in Checks, Denies(c)
      PROVE  LimitInv' /\ (CountsForTheNext => CountsForTheNext') /\ weighed' = weighed
  <2>1. check' = [check EXCEPT ![c].at = "idle"] /\ UNCHANGED <<now, hash, expires, admitted, weighed>>
    BY <1>2 DEF Denies
  <2>2. LimitTypeOK' /\ ClocksAgree'
    BY <2>1 DEF LimitTypeOK, ClocksAgree
  <2> QED
    BY <2>1, <2>2 DEF CountsInTime, NoWindowOverflows, CountsForTheNext, Overtaken
<1>3. ASSUME Forgets
      PROVE  LimitInv' /\ (CountsForTheNext => CountsForTheNext') /\ weighed' = weighed
  <2>1. hash' = NoCounts /\ admitted' = NoCounts /\ UNCHANGED <<now, expires, check, weighed>>
    BY <1>3 DEF Forgets
  <2>2. LimitTypeOK' /\ ClocksAgree' /\ NoWindowOverflows'
    BY <2>1, LimitNumbers DEF LimitTypeOK, ClocksAgree, NoWindowOverflows, NoCounts
  <2> QED
    BY <2>1, <2>2 DEF CountsInTime, CountsForTheNext
<1>4. CASE UNCHANGED limitVars
  BY <1>4
  DEF limitVars, LimitTypeOK, ClocksAgree, CountsInTime, NoWindowOverflows, CountsForTheNext,
      Overtaken
<1> QED
  BY <1>1, <1>2, <1>3, <1>4

\* Every step keeps what the count needs, and what the estimate needs.
LEMMA LimitStep ==
  ASSUME LimitInv, [LimitNext]_limitVars
  PROVE  LimitInv'
  BY AdmitsStep, PassesStep, OtherLimitSteps DEF LimitNext

\* The estimate, when no script is later than SmallSkew allows.
LEMMA EstimateStep ==
  ASSUME SmallSkew, EstimateInv, [LimitNext]_limitVars
  PROVE  EstimateInv'
<1> USE DEF EstimateInv
<1>1. ASSUME NEW c \in Checks, Admits(c) PROVE EstimateInv'
  BY <1>1, AdmitsStep
<1>2. ASSUME Passes PROVE EstimateInv'
  <2>1. weighed' = weighed
    BY <1>2 DEF Passes
  <2> QED
    BY <1>2, <2>1, PassesStep
<1> QED
  BY <1>1, <1>2, OtherLimitSteps DEF LimitNext

\* Types, clocks, and counts that are exact while scripts of their window run.
THEOREM LimitInvariant == LimitSpec => []LimitInv
<1>1. LimitInit => LimitInv
  BY LimitInitInv DEF EstimateInv
<1> QED
  BY <1>1, LimitStep, PTL DEF LimitSpec

\* No aligned window lets more than the limit through, for any number of gateways, whose
\* clocks and calls are up to a window late.
THEOREM WindowsHold == LimitSpec => []NoWindowOverflows
<1>1. LimitInv => NoWindowOverflows
  BY DEF LimitInv
<1> QED
  BY <1>1, LimitInvariant, PTL

\* The estimate at a boundary counts everything let through, if no script is later than the
\* hash outlives its two windows: by a second, in the code. With more the hash may go while
\* scripts of its last window still run.
THEOREM BoundariesHold == SmallSkew => (LimitSpec => []BoundariesCount)
<1> SUFFICES ASSUME SmallSkew PROVE LimitSpec => []BoundariesCount
  OBVIOUS
<1>1. LimitInit => EstimateInv
  BY LimitInitInv
<1>2. EstimateInv /\ [LimitNext]_limitVars => EstimateInv'
  BY EstimateStep
<1>3. EstimateInv => BoundariesCount
  BY DEF EstimateInv, BoundariesCount
<1> QED
  BY <1>1, <1>2, <1>3, PTL DEF LimitSpec

=============================================================================
