------------------------------ MODULE Gateway ------------------------------
(***************************************************************************)
(* api-gateway: a request passes the rate limiter, then either goes to one *)
(* service as it is (the proxy) or is a screen that the BFF puts together  *)
(* from a main and a side call. Calls go through a circuit breaker per     *)
(* layer and service, and those that only read are tried again.            *)
(***************************************************************************)
EXTENDS Naturals, FiniteSets, FiniteSetsExt

CONSTANTS
  Requests,      \* requests under way
  Kinds(_),      \* what a request may be, of AllKinds
  MaxAttempts    \* DEFAULT_RETRY_CONFIG.maxAttempts

ASSUME MaxAttemptsAssumption == MaxAttempts \in Nat \ {0}

VARIABLES
  request,    \* each request: its kind, where it is, its two calls and its answer
  failed,     \* the breakers that have counted a failure since they last closed
  open        \* the breakers that are OPEN or HALF_OPEN

gatewayVars == <<request, failed, open>>

(* The proxy's requests for a closed and an open policy, that read and     *)
(* that write, and the BFF's screens.                                      *)
AllKinds == {"get payments", "post payments", "get trips", "post trips",
             "search", "trip", "booking", "bookings"}
Screens == {"search", "trip", "booking", "bookings"}

ASSUME KindsAssumption == \A r \in Requests : Kinds(r) \subseteq AllKinds

\* The policies whose failStrategy is 'closed'; that of /v1, the screens, is open.
Closed(kind) == kind \in {"get payments", "post payments"}
Writes(kind) == kind \in {"post payments", "post trips"}

Target(kind, leg) ==
  CASE leg = "side" -> IF kind = "trip" THEN "profiles" ELSE "payments"
    [] kind \in {"get payments", "post payments"} -> "payments"
    [] OTHER -> "trips"

Layer(kind) == IF kind \in Screens THEN "bff" ELSE "proxy"
Services == {"trips", "payments", "profiles"}
Breakers == {"proxy", "bff"} \X Services
Breaker(kind, leg) == <<Layer(kind), Target(kind, leg)>>

(* What becomes of a call that is sent; "open" is one that is not. Once the *)
(* head of a response is there, its body may be too large, break off or    *)
(* take too long.                                                          *)
Bodies == {"huge", "cut", "late"}
Outages == {"5xx", "timeout", "unreachable"}
Outcomes == {"ok", "4xx"} \cup Outages \cup Bodies
Results == Outcomes \cup {"open", "none"}

Codes == {"OK", "4xx", "5xx", "RATE_LIMITED", "RATE_LIMITER_UNAVAILABLE", "PAYLOAD_TOO_LARGE",
            "CIRCUIT_OPEN", "DOWNSTREAM_TIMEOUT", "DOWNSTREAM_UNAVAILABLE", "BAD_GATEWAY", "none"}

Legs == {"main", "side"}
NoCall == [at |-> "none", tries |-> 0, result |-> "none"]
Ready == [NoCall EXCEPT !.at = "ready"]
NoRequest == [at |-> "idle", kind |-> "none", sent |-> 0,
              call |-> [l \in Legs |-> NoCall], answer |-> "none"]

CallType ==
  [at : {"none", "ready", "waiting", "done"}, tries : 0 .. MaxAttempts, result : Results]

RequestType ==
  [at : {"idle", "checking", "calling", "answered"}, kind : AllKinds \cup {"none"},
   sent : 0 .. 2, call : [Legs -> CallType], answer : Codes]

GatewayTypeOK ==
  /\ request \in [Requests -> RequestType]
  /\ failed \subseteq Breakers
  /\ open \subseteq failed

GatewayInit ==
  /\ request = [r \in Requests |-> NoRequest]
  /\ failed = {}
  /\ open = {}

-----------------------------------------------------------------------------
(* Before any call                                                         *)

Arrives(r, kind) ==
  /\ request[r].at = "idle"
  /\ request' = [request EXCEPT ![r] = [NoRequest EXCEPT !.at = "checking", !.kind = kind]]
  /\ UNCHANGED <<failed, open>>

AnsweredWith(r, answer) == [request[r] EXCEPT !.at = "answered", !.answer = answer]

\* 429.
IsLimited(r) ==
  /\ request[r].at = "checking"
  /\ request' = [request EXCEPT ![r] = AnsweredWith(r, "RATE_LIMITED")]
  /\ UNCHANGED <<failed, open>>

\* The limiter does not answer in time, or fails: the policy decides.
MayPass(kind, limiter) == limiter = "allowed" \/ (limiter = "error" /\ ~Closed(kind))

\* The limiter is out and the policy closed.
IsShutOut(r) ==
  /\ request[r].at = "checking"
  /\ ~MayPass(request[r].kind, "error")
  /\ request' = [request EXCEPT ![r] = AnsweredWith(r, "RATE_LIMITER_UNAVAILABLE")]
  /\ UNCHANGED <<failed, open>>

\* The body is too large, the query does not parse or there is no Bearer token.
IsRefused(r, limiter) ==
  /\ request[r].at = "checking"
  /\ MayPass(request[r].kind, limiter)
  /\ request' = [request EXCEPT ![r] =
       AnsweredWith(r, IF Writes(request[r].kind) THEN "PAYLOAD_TOO_LARGE" ELSE "4xx")]
  /\ UNCHANGED <<failed, open>>

\* The first call, or for a booking both.
Starts(r, limiter) ==
  /\ request[r].at = "checking"
  /\ MayPass(request[r].kind, limiter)
  /\ request' = [request EXCEPT ![r].at = "calling",
       ![r].call = [main |-> Ready, side |-> IF request[r].kind = "booking" THEN Ready ELSE NoCall]]
  /\ UNCHANGED <<failed, open>>

-----------------------------------------------------------------------------
(* Calls                                                                   *)

\* Mutant: a failed write is tried again too.
Idempotent_All(kind, leg) == TRUE

\* GET and HEAD; the summary of several payments is a POST.
Idempotent(kind, leg) == ~Writes(kind) /\ ~(kind = "bookings" /\ leg = "side")

\* The proxy reads the body of the response when it is done with retries, the BFF as
\* part of the call.
Retryable(kind, outcome) ==
  IF kind \in Screens THEN outcome \notin {"ok", "4xx"} ELSE outcome \in Outages

\* Mutant: no end of attempts.
Again_Always(kind, leg, outcome, tries) ==
  Idempotent(kind, leg) /\ Retryable(kind, outcome)

\* withRetry.
Again(kind, leg, outcome, tries) ==
  Idempotent(kind, leg) /\ Retryable(kind, outcome) /\ tries < MaxAttempts

\* What the breaker counts as success: the proxy's has seen the head of the response; the
\* BFF throws from inside the call on a body it cannot use and on any 4xx, before isSuccess
\* is asked.
Success(kind, outcome) == IF kind \in Screens THEN outcome = "ok" ELSE outcome \notin Outages

\* CircuitOpenError, which is not tried again.
IsBroken(r, leg) ==
  /\ request[r].call[leg].at = "ready"
  /\ Breaker(request[r].kind, leg) \in open
  /\ request' = [request EXCEPT ![r].call[leg] = [@ EXCEPT !.at = "done", !.result = "open"]]
  /\ UNCHANGED <<failed, open>>

\* Sent; through an OPEN breaker, as a probe.
Sends(r, leg) ==
  /\ request[r].call[leg].at = "ready"
  /\ request' = [request EXCEPT ![r].call[leg] = [@ EXCEPT !.at = "waiting"],
       ![r].sent = IF leg = "main" THEN Min({@ + 1, 2}) ELSE @]
  /\ UNCHANGED <<failed, open>>

\* The call ends; the breaker counts it. Success may be what closes the breaker.
Ends(r, leg, outcome, closes) ==
  LET kind == request[r].kind
      breaker == Breaker(kind, leg)
      tries == Min({request[r].call[leg].tries + 1, MaxAttempts})
  IN  /\ request[r].call[leg].at = "waiting"
      /\ closes => Success(kind, outcome)
      /\ request' = [request EXCEPT ![r].call[leg] =
           IF Again(kind, leg, outcome, tries)
           THEN [at |-> "ready", tries |-> tries, result |-> "none"]
           ELSE [at |-> "done", tries |-> 0, result |-> outcome]]
      /\ failed' = IF closes THEN failed \ {breaker}
                   ELSE IF Success(kind, outcome) THEN failed ELSE failed \cup {breaker}
      /\ open' = IF closes THEN open \ {breaker} ELSE open

\* Enough failures in the window.
MayOpen(breaker) == breaker \in failed \ open

Opens(breaker) ==
  /\ MayOpen(breaker)
  /\ open' = open \cup {breaker}
  /\ UNCHANGED <<request, failed>>

-----------------------------------------------------------------------------
(* Answers                                                                 *)

Main(r) == request[r].call["main"]
Side(r) == request[r].call["side"]

\* handleProxy passes on what a service answers, but not the 5xx it has tried again; a
\* response that is too large has the code of a request that is.
ProxyError(kind, result) ==
  CASE result = "4xx" -> "4xx"
    [] result = "5xx" /\ Writes(kind) -> "5xx"
    [] result \in {"timeout", "late"} -> "DOWNSTREAM_TIMEOUT"
    [] result = "unreachable" -> "DOWNSTREAM_UNAVAILABLE"
    [] result = "open" -> "CIRCUIT_OPEN"
    [] result = "huge" -> "PAYLOAD_TOO_LARGE"
    [] OTHER -> "BAD_GATEWAY"

\* mapBffError, which has no code of its own for a breaker that is open.
BffError(result) ==
  CASE result = "4xx" -> "4xx"
    [] result \in {"timeout", "late"} -> "DOWNSTREAM_TIMEOUT"
    [] OTHER -> "BAD_GATEWAY"

Sided == {"trip", "booking", "bookings"}

\* The side call comes after the main one: the driver's rating, the payments of what is
\* on the list, if anything is.
Follows(r) ==
  /\ request[r].at = "calling"
  /\ request[r].kind \in {"trip", "bookings"}
  /\ Main(r).result = "ok" /\ Side(r).at = "none"
  /\ request' = [request EXCEPT ![r].call["side"] = Ready]
  /\ UNCHANGED <<failed, open>>

\* Best effort: a side call that fails leaves its part of the screen empty.
Answer(r) ==
  CASE Main(r).result = "ok" -> "OK"
    [] Main(r).result # "ok" /\ request[r].kind \in Screens -> BffError(Main(r).result)
    [] OTHER -> ProxyError(request[r].kind, Main(r).result)

\* An error of the main call is answered at once, whatever the side call does; a list of
\* bookings may be empty, a trip without a driver, and then there is no side call.
Replies(r) ==
  /\ request[r].at = "calling"
  /\ Main(r).at = "done"
  /\ Main(r).result = "ok" /\ request[r].kind \in Sided =>
       Side(r).at = "done" \/ (request[r].kind # "booking" /\ Side(r).at = "none")
  /\ request' = [request EXCEPT ![r] = AnsweredWith(r, Answer(r))]
  /\ UNCHANGED <<failed, open>>

\* The request is gone once nothing of it is under way.
Leaves(r) ==
  /\ request[r].at = "answered"
  /\ \A leg \in Legs : request[r].call[leg].at \in {"none", "done"}
  /\ request' = [request EXCEPT ![r] = NoRequest]
  /\ UNCHANGED <<failed, open>>

Calls(r, leg) ==
  IsBroken(r, leg) \/ Sends(r, leg)
    \/ \E outcome \in Outcomes, closes \in BOOLEAN : Ends(r, leg, outcome, closes)

Checked(r) ==
  \/ IsLimited(r) \/ IsShutOut(r)
  \/ \E limiter \in {"allowed", "error"} : IsRefused(r, limiter) \/ Starts(r, limiter)

\* What the gateway does with a request by itself.
Serves(r) == Checked(r) \/ (\E leg \in Legs : Calls(r, leg)) \/ Follows(r) \/ Replies(r)

GatewayNext ==
  \/ \E r \in Requests :
       \/ \E kind \in Kinds(r) : Arrives(r, kind)
       \/ Serves(r) \/ Leaves(r)
  \/ \E breaker \in Breakers : Opens(breaker)

GatewaySpec == GatewayInit /\ [][GatewayNext]_gatewayVars

-----------------------------------------------------------------------------
(* Properties                                                              *)

\* A write is sent once at most, and the limiter's refusals (429, 503) and the breaker's
\* (503) say that it was not sent at all: its client may try again. The code of a body that
\* is too large does not say so: see TooLargeWasNotSent.
WritesGoOnce ==
  \A r \in Requests : Writes(request[r].kind) =>
    /\ request[r].sent <= 1
    /\ request[r].answer \in {"RATE_LIMITED", "RATE_LIMITER_UNAVAILABLE", "CIRCUIT_OPEN"} =>
         request[r].sent = 0

\* What API_REFERENCE.md has PAYLOAD_TOO_LARGE mean: the request's body was too large, so
\* that it went nowhere. It does not hold: handleProxy gives the same code to a response
\* that is too large, of a write that its service has carried out.
TooLargeWasNotSent ==
  \A r \in Requests : request[r].answer = "PAYLOAD_TOO_LARGE" => request[r].sent = 0

\* With a gateway that goes on serving, every request is answered: attempts end, and no
\* screen waits for a side call that is never made.
RequestsAreAnswered ==
  \A r \in Requests : request[r].at = "checking" ~> request[r].at = "answered"

GatewayFairness == \A r \in Requests : WF_gatewayVars(Serves(r))

=============================================================================
