----------------------------- MODULE RateLimit -----------------------------
(***************************************************************************)
(* The rate limiter of api-gateway: one Redis hash per policy and address, *)
(* with a count for each aligned window, read and written by one Lua       *)
(* script. The time is that of the gateway's clock when it calls: the      *)
(* script runs later, and clocks differ.                                   *)
(***************************************************************************)
EXTENDS Naturals, FiniteSets

CONSTANTS
  Checks,       \* calls of checkRateLimit under way
  WindowSec,    \* window
  Limit,        \* requests per window
  Skew,         \* what a stamp lags behind the clock at most when its script runs
  MaxNow        \* bound of the clock

ASSUME LimitAssumption == Limit \in Nat \ {0}
ASSUME WindowAssumption == WindowSec \in Nat \ {0} /\ Skew \in 0 .. WindowSec
ASSUME MaxNowAssumption == MaxNow \in Nat

VARIABLES
  now,        \* the clock of Redis
  hash,       \* 'w:k' of the hash, 0 where there is no field
  expires,    \* when the hash goes
  check,      \* each call: where it is and its stamp
  admitted,   \* history: requests let through since Redis started, by window of their stamp
  weighed     \* history: the last one was within the weighted limit, or overtaken

limitVars == <<now, hash, expires, check, admitted, weighed>>

Windows == 0 .. MaxNow \div WindowSec
Window(stamp) == stamp \div WindowSec

LimitTypeOK ==
  /\ now \in 0 .. MaxNow
  /\ hash \in [Windows -> 0 .. Limit]
  /\ expires \in 0 .. MaxNow + 2 * WindowSec + 1
  /\ check \in [Checks -> [at : {"idle", "sent"}, stamp : 0 .. MaxNow]]
  /\ admitted \in [Windows -> Nat]
  /\ weighed \in BOOLEAN

NoCounts == [k \in Windows |-> 0]

LimitInit ==
  /\ now = 0
  /\ hash = NoCounts
  /\ expires = 0
  /\ check = [c \in Checks |-> [at |-> "idle", stamp |-> 0]]
  /\ admitted = NoCounts
  /\ weighed = TRUE

\* The count of the window before, 0 for the first.
Before(counts, k) == IF k = 0 THEN 0 ELSE counts[k - 1]

\* floor(prevCount * weight) + curCount, weight the part of the window still to come.
Estimate(counts, stamp) ==
  LET k == Window(stamp)
      left == WindowSec - (stamp - k * WindowSec)
  IN  (Before(counts, k) * left) \div WindowSec + counts[k]

\* checkRateLimit: Date.now() goes into the call.
Stamps(c, stamp) ==
  /\ check[c].at = "idle"
  /\ stamp + Skew >= now
  /\ check' = [check EXCEPT ![c] = [at |-> "sent", stamp |-> stamp]]
  /\ UNCHANGED <<now, hash, expires, admitted, weighed>>

Room(stamp) == Estimate(hash, stamp) < Limit

\* Mutant: HDEL of the window before.
Kept_NotBefore(counts, k) == IF k = 0 THEN counts ELSE [counts EXCEPT ![k - 1] = 0]

\* HDEL of the window before the one before.
Kept(counts, k) == IF k < 2 THEN counts ELSE [counts EXCEPT ![k - 2] = 0]

\* Mutant: the hash goes after half a window.
Lifetime_HalfWindow == WindowSec \div 2

\* EXPIRE key, two windows and a second.
Lifetime == 2 * WindowSec + 1

\* A request of a later window came first: its HDEL took the count of the window before.
Overtaken(k) == \E j \in Windows : j > k /\ admitted[j] > 0

\* The script lets the request through: HINCRBY, HDEL, EXPIRE.
Admits(c) ==
  LET stamp == check[c].stamp
      k == Window(stamp)
  IN  /\ check[c].at = "sent"
      /\ Room(stamp)
      /\ hash' = Kept([hash EXCEPT ![k] = @ + 1], k)
      /\ expires' = now + Lifetime
      /\ weighed' = (Estimate(admitted, stamp) < Limit \/ Overtaken(k))
      /\ admitted' = [admitted EXCEPT ![k] = @ + 1]
      /\ check' = [check EXCEPT ![c].at = "idle"]
      /\ UNCHANGED now

\* 429: nothing is written.
Denies(c) ==
  /\ check[c].at = "sent"
  /\ ~Room(check[c].stamp)
  /\ check' = [check EXCEPT ![c].at = "idle"]
  /\ UNCHANGED <<now, hash, expires, admitted, weighed>>

\* Time passes, and the hash goes when it expires. That no script is later than Skew is
\* an assumption: a gateway stops waiting after its timeout, and does not call it back.
Passes ==
  /\ now < MaxNow
  /\ \A c \in Checks : check[c].at = "sent" => check[c].stamp + Skew > now
  /\ now' = now + 1
  /\ hash' = IF now' >= expires THEN NoCounts ELSE hash
  /\ UNCHANGED <<expires, check, admitted, weighed>>

\* Redis starts again, without the counts: a deployment keeps none.
Forgets ==
  /\ admitted # NoCounts
  /\ hash' = NoCounts
  /\ admitted' = NoCounts
  /\ UNCHANGED <<now, expires, check, weighed>>

LimitNext ==
  \/ \E c \in Checks :
       \/ \E stamp \in 0 .. now : Stamps(c, stamp)
       \/ Admits(c) \/ Denies(c)
  \/ Forgets
  \/ Passes

LimitSpec == LimitInit /\ [][LimitNext]_limitVars

-----------------------------------------------------------------------------
(* Properties                                                              *)

\* The script lets no more than the limit through in an aligned window, whatever the order
\* in which those of several gateways run, the fields they delete and the hash's expiry.
\* Requests that a gateway lets through while Redis does not answer are not counted.
NoWindowOverflows == \A k \in Windows : admitted[k] <= Limit

\* The counts behind a decision are those of everything let through: a request goes through
\* only if it and the requests of its window, with their part of the window before, make
\* no more than the limit, even at the boundary and after a pause. A script that runs
\* after one of the next window is the exception: the count it needs has been deleted.
BoundariesCount == weighed

=============================================================================
