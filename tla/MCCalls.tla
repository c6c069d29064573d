------------------------------- MODULE MCCalls -------------------------------
(***************************************************************************)
(* Instances for TLC of calls that are tried again until they are done:    *)
(* the outbox's, and the gateway's for one screen after another, or for a  *)
(* writer and a reader of one service through the same breaker. A          *)
(* behaviour is one of those that scene names.                             *)
(***************************************************************************)
EXTENDS Outbox, Gateway, TLC

CONSTANTS r1, r2, cancelled, payments, notifications

VARIABLE scene

\* booking.cancelled has two targets (docker-compose.yml).
MCTargets == cancelled :> {payments, notifications}

MCKinds(r) ==
  IF r = r1 THEN Screens \cup {"post payments", "post trips"} ELSE {"get payments", "get trips"}

\* What is asked of the gateway in each scene.
Scenes ==
  [screens |-> Screens,
   payments |-> {"post payments", "get payments"},
   trips |-> {"post trips", "get trips"}]

callsVars == <<scene, vars, gatewayVars>>

CallsInit == scene \in DOMAIN Scenes \cup {"outbox"} /\ Init /\ GatewayInit

CallsNext ==
  /\ \/ /\ scene \in DOMAIN Scenes
        /\ GatewayNext
        /\ \A r \in Requests : request'[r].kind \in Scenes[scene] \cup {"none"}
        /\ UNCHANGED vars
     \/ scene = "outbox" /\ Next /\ UNCHANGED gatewayVars
  /\ UNCHANGED scene

\* Both go on; in the scenes of one there is nothing for the other to do.
CallsSpec == CallsInit /\ [][CallsNext]_callsVars /\ Fairness /\ GatewayFairness

=============================================================================
