------------------------------- MODULE MCAdmin -------------------------------
(***************************************************************************)
(* Instances for TLC of admin-service: its commands and who carries them   *)
(* out, the sessions a ban is about, disputes, and the configuration each  *)
(* service has a copy of. A behaviour is one of the component that part    *)
(* names: commands and sessions share the bans, which in a behaviour of    *)
(* the sessions come and go at any time, as commands make them do.         *)
(***************************************************************************)
EXTENDS AdminCommands, Disputes, ConfigCopies, TLC

CONSTANTS w1, w2, w3

VARIABLE part

MCServiceOf == [w \in Workers |-> IF w = w3 THEN "trips" ELSE "identity"]

\* Instances of identity-service, requests, operators and values differ in their name only.
AdminSymmetry ==
  Permutations({w1, w2}) \cup Permutations(Visitors)
  \cup Permutations(Operators) \cup Permutations(ConfigValues)

vars == <<part, commandVars, sessionVars, disputeVars, configVars>>

Init ==
  /\ part \in {"commands", "sessions", "disputes", "configs"}
  /\ CommandsInit /\ SessionsInit /\ DisputesInit /\ ConfigsInit

Next ==
  /\ \/ part = "commands" /\ CommandsNext /\ UNCHANGED <<disputeVars, configVars>>
     \/ part = "sessions" /\ SessionsNext /\ UNCHANGED <<commandVars, disputeVars, configVars>>
     \/ part = "disputes" /\ DisputesNext /\ UNCHANGED <<commandVars, sessionVars, configVars>>
     \/ part = "configs" /\ ConfigsNext /\ UNCHANGED <<commandVars, sessionVars, disputeVars>>
  /\ UNCHANGED part

Spec == Init /\ [][Next]_vars

\* The commands alone, with instances that go on and acknowledgements that arrive, however
\* many are lost.
CommandsHeardSpec ==
  Init /\ part = "commands" /\ [][Next]_vars /\ CommandsFairness /\ AcksFairness

=============================================================================
