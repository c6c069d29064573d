--------------------------- MODULE MCPaymentIntent ---------------------------
(***************************************************************************)
(* Instances of PaymentIntent and BookingSaga for TLC: payments-service    *)
(* alone, with everything that may be asked of it, and the saga, in which  *)
(* trips-service runs beside it.  A behaviour is one of the two parts.     *)
(***************************************************************************)
EXTENDS BookingSaga, TLC

CONSTANT SagaBusy   \* bound: operations of payments-service under way in the saga

VARIABLE part

mcVars == <<sagaVars, part>>

\* Holds and slots are told apart by nothing but their names.
Symmetry == Permutations(Holds) \cup Permutations(Slots)

Alone == Next /\ UNCHANGED tripsVars

Together ==
  /\ SagaNext
  /\ Cardinality({s \in Slots : slot'[s] # Idle}) <= SagaBusy

\* Bound: a webhook comes when it changes the status.  One that changes nothing
\* leaves a row that only keeps the same one from being processed again.
Telling == webhooks' # webhooks => status' # status

MCInit == SagaInit /\ part \in {"alone", "together"}

MCNext ==
  /\ \/ part = "alone" /\ Alone
     \/ part = "together" /\ Together
  /\ Telling
  /\ UNCHANGED part

MCSpec == MCInit /\ [][MCNext]_mcVars

FairMCSpec == MCSpec /\ Fairness
=============================================================================
