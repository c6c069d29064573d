-------------------------- MODULE MCCircuitBreaker --------------------------
(***************************************************************************)
(* The instance of CircuitBreaker for TLC. No symmetry: it is unsound for  *)
(* Recovers.                                                               *)
(***************************************************************************)
EXTENDS CircuitBreaker

=============================================================================
