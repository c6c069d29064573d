---------------------------- MODULE MCBookingSaga ----------------------------
(* An instance of BookingSaga for TLC, in which every event comes. *)
EXTENDS BookingSaga
=============================================================================
