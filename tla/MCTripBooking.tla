---------------------------- MODULE MCTripBooking ----------------------------
(***************************************************************************)
(* Small instances of TripBooking for TLC.                                 *)
(***************************************************************************)
EXTENDS TripBooking, TLC

\* Requests, trips, passengers and event ids are interchangeable.
Symmetry ==
  Permutations(Requests) \cup Permutations(Trips) \cup
  Permutations(Passengers) \cup Permutations(EventIds)
=============================================================================
