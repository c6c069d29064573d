--------------------------- MODULE BookingLifecycle ---------------------------
(***************************************************************************)
(* What trips-service promises of a trip and its bookings, whatever        *)
(* requests, events and workers do to them at the same time: as if each of *)
(* them did the whole of its work in one moment.  There are no locks here, *)
(* no counter of free seats, no record of keys, and no transaction that    *)
(* could fail half-way.  TripBooking implements it.                        *)
(***************************************************************************)
EXTENDS Integers, FiniteSets

CONSTANTS Trips, Passengers, Requests, Keys, NoKey, MaxSeats

VARIABLES
  tripStatus,     \* trips.status, "ABSENT" before the row exists
  seatsTotal,     \* trips.seats_total
  request,        \* what each request asks for, fixed from the start
  status,         \* bookings.status, "ABSENT" before the row exists
  emitted,        \* events announced of a booking, by type
  tripEmitted,    \* events announced of a trip, by type
  completedWith   \* the bookings trip.completed lists

vars == <<tripStatus, seatsTotal, request, status, emitted, tripEmitted, completedWith>>

tripVars == <<tripStatus, seatsTotal, tripEmitted, completedWith>>

BookingEvents ==
  {"booking.created", "booking.confirmed", "booking.cancelled", "booking.expired"}
TripEvents == {"trip.cancelled", "trip.completed"}

Init ==
  /\ tripStatus = [t \in Trips |-> "ABSENT"]
  /\ seatsTotal = [t \in Trips |-> 0]
  /\ request \in [Requests -> [passenger : Passengers, trip : Trips,
                               seats : 1..MaxSeats, key : Keys \cup {NoKey}]]
  /\ status = [b \in Requests |-> "ABSENT"]
  /\ emitted = [b \in Requests |-> [e \in BookingEvents |-> 0]]
  /\ tripEmitted = [t \in Trips |-> [e \in TripEvents |-> 0]]
  /\ completedWith = [t \in Trips |-> {}]

\* The bookings of bs get a status, and each of them is announced once.
Move(bs, to, event) ==
  /\ status' = [b \in Requests |-> IF b \in bs THEN to ELSE status[b]]
  /\ emitted' = [b \in Requests |->
                   IF b \in bs THEN [emitted[b] EXCEPT ![event] = @ + 1] ELSE emitted[b]]
  /\ UNCHANGED request

\* A driver offers n seats.
Open(t, n) ==
  /\ tripStatus[t] = "ABSENT"
  /\ tripStatus' = [tripStatus EXCEPT ![t] = "ACTIVE"]
  /\ seatsTotal' = [seatsTotal EXCEPT ![t] = n]
  /\ UNCHANGED <<request, status, emitted, tripEmitted, completedWith>>

-----------------------------------------------------------------------------
Active == {"PENDING_PAYMENT", "CONFIRMED"}

\* The bookings of a trip that are in one of some states.
On(t, states) == {b \in Requests : status[b] \in states /\ request[b].trip = t}

\* The seats those bookings take, each by its booking and its number in it.
Taken(t) == {s \in On(t, Active) \X (1..MaxSeats) : s[2] <= request[s[1]].seats}

Fits(r) ==
  Cardinality(Taken(request[r].trip)) + request[r].seats <= seatsTotal[request[r].trip]

\* The bookings of the passenger that are in the way of another: one still
\* active on that trip, and one already made for the same key.
Rivals(r) ==
  {b \in Requests :
     /\ request[b].passenger = request[r].passenger
     /\ \/ b \in On(request[r].trip, Active)
        \/ status[b] # "ABSENT" /\ request[b].key = request[r].key
             /\ request[r].key # NoKey}

\* A booking is made on a trip that is open, has the seats, and on which nothing
\* is in its way.
Book(r) ==
  /\ status[r] = "ABSENT"
  /\ tripStatus[request[r].trip] = "ACTIVE"
  /\ Fits(r)
  /\ Rivals(r) = {}
  /\ Move({r}, "PENDING_PAYMENT", "booking.created")
  /\ UNCHANGED tripVars

Confirm(b) ==
  /\ status[b] = "PENDING_PAYMENT"
  /\ Move({b}, "CONFIRMED", "booking.confirmed")
  /\ UNCHANGED tripVars

\* A booking ends once; only one that is not paid for expires.
End(b) ==
  /\ \/ status[b] \in Active /\ Move({b}, "CANCELLED", "booking.cancelled")
     \/ status[b] = "PENDING_PAYMENT" /\ Move({b}, "EXPIRED", "booking.expired")
  /\ UNCHANGED tripVars

\* A cancelled trip takes all of its bookings along, and tells each of them.
CancelTrip(t) ==
  /\ tripStatus[t] = "ACTIVE"
  /\ tripStatus' = [tripStatus EXCEPT ![t] = "CANCELLED"]
  /\ tripEmitted' = [tripEmitted EXCEPT ![t]["trip.cancelled"] = @ + 1]
  /\ Move(On(t, Active), "CANCELLED", "booking.cancelled")
  /\ UNCHANGED <<seatsTotal, completedWith>>

\* A completed trip lists confirmed bookings only, if not always all of them: a
\* payment may arrive while the list is made.
CompleteTrip(t) ==
  /\ tripStatus[t] = "ACTIVE"
  /\ tripStatus' = [tripStatus EXCEPT ![t] = "COMPLETED"]
  /\ tripEmitted' = [tripEmitted EXCEPT ![t]["trip.completed"] = @ + 1]
  /\ \E bs \in SUBSET On(t, {"CONFIRMED"}) :
       completedWith' = [completedWith EXCEPT ![t] = bs]
  /\ UNCHANGED <<seatsTotal, request, status, emitted>>

Next ==
  \/ \E t \in Trips :
       \/ \E n \in 1..MaxSeats : Open(t, n)
       \/ CancelTrip(t)
       \/ CompleteTrip(t)
  \/ \E b \in Requests : Book(b) \/ Confirm(b) \/ End(b)

Spec == Init /\ [][Next]_vars
=============================================================================
