CONSTANTS
  Trips = {t1}
  Passengers = {p1, p2}
  Requests = {r1, r2, r3}
  Keys = {k1}
  NoKey = NoKey
  NoBooking = NoBooking
  EventIds = {e1, e2}
  MaxSeats = 2
SPECIFICATION Spec
SYMMETRY Symmetry
INVARIANTS TypeOK SeatConservation ActiveBookingsAreLegitimate EventsMatchStatus
PROPERTIES LegalTransitions KeepsBookingPromise
CHECK_DEADLOCK FALSE
