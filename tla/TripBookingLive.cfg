CONSTANTS
  Trips = {t1, t2}
  Passengers = {p1, p2}
  Requests = {r1, r2}
  Keys = {k1}
  NoKey = NoKey
  NoBooking = NoBooking
  EventIds = {e1}
  MaxSeats = 1
SPECIFICATION FairSpec
INVARIANTS OneBookingPerKey
PROPERTIES PendingResolves
CHECK_DEADLOCK FALSE
