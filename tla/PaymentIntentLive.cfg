SPECIFICATION FairMCSpec
CONSTANTS
  Intents = {i1}
  Holds = {h1}
  NoHold = NoHold
  NoIntent = NoIntent
  Slots = {s1, s2}
  Trips = {t1}
  Passengers = {p1}
  MaxSeats = 1
  SagaBusy = 1
PROPERTIES
  HoldRequestsResolve
CHECK_DEADLOCK FALSE
