SPECIFICATION MCSpec
CONSTANTS
  Intents = {i1}
  Holds = {h1, h2}
  NoHold = NoHold
  NoIntent = NoIntent
  Slots = {s1, s2, s3}
  Trips = {t1}
  Passengers = {p1}
  MaxSeats = 1
  SagaBusy = 2
SYMMETRY Symmetry
INVARIANTS
  MoneyMatchesStatus
  ChargedOnce
  AnnouncedOnce
  ConfirmedWasHeld
  CapturedWasConfirmed
  FailureIsMutual
PROPERTIES
  KeepsPromise
CHECK_DEADLOCK FALSE
