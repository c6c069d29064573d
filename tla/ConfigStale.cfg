SPECIFICATION Spec
CONSTANTS
  Accounts = {a1}
  NoAccount = NoAccount
  Tokens = {1}
  NoToken = 0
  Visitors = {v1}
  Commands = {1}
  NoCommand = 0
  Trips = {}
  Workers = {w1}
  ServiceOf <- MCServiceOf
  FetchLimit = 1
  CommandMaxRetries = 2
  DisputeIds = {d1}
  DisputedBookings = {b1}
  NoBooking = NoBooking
  Judges = {j1}
  ConfigKeys = {k1, k2}
  ConfigValues = {x}
  NoValue = NoValue
  Operators = {o1}
  Copies = {s1}
  MaxVersion = 2
  w1 = w1
  w2 = w2
  w3 = w3
INVARIANTS CopiesFollow
CHECK_DEADLOCK FALSE
