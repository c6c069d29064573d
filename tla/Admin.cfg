SPECIFICATION Spec
CONSTANTS
  Accounts = {a1}
  NoAccount = NoAccount
  Tokens = {1, 2, 3, 4}
  NoToken = 0
  Visitors = {v1, v2}
  Commands = {1, 2}
  NoCommand = 0
  Trips = {trip}
  Workers = {w1, w2, w3}
  ServiceOf <- MCServiceOf
  FetchLimit = 2
  CommandMaxRetries = 2
  DisputeIds = {d1, d2}
  DisputedBookings = {b1}
  NoBooking = NoBooking
  Judges = {j1, j2}
  ConfigKeys = {k1, k2}
  ConfigValues = {x, y}
  NoValue = NoValue
  Operators = {o1, o2}
  Copies = {s1}
  MaxVersion = 2
  w1 = w1
  w2 = w2
  w3 = w3
INVARIANTS CopiesAreTold LastWordHolds OneTokenPerChain EventsTellResolutions
PROPERTIES BannedGetNothing
SYMMETRY AdminSymmetry
CHECK_DEADLOCK FALSE
