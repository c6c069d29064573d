SPECIFICATION CommandsHeardSpec
CONSTANTS
  Accounts = {a1}
  NoAccount = NoAccount
  Tokens = {1}
  NoToken = 0
  Visitors = {v1}
  Commands = {1, 2}
  NoCommand = 0
  Trips = {trip}
  Workers = {w1, w3}
  ServiceOf <- MCServiceOf
  FetchLimit = 1
  CommandMaxRetries = 2
  DisputeIds = {d1}
  DisputedBookings = {b1}
  NoBooking = NoBooking
  Judges = {j1}
  ConfigKeys = {k1}
  ConfigValues = {x}
  NoValue = NoValue
  Operators = {o1}
  Copies = {s1}
  MaxVersion = 1
  w1 = w1
  w2 = w2
  w3 = w3
PROPERTIES CommandsAreDelivered
CHECK_DEADLOCK FALSE
