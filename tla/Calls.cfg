SPECIFICATION CallsSpec
CONSTANTS
  Events = {cancelled}
  NoEvent = NoEvent
  Consumers = {payments, notifications}
  Targets <- MCTargets
  Workers = {w1, w2}
  RetryN = 2
  cancelled = cancelled
  payments = payments
  notifications = notifications
  Requests = {r1, r2}
  Kinds <- MCKinds
  r1 = r1
  r2 = r2
  MaxAttempts = 3
INVARIANTS WritesGoOnce
PROPERTIES EventsResolve RequestsAreAnswered
CHECK_DEADLOCK FALSE
