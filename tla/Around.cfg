SPECIFICATION AroundSpec
CONSTANTS
  Events = {cancelled, unrouted}
  NoEvent = NoEvent
  Consumers = {payments, notifications}
  Targets <- MCTargets
  Workers = {c1, c2}
  RetryN = 2
  Notices = {n1, n2}
  NoNotice = NoNotice
  NoticeEvents = {captured, cancelled, held, broken}
  EventType <- MCEventType
  Malformed = {broken}
  RequestKeys = {key, typo}
  KeyTemplate <- MCKeyTemplate
  Gone <- MCGone
  NoCause = NoCause
  Callers = {c1, c2}
  Senders = {c1, c2}
  NotifRetryN = 2
  ReceiptIds = {n1, n2}
  NoReceipt = NoReceipt
  Issuers = {c1, c2}
  ReceiptRetryN = 2
  RatedTrips = {trip}
  Driver <- MCDriver
  Confirmed <- MCConfirmed
  Users = {driver, ann, bob}
  Scores = {1, 5}
  Raters = {c1, c2}
  Moderators = {d1}
  NoRating = NoRating
  SearchTrips = {t1}
  Towns = {osh}
  Listed = {osh}
  Queries <- MCQueries
  Searches = {c1, c2}
  MaxSeats = 1
  Ttl = 2
  Lag = 1
  Checks = {c1, c2, c3}
  WindowSec = 3
  Limit = 3
  Skew = 1
  MaxNow = 8
  cancelled = cancelled
  unrouted = unrouted
  payments = payments
  notifications = notifications
  captured = captured
  held = held
  broken = broken
  key = key
  typo = typo
  trip = trip
  driver = driver
  ann = ann
  bob = bob
  osh = osh
INVARIANTS
  SentWasDelivered GivenUpForCause
  OneNoticePerCause MarksAreTrue ReceiptsAreTrue AggregateIsExact
  AnswersAreRecent NoWindowOverflows BoundariesCount
PROPERTIES FinalIsFinal
SYMMETRY AroundSymmetry
CHECK_DEADLOCK FALSE
