SPECIFICATION FairSpec
CONSTANTS
  Calls = {c1, c2, c3}
  WindowSec = 3
  MinimumRequests = 2
  ErrorThresholdPercent = 60
  OpenSec = 2
  HalfOpenMaxProbes = 2
  CallSec = 1
  Busy = 2
INVARIANTS ProbesAlone WindowIsExact
PROPERTIES OpensAndClosesForCause Recovers
