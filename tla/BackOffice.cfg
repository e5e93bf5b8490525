SPECIFICATION Spec
CONSTANTS
  Starters = {s1, s2}
  MaxRuns = 3
  MaxBatches = 2
  MaxVersion = 2
  Requests = {q1, q2}
  Products = {p1, p2}
  Events = {e1, e2}
  Generations = {g1, g2, g3}
  Limit = 1
  MaxWindows = 1
  MaxCopies = 2
  LiveFaults = 1
  MaxFaults = 2
INVARIANTS
  BackOfficeTypeOK
  CompletedSawEveryBatch
  StaleIsExplained
  WishlistGoneWithUser
  OrderedLinesLeaveCart
  OneNoticePerEvent
  QuotaHolds
  ListenersHear
  NothingLeaks
  ShutdownSettlesClaims
PROPERTIES
  EveryRunEnds
  JobEnds
CHECK_DEADLOCK FALSE
