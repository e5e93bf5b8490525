SPECIFICATION FairSpec
CONSTANTS
  NumEvents = 2
  Workers = {w1, w2}
  BatchSize = 2
  MaxApplied = 2
  MaxFaults = 1
INVARIANTS
  ExclusiveHandling
  AppliedAtMostOnce
  LostOnlyIfAbandoned
PROPERTIES
  ImplementsChannel
  EventuallyPublished
CHECK_DEADLOCK FALSE
