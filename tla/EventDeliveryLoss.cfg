SPECIFICATION Spec
CONSTANTS
  NumEvents = 1
  Workers = {w1}
  BatchSize = 1
  MaxApplied = 1
  MaxFaults = 1
INVARIANT NoDataLoss
CHECK_DEADLOCK FALSE
