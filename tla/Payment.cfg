SPECIFICATION Spec
CONSTANTS
  Orders = {o1}
  Requests = {r1, r2}
  MaxDeclines = 2
INVARIANTS
  EventsTellTruth
  CancelSettlesMoney
  CrashLeavesTrace
CHECK_DEADLOCK FALSE
