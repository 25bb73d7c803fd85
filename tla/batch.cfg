CONSTANTS
  Own = {b1, b2, b3}
  Others = {o1, o2}
  Ops = {b1, b2, b3, o1, o2}
  QueueDepth = 3
  Wrap = 8
SPECIFICATION FairSpec
INVARIANTS TypeOK CompleteOnReturn CountsExact FaultOnlyAfterFailure
PROPERTY BatchReturns
CHECK_DEADLOCK FALSE
