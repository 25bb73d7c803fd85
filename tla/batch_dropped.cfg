CONSTANTS
  Own = {b1, b2, b3}
  Others = {o1, o2}
  Ops = {b1, b2, b3, o1, o2}
  QueueDepth = 2
  Wrap = 8
SPECIFICATION Spec
INVARIANT AllSubmitted
CHECK_DEADLOCK FALSE
