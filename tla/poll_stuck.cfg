CONSTANTS
  Coros = {c1}
  Reqs = {r1, r2, r3}
  Raws = {}
  Cancel = cancel
  None = none
  Ops = {r1, r2, r3, cancel}
  QueueDepth = 2
  Admit = {}
SPECIFICATION FairSpec

PROPERTY ReadyPolled
CHECK_DEADLOCK FALSE
