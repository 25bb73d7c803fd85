CONSTANTS
  Coros = {c1, c2}
  Reqs = {r1, r2}
  Raws = {}
  Cancel = cancel
  None = none
  Ops = {r1, r2, cancel}
  QueueDepth = 2
  Admit = {"use_after_kill"}
SPECIFICATION Spec

INVARIANT NoFault
CHECK_DEADLOCK FALSE
