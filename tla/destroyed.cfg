CONSTANTS
  Coros = {c1, c2, c3, c4}
  Reqs = {r1, r2, r3}
  Raws = {}
  Cancel = cancel
  None = none
  Ops = {r1, r2, r3, cancel}
  QueueDepth = 2
  Admit = {"register_late"}
SPECIFICATION Spec

INVARIANT NeverDestroyed
CHECK_DEADLOCK FALSE
