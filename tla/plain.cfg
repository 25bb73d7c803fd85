CONSTANTS
  Coros = {c1, c2}
  Reqs = {r1, r2}
  Raws = {w1, w2}
  Cancel = cancel
  None = none
  Ops = {r1, r2, w1, w2, cancel}
  QueueDepth = 2
  Admit = {}
SPECIFICATION FairSpec
INVARIANTS NoFault NoLostWakeup
PROPERTIES KillCompletes CancelledResumed
CHECK_DEADLOCK FALSE
