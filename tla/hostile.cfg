CONSTANTS
  Coros = {c1, c2}
  Reqs = {r1, r2, r3}
  Raws = {w1}
  Cancel = cancel
  None = none
  Ops = {r1, r2, r3, w1, cancel}
  QueueDepth = 2
  Admit = {"syscall_fails", "use_after_kill", "register_late", "finish_unsuspended", "early_kill", "second_kill"}
SPECIFICATION Spec
SYMMETRY Symmetry
INVARIANTS TypeOK InFlightExact QuietWhenDead NoLostWakeup ReadyAlive HandlesWaiting
PROPERTIES NoNewWorkAfterKill ImplementsDrain
CHECK_DEADLOCK FALSE
