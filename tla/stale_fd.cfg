CONSTANTS
  Managers = {m1, m2, m3}
  Fds = {3, 4, 5}
  Wrap = 8
  Admit = {"owner_dies_first"}
SPECIFICATION Spec
INVARIANT NoStaleAttach
CHECK_DEADLOCK FALSE
