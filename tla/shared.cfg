CONSTANTS
  Managers = {m1, m2, m3}
  Fds = {3, 4, 5}
  Wrap = 8
  Admit = {"kill_overlaps", "owner_dies_first"}
SPECIFICATION FairSpec
INVARIANTS TypeOK InstancesExact SharedFdValid PlainAttach
PROPERTY ConstructorsReturn
CHECK_DEADLOCK FALSE
