CONSTANTS
  Tasks = {t1, t2, t3}
  None = none
  Exception = exception
  Types = {"READ", "OPENAT"}
  Results <- MCResults
  Codes = {7}
  Admit = {}
SPECIFICATION FairSpec
INVARIANTS TypeOK StatusAgrees NoDangling PromiseInPlace AwaiterKnown AwaitYieldsReturn OwnResponse
PROPERTY ImplementsCalls
CHECK_DEADLOCK FALSE
