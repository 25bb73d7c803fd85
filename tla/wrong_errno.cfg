CONSTANTS
  Tasks = {t1, t2}
  None = none
  Exception = exception
  Types = {"READ", "OPENAT"}
  Results <- MCResults
  Codes = {7}
  Admit = {}
SPECIFICATION Spec
INVARIANT ErrnoReported
CHECK_DEADLOCK FALSE
