CONSTANTS
  Tasks = {t1, t2}
  None = none
  Exception = exception
  Types = {"READ"}
  Results <- MCResults
  Codes = {7}
  Admit = {"await_again"}
SPECIFICATION FairSpec
PROPERTY ImplementsCalls
CHECK_DEADLOCK FALSE
