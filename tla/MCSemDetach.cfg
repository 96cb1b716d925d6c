CONSTANTS
  hi = hi
  lo1 = lo1
  lo2 = lo2
  Idle = idle
  Thread <- MCThread
  BasePrio <- MCBasePrio
  ByPriority = TRUE
  MaxValue = 2
  InitValue = 1
  ResetValues <- MCResetValues
  QuietDetach = FALSE
SPECIFICATION Spec
INVARIANTS DrainFindsThread
