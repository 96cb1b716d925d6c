CONSTANTS
  hi = hi
  mid = mid
  lo = lo
  m1 = m1
  m2 = m2
  Idle = idle
  NoThread = none
  Thread <- MCThread
  BasePrio <- MCBasePrio
  ByPriority = TRUE
  Mutex <- Two
  NoPriority = 255
  MaxHold = 1
  Rank <- RankOfTwo
  Ordered = TRUE
  Detachable = {}
  Sleepers = {hi, mid}
SPECIFICATION Spec
INVARIANTS OwnerInherits
VIEW View
