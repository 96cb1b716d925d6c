CONSTANTS
  hi = hi
  mid = mid
  lo = lo
  m1 = m1
  m2 = m2
  Idle = idle
  NoThread = none
  Thread <- MCThread
  BasePrio <- MCBasePrio
  ByPriority = TRUE
  Mutex <- One
  NoPriority = 255
  MaxHold = 2
  Rank <- RankOfOne
  Ordered = TRUE
  Detachable <- One
  Sleepers = {hi, mid}
SPECIFICATION FairSpec
INVARIANTS MutualExclusion WaitersAreBlocked OwnerInherits
PROPERTIES UrgentGetsMutex
