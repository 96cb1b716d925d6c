CONSTANTS
  boss = boss
  w1 = w1
  w2 = w2
  Idle = idle
  NoThread = none
  Thread <- MCThread
  MaxPrio = 3
  InitPrio <- MCInitPrio
  InitTick <- MCInitTick
  MaxNest = 1
  Managers <- MCManagers
  NewPrio <- MCNewPrio
  Serialised = TRUE
SPECIFICATION FairSpec
INVARIANTS ListsMatchStates RunsHighest TimeoutFindsSuspended
PROPERTIES DispatchesHighest EqualsShare
