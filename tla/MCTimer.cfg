CONSTANTS
  t1 = t1
  t2 = t2
  t3 = t3
  Timer = {t1, t2, t3}
  NoTimer = none
  RT_TICK_MAX = 7
  Times <- MCTimes
  Detachable = {t3}
  Controlled = {t3}
  ModeInCallback = FALSE
SPECIFICATION FairSpec
VIEW View
INVARIANTS ActiveMeansLinked SortedList
PROPERTIES FiresOnTime CheckEnds
