CONSTANTS
  t1 = t1
  t2 = t2
  t3 = t3
  Timer = {t1, t2, t3}
  NoTimer = none
  RT_TICK_MAX = 7
  Times <- MCTimes
  Detachable = {}
  Controlled = {t3}
  ModeInCallback = TRUE
SPECIFICATION Spec
VIEW View
INVARIANTS ActiveMeansLinked
