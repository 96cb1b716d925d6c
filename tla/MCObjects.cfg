CONSTANTS
  hi = hi
  mid = mid
  lo = lo
  f1 = f1
  f2 = f2
  m1 = m1
  m2 = m2
  NoThread = none
  Idle = idle
  Thread <- MCThread
  BasePrio <- MCBasePrio
  ByPriority = FALSE
  Mail = {a, b}
  NoMail = nomail
  Isr = isr
  Size = 2
  Senders = {hi, lo}
  Receivers = {mid, lo}
  Flag = {f1, f2}
  Asks <- MCAsks
  Message = {a, b}
  NoMessage = nomsg
  MsgBlock = {b1, b2}
  NoBlock = nob
  MqIsr = isr
  MqSenders = {hi, lo}
  MqReceivers = {mid, lo}
  MqUrgent = {hi}
  PoolBlock = {p1, p2}
  NullBlock = null
  ThePool = pool
  MpIsr = isr
  MpUsers <- MCThread
SPECIFICATION ObjectsSpec
VIEW ObjectsView
INVARIANTS ObjectsTypeOK RingConsistent NoLostWakeup NestedBoostEnds EventNoneOverlooked
  BlocksInOnePlace MqNoLostWakeup BlocksConserved MpNoLostWakeup
PROPERTIES ImplementsQueue EventGivesOnce MqImplementsQueue
