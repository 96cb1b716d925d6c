CONSTANTS
  PageSize = 2
  SectorSize = 4
  Sectors = 2
  Blank = blank
  Old = old
  Junk = junk
  MaxBusFaults = 1
  OverwriteAnywhere = FALSE
  MaxHalFaults = 1
  MaxRestarts = 2
  QeFromFactory = TRUE
  HeapSize = 12
  Header = 2
  MinSize = 2
  HeapUser = {u1, u2}
  HeapSizes = {1, 2, 4}
  MaxHeld = 2
  SwThread = {s1, s2, s3}
  NoSwThread = nosw
  Word = {w1}
  Deadbeef = deadbeef
  LineSize = 4
  Keys = {"a", " ", "left", "right", "bs", "tab", "cr"}
  Commands <- MCCommands
  ArgMax = 2
SPECIFICATION Spec
INVARIANTS SplitRespectsPages DamageIsLocal ModesAgree JumpsToImage
  HeapWellFormed HeldStaysIntact CpuFollowsScheduler
PROPERTIES RegistersArePrivate ShellEditsLine BootPartEnds
VIEW PartsView
CHECK_DEADLOCK FALSE
