CONSTANTS
  MaxHalFaults = 1
  MaxRestarts = 2
  QeFromFactory = TRUE
SPECIFICATION BootSpec
INVARIANTS ReadyMeansMapped
CHECK_DEADLOCK FALSE
