CONSTANTS
  PageSize = 2
  SectorSize = 4
  Sectors = 2
  Blank = blank
  Old = old
  Junk = junk
  MaxBusFaults = 1
  OverwriteAnywhere = TRUE
SPECIFICATION WriteSpec
INVARIANTS WriteStores
CHECK_DEADLOCK FALSE
