SPECIFICATION Spec
CONSTANTS
  Files = {a, b}
  NoFile = none
  NBLOCKS = 2
  NDIRECT = 1
  NINDIRECT = 2
  Sizes = {0, 1, 2, 3}
  MaxCrashes = 2
SYMMETRY Symmetry
CONSTRAINT Undamaged
INVARIANTS CacheSound DiskSound FlushedStays
CHECK_DEADLOCK FALSE
