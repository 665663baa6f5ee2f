SPECIFICATION FairSpec
CONSTANTS
  NPROC = 3
  NCPU = 2
  Chans = {10}
  MAXPID = 3
INVARIANTS OneStack WaitWoken ParentAlive
PROPERTY WaitReturns
