SPECIFICATION FairSpec
CONSTANTS
  NENV = 2
  NCPU = 2
  GenMax = 2
  InitEnvs = 1
PROPERTY ZombieCollected
CHECK_DEADLOCK FALSE
