SPECIFICATION StaticSpec
CONSTANTS
  NENV = 4
  NCPU = 2
  GenMax = 1
  InitEnvs = 4
PROPERTY EveryoneGetsATurn
CHECK_DEADLOCK FALSE
