SPECIFICATION Spec
CONSTANTS
  NENV = 2
  NCPU = 2
  GenMax = 1
  InitEnvs = 1
INVARIANT NeverOnTwoCpus
CHECK_DEADLOCK FALSE
