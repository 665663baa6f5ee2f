SPECIFICATION Spec
CONSTANTS
  NENV = 3
  NCPU = 2
  GenMax = 1
  InitEnvs = 1
INVARIANTS
  OneCpuEach
  RunsLiveEnv
  RunningIsOnCpu
  FreeListExact
  ReceiverBlocked
PROPERTIES
  WokenBySendOnly
  ZombieFreedByItsTrap
  PopWindowStable
CHECK_DEADLOCK FALSE
