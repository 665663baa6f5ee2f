SPECIFICATION FairSpec
CONSTANTS
  Clients = {c1, c2}
  FS = fs
  NoEnv = noenv
  None = none
  NoPage = nopage
  FdPage = fd
  EnvsPage = envs
  Types = {"open", "sync", "other"}
  MayDie = FALSE
INVARIANT OnlySyncPanics
PROPERTIES TakenIsAnswered ServerKeepsServing
CHECK_DEADLOCK FALSE
