SPECIFICATION Spec
CONSTANTS
  Clients = {c1, c2}
  FS = fs
  NoEnv = noenv
  None = none
  NoPage = nopage
  FdPage = fd
  EnvsPage = envs
  Types = {"open", "sync", "other"}
  MayDie = TRUE
SYMMETRY Symmetry
INVARIANTS RequestPage NobodyForgotten UenvsIntact
PROPERTIES CallsAnswered
CHECK_DEADLOCK FALSE
