SPECIFICATION Spec
CONSTANTS
  Envs = {a, b}
  first = a
  None = none
  MAXFD = 2
  NCPU = 1
  PIPEBUFSIZ = 2
  MaxBytes = 3
INVARIANTS ClosedIsClosed InOrder
CHECK_DEADLOCK FALSE
