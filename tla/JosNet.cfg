SPECIFICATION Spec
CONSTANTS
  Clients = {c1, c2}
  QUEUE_SIZE = 3
  MBOXSLOTS = 1
  TXDESCS = 2
  RXDESCS = 3
  MaxOut = 3
  MaxIn = 3
  MaxLost = 1
SYMMETRY Symmetry
INVARIANTS FirstRound  NoOverflow
PROPERTY OutInOrder
CHECK_DEADLOCK FALSE
