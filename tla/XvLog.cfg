SPECIFICATION Spec
CONSTANTS
  Procs = {p1, p2}
  Blocks = {b1, b2, b3}
  Vals = {u, v}
  NoBuf = NoBuf
  MAXOPBLOCKS = 2
  NLOG = 6
SYMMETRY Symmetry
INVARIANTS Reserved CommitsAlone OnlyCopyPinned SomeoneWakes
PROPERTY CallsAreAtomic
