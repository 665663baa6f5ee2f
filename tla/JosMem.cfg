SPECIFICATION Spec
CONSTANTS
  Pages = {p1, p2, p3, p4, p5}
  NoPage = nil
  Envs = {e1, e2}
  NoEnv = noenv
  NIDX = 2
  RefMod = 32
  PermArgs = {{"PTE_P", "PTE_U"}, {"PTE_P", "PTE_U", "PTE_W"}}
SYMMETRY Symmetry
INVARIANTS RefsExact Isolation TablesClean
PROPERTIES WriteNotForged OneMappingAtATime
CHECK_DEADLOCK FALSE
