CONSTANTS
  Tasks = {t1, t2}
  Irqs = {0, 1, 14}
  TickWrap = 4
  Waits = {2}
  MaxDepth = 2
SPECIFICATION Spec
INVARIANTS
  RegistersKept
  NoDeadLine
PROPERTY WaitsLongEnough
SYMMETRY Symmetry
