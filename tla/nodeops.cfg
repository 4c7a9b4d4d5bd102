SPECIFICATION Spec
CHECK_DEADLOCK FALSE
CONSTANTS
  Procs = {p1, p2}
  Threads = {t1, t2}
  NULL = NULL
  MaxClock = 2
  MaxCommands = 3
  MaxFaults = 1
SYMMETRY MCSymmetry
INVARIANTS TypeOK AddedEverywhere RemovedEverywhere
PROPERTY RemovalOrder
