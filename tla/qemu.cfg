SPECIFICATION Spec
CONSTANTS
  Procs = {p1, p2}
  Threads = {t1, t2}
  NULL = NULL
  MaxIdx = 2
  MaxVMs = 3
  MaxCommands = 3
  MaxFaults = 1
SYMMETRY Symmetry
CHECK_DEADLOCK FALSE
INVARIANTS TypeOK NoOrphans OneMachinePerNode DestroyStopsAll
