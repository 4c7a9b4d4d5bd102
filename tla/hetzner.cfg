SPECIFICATION Spec
CHECK_DEADLOCK FALSE
CONSTANTS
  ControlPlane = cp
  Workers = {w1}
  NULL = NULL
  MaxCommands = 4
  MaxFaults = 3
INVARIANTS TypeOK ReconcileExact NothingLeftSilently SweepRespectsUse
PROPERTY TombstoneOnlyGone
