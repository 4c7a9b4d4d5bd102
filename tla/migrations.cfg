SPECIFICATION FairSpec
CHECK_DEADLOCK FALSE
CONSTANTS
  Procs = {p1, p2, p3}
  Latest = 4
  Binaries = {3, 4}
  NoProc = NoProc
  MaxOpens = 4
  MaxFaults = 1
INVARIANTS TypeOK SchemaMatchesVersion OpenHasSchema
PROPERTIES MigratesForward NobodyStuckHalfway
