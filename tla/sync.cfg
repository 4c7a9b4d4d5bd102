SPECIFICATION Spec
CHECK_DEADLOCK FALSE
CONSTANTS
  Hosts = {h1, h2}
  s1 = s1
  s2 = s2
  Services = {s1, s2}
  Workloads <- MCWorkloads
  ServiceOf <- MCServiceOf
  Versions = {v1, v2}
  NULL = NULL
  MaxEvents = 3
  MaxFaults = 1
  MaxSyncs = 2
SYMMETRY MCSymmetry
INVARIANTS TypeOK StampMeansClean DryRunMatchesDiff
PROPERTY SyncLosesNothing
