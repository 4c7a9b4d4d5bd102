SPECIFICATION Spec
CHECK_DEADLOCK FALSE
CONSTANTS
  Agents = {a1, a2}
  Hosts <- MCHosts
  MaxRuns = 3
  MaxFaults = 1
SYMMETRY Symmetry
INVARIANTS TypeOK TailnetNotDropped RowMeansInstalled
PROPERTIES SuccessMeansInEffect
