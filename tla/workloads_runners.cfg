SPECIFICATION Spec
CHECK_DEADLOCK FALSE
CONSTANTS
  gha = gha
  telemetry = telemetry
  Procs = {p1}
  Addons = {gha, telemetry}
  Strategy <- MCStrategy
  Requires <- MCRequires
  Gha = gha
  Apps = {app}
  Runners = {r1}
  MaxCommands = 3
  MaxFaults = 1
INVARIANT RunnersRemovedFirst
