SPECIFICATION Spec
CHECK_DEADLOCK FALSE
CONSTANTS
  gha = gha
  telemetry = telemetry
  Procs = {p1, p2}
  Addons = {gha, telemetry}
  Strategy <- MCStrategy
  Requires <- MCRequires
  Gha = gha
  Apps = {app}
  Runners = {r1}
  MaxCommands = 4
  MaxFaults = 1
INVARIANTS TypeOK SuccessMeansAgreement AuditTrail SecretLossReported RunnersHaveController
SYMMETRY Symmetry
