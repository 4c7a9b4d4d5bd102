----------------------------- MODULE MCWorkloads -----------------------------
(* The runner addon, a staged addon that requires it, an app and a runner. *)
EXTENDS Workloads
CONSTANTS gha, telemetry

MCStrategy == gha :> "helmchart" @@ telemetry :> "staged"
Symmetry == Permutations(Procs)
MCRequires == gha :> {} @@ telemetry :> {gha}
=============================================================================
