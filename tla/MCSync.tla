------------------------------- MODULE MCSync -------------------------------
(* Two Deployment objects, each with a service name of its own. *)
EXTENDS Sync, TLC

CONSTANTS s1, s2

MCWorkloads == 1..2
MCServiceOf == 1 :> s1 @@ 2 :> s2

MCSymmetry == Permutations(Hosts) \cup Permutations(Versions)
=============================================================================
