----------------------------- MODULE MCNodeOps -----------------------------
(* Two processes, two goroutines each. *)
EXTENDS NodeOps, TLC

MCSymmetry == Permutations(Procs) \cup Permutations(Threads)
=============================================================================
