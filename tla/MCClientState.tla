---------------------------- MODULE MCClientState ----------------------------
EXTENDS ClientState, TLC

Symmetry == Permutations(Procs) \cup Permutations(Clusters)
=============================================================================
