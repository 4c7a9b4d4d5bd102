------------------------------- MODULE MCQemu -------------------------------
EXTENDS Qemu, TLC

Symmetry == Permutations(Procs) \cup Permutations(Threads)
=============================================================================
