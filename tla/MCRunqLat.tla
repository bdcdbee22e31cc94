----------------------------- MODULE MCRunqLat -----------------------------
(* RunqLat for TLC: CPUs are interchangeable.                              *)
EXTENDS RunqLat, TLC

CpuSymmetry == Permutations(Cpus)
=============================================================================
