----------------------------- MODULE MCMetrics -----------------------------
(* Metrics for TLC: CPUs are interchangeable.                              *)
EXTENDS Metrics, TLC

CpuSymmetry == Permutations(Cpus)
=============================================================================
