----------------------------- MODULE MCTcpConn -----------------------------
(* TcpConn for TLC: CPUs are interchangeable. *)
EXTENDS TcpConn, TLC

CpuSymmetry == Permutations(Cpus)
=============================================================================
