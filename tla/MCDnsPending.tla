---------------------------- MODULE MCDnsPending ----------------------------
(* DnsPending for TLC: all constants have their values in the cfg files.   *)
(* CPUs are interchangeable, but a run with liveness uses no symmetry.     *)
EXTENDS DnsPending
=============================================================================
