----------------------------- MODULE MCUdpFlows -----------------------------
(* UdpFlows for TLC: all constants have their values in the cfg file.      *)
(* CPUs are interchangeable, but a run with liveness uses no symmetry.     *)
EXTENDS UdpFlows
=============================================================================
