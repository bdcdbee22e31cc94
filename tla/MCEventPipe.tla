---------------------------- MODULE MCEventPipe ----------------------------
(* EventPipe for TLC. *)
EXTENDS EventPipe
=============================================================================
