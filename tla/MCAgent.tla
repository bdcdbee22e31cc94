------------------------------ MODULE MCAgent ------------------------------
(* Agent for TLC: one raw tracepoint and the kprobe stand for the six, and *)
(* a microsecond has four nanoseconds.                                     *)
EXTENDS Agent

MCFallible == StartSteps \cup {"filterdel", "listen"}
MCHooks == <<"inet_sock_set_state", "tcp_rcv_established">>
MCDefaults == [f \in Fields |-> IF f \in NsFields THEN 5 ELSE 2]
MCFlags == {[f \in Fields |-> IF f \in CountFields /\ v < 0 THEN -v ELSE v] : v \in -9..11}
=============================================================================
