----------------------------- MODULE MCTcpFlow -----------------------------
(* TcpFlow for TLC: sockets are interchangeable; a sample is slow and of   *)
(* the smaller window, or neither.                                         *)
EXTENDS TcpFlow, TLC

MCSamples == {<<7, 2>>, <<8, 1>>}
SockSymmetry == Permutations(Socks)
=============================================================================
