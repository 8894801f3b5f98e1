---------------------------- MODULE MCEventLoop ----------------------------
(* Two threads, and a peer: eight descriptors, five of them in use from the *)
(* start, so that sockets come and go on three.                             *)
EXTENDS EventLoop

CONSTANTS w1, w2, p1

MCWorkers == {w1, w2}
MCPeers == {p1}
MCFds == 1..8
MCAddresses == 1..11
=============================================================================
