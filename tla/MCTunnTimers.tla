---------------------------- MODULE MCTunnTimers ----------------------------
(* Instances of TunnTimers for TLC. *)
EXTENDS TunnTimers

OneBad == {[bad |-> 1]}
MeAndPeer == {"me", "peer"}
NoBad == {}
=============================================================================
