---------------------------- MODULE MCTunnelPair ----------------------------
(* Instances of TunnelPair for TLC. *)
EXTENDS TunnelPair

CONSTANTS a, b
BothPeers == {a, b}
NoBad == {}

Bound(who, ticks, force, keys) ==
  [initiators |-> who, time |-> ticks, forced |-> force, eph |-> keys]

(* Handshakes that cross, and one side's retries until it gives up.        *)
CrossingOrRetries == {Bound({a, b}, 0, 1, 3), Bound({a}, 2, 0, 6)}
Crossing == {Bound({a, b}, 0, 0, 5)}
OneSided == {Bound({a}, 1, 0, 10)}
=============================================================================
