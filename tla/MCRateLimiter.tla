---------------------------- MODULE MCRateLimiter ----------------------------
EXTENDS RateLimiter, TLC

(* An IPv4 address, the IPv6 address that continues it with zeros, and one *)
(* that begins with the same octets.                                       *)
TheAddrs == {<<1>>, <<1, 0>>, <<1, 2>>}

(* Workers are interchangeable.                                            *)
Symmetry == Permutations(Workers)
=============================================================================
