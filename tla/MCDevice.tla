------------------------------ MODULE MCDevice ------------------------------
(* Instances of Device for TLC. *)
EXTENDS Device, FiniteSets, TLC

CONSTANT MaxChanges

(* One-bit addresses: everything (written with a host bit) or one host; a  *)
(* register of two bits, which comes round on the third call.              *)
MCLineSets == {{[addr |-> 1, cidr |-> 0]}, {[addr |-> 1, cidr |-> 1]}}
MCPoly == {0, 1}
MCSeeds == {[i \in 0 .. 1 |-> i = 0]}

Symmetry ==
  Permutations(PubKeys) \cup Permutations(PrivKeys) \cup Permutations(Addrs)

(* A bound on the changes that requests make, of whatever kind: keys,      *)
(* ports, marks and peers added.                                           *)
FewChanges == limiter + (listen_port - 1) + fwmark + Cardinality(drawn) <= MaxChanges
=============================================================================
