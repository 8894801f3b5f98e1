----------------------------- MODULE AllowedIps -----------------------------
(***************************************************************************)
(* The table of prefixes (device/allowed_ips.rs), which the device uses to *)
(* route a packet to a peer and a peer to check the source of a packet.    *)
(* A table is a function from networks to what they hold, 0 for nothing;   *)
(* an address is a number of Bits bits.  The trie below it is the crate    *)
(* ip_network_table.                                                       *)
(***************************************************************************)
EXTENDS Naturals

CONSTANT Bits

ASSUME BitsAssumption == Bits \in Nat

Address == 0 .. 2^Bits - 1

(* IpNetwork::new_truncate: the network of a prefix, without host bits.    *)
new_truncate(addr, cidr) ==
  [addr |-> addr - (addr % 2^(Bits - cidr)), cidr |-> cidr]

Networks == {new_truncate(a, c) : a \in Address, c \in 0 .. Bits}

Covers(net, a) == new_truncate(a, net.cidr) = net

(* A line "allowed_ip=addr/cidr" of a peer's section. *)
AllowedIP == [addr : Address, cidr : 0 .. Bits]

NetworksOf(lines) == {new_truncate(l.addr, l.cidr) : l \in lines}

new == [n \in Networks |-> 0]

(* insert, once for each line, always with the same data.                  *)
insert(t, lines, data) == [n \in Networks |-> IF n \in NetworksOf(lines) THEN data ELSE t[n]]

from_iter(lines) == insert(new, lines, 1)

Matches(t, a) == {n \in Networks : t[n] # 0 /\ Covers(n, a)}

(* Mutant: the least specific network wins. *)
find_Shortest(t, a) ==
  IF Matches(t, a) = {} THEN 0
  ELSE t[CHOOSE n \in Matches(t, a) : \A m \in Matches(t, a) : n.cidr <= m.cidr]

(* longest_match *)
find(t, a) ==
  IF Matches(t, a) = {} THEN 0
  ELSE t[CHOOSE n \in Matches(t, a) : \A m \in Matches(t, a) : m.cidr <= n.cidr]

remove(t, data) == [n \in Networks |-> IF t[n] = data THEN 0 ELSE t[n]]
=============================================================================
