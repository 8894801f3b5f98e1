----------------------------- MODULE PacketLife -----------------------------
(***************************************************************************)
(* What a pair of tunnels promises for each packet an application hands    *)
(* over, with sessions, handshakes, timers and the network left out: it    *)
(* waits for a session or is sent at once, it is sent once, reaches the    *)
(* other side's device at most once and only after it was sent, and what   *)
(* was discarded never shows up again.                                     *)
(***************************************************************************)
CONSTANT Packets

VARIABLE life

(* The stages of a packet, and what may follow each. *)
Follows ==
  [new |-> {"waiting", "sent", "dropped"},
   waiting |-> {"sent", "dropped"},
   sent |-> {"delivered"}, delivered |-> {}, dropped |-> {}]

Init == life = [x \in Packets |-> "new"]

(* A packet is submitted, sent, delivered or discarded. *)
Advance(x) == \E s \in Follows[life[x]] : life' = [life EXCEPT ![x] = s]

(* A connection expires, and with it all that waits at one end. *)
Expire ==
  LET waiting == {x \in Packets : life[x] = "waiting"}
  IN  \E xs \in SUBSET waiting :
        life' = [x \in Packets |-> IF x \in xs THEN "dropped" ELSE life[x]]

Next == Expire \/ \E x \in Packets : Advance(x)

Spec == Init /\ [][Next]_life
=============================================================================
