----------------------------- MODULE TunnelPair -----------------------------
(***************************************************************************)
(* Two tunnel endpoints (Tunn) that talk over UDP.  The network may delay, *)
(* reorder, duplicate and lose messages: a message once written stays in   *)
(* `net' and may be delivered any number of times, or never.  Each side's  *)
(* caller sends packets, delivers datagrams, flushes the queue after a     *)
(* WriteToNetwork as decapsulate's documentation asks, and calls           *)
(* update_timers at moments of its own.                                    *)
(***************************************************************************)
EXTENDS Tunn, FiniteSets

CONSTANTS
  MaxPackets,      \* bound: packets an application sends
  Bounds           \* what else bounds a behaviour: each obeys one member

ASSUME PairAssumption ==
  /\ \E x, y \in Endpoints : x # y /\ Endpoints = {x, y}
  /\ MaxPackets \in Nat
  /\ \A bd \in Bounds : bd.initiators \subseteq Endpoints
                       /\ {bd.time, bd.forced, bd.eph} \subseteq Nat

Peers == Endpoints

VARIABLES
  bound,           \* the bound in force: whose applications send packets,
                   \* ticks, forced handshakes, ephemeral keys of an endpoint
  tunn,            \* [Peers -> tunnel]
  net,             \* every message ever written to the network
  now,             \* the clock
  flush,           \* [Peers -> BOOLEAN]: the caller owes a repeated call
  submitted,       \* history: [Peers -> Nat], packets given to encapsulate
  forced,          \* forced handshakes so far
  dropped,         \* history: packets an endpoint discarded
  delivered        \* history: [Payloads -> Nat], writes to a tunnel device

vars == <<bound, tunn, net, now, flush, submitted, forced, dropped, delivered>>

Payload(p, n) == [from |-> p, n |-> n]
Payloads == [from : Peers, n : 1..MaxPackets]
Elements(q) == {q[k] : k \in 1..Len(q)}

Init ==
  /\ bound \in Bounds
  /\ tunn = [p \in Peers |-> NewTunn(p, 0)]
  /\ net = {}
  /\ now = 0
  /\ flush = [p \in Peers |-> FALSE]
  /\ submitted = [p \in Peers |-> 0]
  /\ forced = 0
  /\ dropped = {}
  /\ delivered = [x \in Payloads |-> 0]

-----------------------------------------------------------------------------
(* What the caller does with a result: send what is for the network. *)
Written(r) == IF r.kind = "WriteToNetwork" THEN {r.msg} ELSE {}

Apply(p, r) ==
  /\ r.tunn.fresh <= bound.eph
  /\ tunn' = [tunn EXCEPT ![p] = r.tunn]
  /\ net' = net \cup Written(r)

(* Tunn::encapsulate of the next packet of p's application. *)
Encapsulate(p) ==
  /\ submitted[p] < MaxPackets
  /\ submitted' = [submitted EXCEPT ![p] = @ + 1]
  /\ LET src == Payload(p, submitted[p] + 1)
         t == tunn[p] IN
     /\ Apply(p, encapsulate(t, src, now))
     /\ dropped' = IF CurrentSession(t) = NoSession /\ Len(t.packet_queue) = MAX_QUEUE_DEPTH
                   THEN dropped \cup {src} ELSE dropped
  /\ UNCHANGED <<bound, now, flush, forced, delivered>>

(* Mutant: the queue is not flushed after a WriteToNetwork. *)
Decapsulate_NoFlush(p) ==
  /\ \E m \in net :
       /\ m.from # p
       /\ LET r == handle_verified_packet(tunn[p], m, now) IN
          /\ Apply(p, r)
          /\ delivered' = IF r.kind = "WriteToTunnel"
                          THEN [delivered EXCEPT ![m.payload] = @ + 1] ELSE delivered
  /\ UNCHANGED <<bound, now, flush, submitted, forced, dropped>>

(* Tunn::decapsulate of a datagram of the network. *)
Decapsulate(p) ==
  /\ \E m \in net :
       /\ m.from # p
       /\ LET r == handle_verified_packet(tunn[p], m, now) IN
          /\ Apply(p, r)
          /\ flush' = [flush EXCEPT ![p] = @ \/ r.kind = "WriteToNetwork"]
          /\ delivered' = IF r.kind = "WriteToTunnel"
                          THEN [delivered EXCEPT ![m.payload] = @ + 1] ELSE delivered
  /\ UNCHANGED <<bound, now, submitted, forced, dropped>>

(* Tunn::decapsulate of the empty datagram, until it returns Done. *)
SendQueued(p) ==
  /\ flush[p]
  /\ LET r == send_queued_packet(tunn[p], now) IN
     /\ Apply(p, r)
     /\ flush' = [flush EXCEPT ![p] = r.kind = "WriteToNetwork"]
  /\ UNCHANGED <<bound, now, submitted, forced, dropped, delivered>>

UpdateTimers(p) ==
  /\ LET r == update_timers(tunn[p], now) IN
     /\ Apply(p, r)
     /\ dropped' = IF r.kind = "ConnectionExpired"
                   THEN dropped \cup (Elements(tunn[p].packet_queue) \ {Empty}) ELSE dropped
  /\ UNCHANGED <<bound, now, flush, submitted, forced, delivered>>

(* wireguard_force_handshake: format_handshake_initiation with force. *)
ForceHandshake(p) ==
  /\ forced < bound.forced
  /\ forced' = forced + 1
  /\ Apply(p, format_handshake_initiation(tunn[p], TRUE, now))
  /\ UNCHANGED <<bound, now, flush, submitted, dropped, delivered>>

Tick ==
  /\ now < bound.time
  /\ now' = now + 1
  /\ UNCHANGED <<bound, tunn, net, flush, submitted, forced, dropped, delivered>>

Next ==
  \/ \E p \in bound.initiators : Encapsulate(p)
  \/ \E p \in Peers : \/ Decapsulate(p) \/ SendQueued(p)
                      \/ UpdateTimers(p) \/ ForceHandshake(p)
  \/ Tick

Spec == Init /\ [][Next]_vars

(* A datagram that would change its receiver is not withheld for ever, and *)
(* the callers flush, tick and call update_timers.                         *)
FairSpec ==
  /\ Spec
  /\ WF_vars(Tick)
  /\ \A p \in Peers :
       WF_vars(Decapsulate(p)) /\ WF_vars(SendQueued(p)) /\ WF_vars(UpdateTimers(p))

-----------------------------------------------------------------------------
(* Properties *)

Sessions(p) == {tunn[p].sessions[i] : i \in Slots} \ {NoSession}

(* At most one delivery.  A packet given to encapsulate once is written    *)
(* to the other side's tunnel device at most once, however the network     *)
(* duplicates or delays datagrams and however sessions, queue and          *)
(* handshakes overlap.                                                     *)
DeliveredOnce == \A x \in Payloads : delivered[x] <= 1

(* No nonce is used twice.  Two data messages under one key, in one        *)
(* direction, with one counter are the same message: neither a retransmitted *)
(* handshake nor a second response restarts a session's counter.           *)
NonceUnique ==
  \A m1, m2 \in {m \in net : m.type = "data"} :
    (m1.from = m2.from /\ m1.key = m2.key /\ m1.counter = m2.counter) => m1 = m2

(* Key agreement.  An endpoint holds a key in one slot only, and when both *)
(* endpoints hold it, each sends to the index at which the other receives. *)
(* Handshakes that cross, retries and late responses all go through this.  *)
KeyAgreement ==
  \A p, q \in Peers : \A s \in Sessions(p), u \in Sessions(q) :
    s.key = u.key =>
      IF p = q THEN s = u
      ELSE s.sending_index = u.receiving_index /\ u.sending_index = s.receiving_index

(* No packet disappears or is doubled.  Every packet given to encapsulate  *)
(* waits in the queue, was written to the network, or was discarded by a   *)
(* full queue or an expired connection - exactly one of the three.         *)
PacketsConserved ==
  \A p \in Peers :
    LET q == tunn[p].packet_queue
        wire == {m.payload : m \in {d \in net : d.type = "data" /\ d.from = p}}
        queued == Elements(q) \ {Empty} IN
    /\ {Payload(p, n) : n \in 1..submitted[p]}
         = queued \cup (wire \ {Empty}) \cup {d \in dropped : d.from = p}
    /\ queued \cap wire = {} /\ queued \cap dropped = {} /\ wire \cap dropped = {}
    /\ \A k, l \in 1..Len(q) : (q[k] = q[l] /\ q[k] # Empty) => k = l

(* No packet is stuck.  While packets wait, an initiation of this endpoint *)
(* is under way or its caller owes a flush - although other threads may    *)
(* take the peer's lock between decapsulate and the flush that follows it. *)
NoStuckQueue ==
  \A p \in Peers :
    (tunn[p].packet_queue # <<>> /\ ~flush[p]) => tunn[p].state.tag = "InitSent"

-----------------------------------------------------------------------------
(* Where a packet is, read off the tunnels, the network and the histories. *)
Stage(x) ==
  IF delivered[x] > 0 THEN "delivered"
  ELSE IF \E m \in net : m.type = "data" /\ m.payload = x THEN "sent"
  ELSE IF x \in dropped THEN "dropped"
  ELSE IF x \in Elements(tunn[x.from].packet_queue) THEN "waiting" ELSE "new"

Life == INSTANCE PacketLife WITH Packets <- Payloads, life <- [x \in Payloads |-> Stage(x)]

(* The pair implements PacketLife: through handshakes, retries, expiry and *)
(* duplicated datagrams each packet only moves forward, and is never sent  *)
(* again after it was discarded.                                           *)
PacketLifecycle == Life!Spec

(* The queue drains.  When only one side sends packets and the network     *)
(* delivers, waiting packets, keepalives included, are eventually sent or  *)
(* discarded by expiry.                                                    *)
QueueDrains ==
  \A p \in Peers : tunn[p].packet_queue # <<>> ~> tunn[p].packet_queue = <<>>

-----------------------------------------------------------------------------
(* What a comment of the code says *)

(* handshake.rs: "Allow to have two outgoing handshakes in flight, because *)
(* sometimes we may receive a delayed response": of the last two           *)
(* initiations of an endpoint, each that it has had no answer to can still *)
(* be answered.                                                            *)
TwoInFlight ==
  \A p \in Peers :
    LET t == tunn[p]
        inits == {m.eph : m \in {x \in net : x.type = "init" /\ x.from = p}}
        answered == {m.key.init : m \in {x \in net : /\ x.type = "data" /\ x.from = p
                                                     /\ x.key.initiator = p}}
        open == {hs.eph : hs \in {x \in {t.state, t.previous} : x.tag = "InitSent"}}
        lastTwo == {e \in inits : Cardinality({f \in inits : f > e}) < 2} IN
    ~is_expired(t) => lastTwo \ answered \subseteq open
=============================================================================
