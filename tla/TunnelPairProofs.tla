--------------------------- MODULE TunnelPairProofs --------------------------
(***************************************************************************)
(* The invariants of two tunnels over an unreliable network, and that they *)
(* implement PacketLife, for every size of ring, index space, queue and    *)
(* window, all timer constants, any number of packets and every bound:     *)
(* first the inductive invariant, what each call of the Tunn API does to   *)
(* its endpoint and what a call keeps, then the steps and the theorems.    *)
(*                                                                         *)
(* The argument.  Every session and every message sealed has a key that    *)
(* its endpoint has burnt (TunnLemmas), and a session that a call brings   *)
(* into the ring has a key that was not burnt before.  So a key never      *)
(* comes back with its counter or its anti-replay filter reset.            *)
(***************************************************************************)
EXTENDS TunnelPair, TunnLemmas

Packets == Payloads \cup {Empty}

-----------------------------------------------------------------------------
(* The two endpoints and the network *)

Msgs(type) == {m \in net : m.type = type}

MessageType ==
  [type : {"init"}, from : Peers, sender_idx : Indices, eph : Nat, static : Nat, mac2 : Nat]
  \cup [type : {"resp"}, from : Peers, sender_idx : Indices, receiver_idx : Indices,
        initEph : Nat, eph : Nat, mac2 : Nat]
  \cup [type : {"data"}, from : Peers, receiver_idx : Indices, key : Keys,
        counter : Nat, payload : Packets]

EndsType ==
  /\ tunn \in [Peers -> Tunnels(Packets)]
  /\ \A p \in Peers : TunnType(tunn[p], Packets) /\ tunn[p].me = p
  /\ net \subseteq MessageType

CallersType ==
  /\ bound \in Bounds
  /\ now \in Nat
  /\ flush \in [Peers -> BOOLEAN]
  /\ submitted \in [Peers -> 0..MaxPackets]
  /\ dropped \subseteq Payloads
  /\ delivered \in [Payloads -> Nat]

(* What was sealed under a key is behind the counter of the key's session. *)
NonceInv ==
  \A m \in Msgs("data") :
    /\ Burnt(tunn[m.from], m.key)
    /\ \A i \in Slots : Holds(tunn[m.from], i, m.key)
                          => m.counter < tunn[m.from].sessions[i].sending_key_counter

(* Every session comes from a response, of which its maker wrote one only. *)
KeyInv ==
  /\ \A m \in Msgs("resp") : m.eph <= tunn[m.from].fresh
  /\ \A m1, m2 \in Msgs("resp") : (m1.from = m2.from /\ m1.eph = m2.eph) => m1 = m2
  /\ \A p \in Peers : \A i \in Slots :
       tunn[p].sessions[i] # NoSession => \E m \in net : Matches(p, tunn[p].sessions[i], m)

(* Where the packets of p are: what it was given is in the queue, on the   *)
(* wire or discarded, and in one of these only.                            *)
Given(p) == {Payload(p, n) : n \in 1..submitted[p]}
Waiting(p) == Elements(tunn[p].packet_queue) \ {Empty}
Loads(ms) == {m.payload : m \in {d \in ms : d.type = "data"}} \ {Empty}
OnWire(p) == Loads({m \in net : m.from = p})
Discarded(p) == {d \in dropped : d.from = p}

Splits(S, X, Y, Z) == S = X \cup Y \cup Z /\ X \cap Y = {} /\ X \cap Z = {} /\ Y \cap Z = {}

Unrepeated(q) == \A k, l \in 1..Len(q) : (q[k] = q[l] /\ q[k] # Empty) => k = l

Tally ==
  \A p \in Peers : /\ Splits(Given(p), Waiting(p), OnWire(p), Discarded(p))
                   /\ Unrepeated(tunn[p].packet_queue)

SealedOnce ==
  \A m1, m2 \in Msgs("data") : (m1.payload = m2.payload /\ m1.payload # Empty) => m1 = m2

DeliveryInv ==
  \A x \in Payloads :
    /\ delivered[x] <= 1
    /\ delivered[x] > 0 => \E m \in Msgs("data") : /\ m.payload = x
                                                   /\ \A p \in Peers \ {m.from} : Spent(tunn[p], m)

EndsInv ==
  /\ EndsType
  /\ \A p \in Peers : Sound(tunn[p]) /\ Blank(tunn[p])
  /\ NonceInv /\ NonceUnique
  /\ KeyInv

PairInv ==
  /\ EndsInv /\ CallersType
  /\ NoStuckQueue
  /\ Tally /\ SealedOnce
  /\ DeliveryInv

-----------------------------------------------------------------------------
(* Handshakes of an endpoint *)

(* An initiation that is answered makes a session whose key contains an    *)
(* ephemeral just drawn.                                                   *)
LEMMA AnswersSound ==
  ASSUME NEW P, NEW t, TunnType(t, P), NEW r, TunnType(r.tunn, P), NEW time \in Nat, NEW m,
         m.from \in Endpoints, m.from # t.me, m.sender_idx \in Indices, m.eph \in Nat,
         Answers(t, r, m, time), Sound(t)
  PROVE  Sound(r.tunn) /\ Later(t, r.tunn, {r.msg}) /\ Writes(t, r.tunn, r.msg)
<1> DEFINE u == r.tunn
           k == Key(m.from, m.eph, t.fresh + 1)
           s == NewSession(inc_index(t), m.sender_idx, k, time)
           i == s.receiving_index % N_SESSIONS
<1>1. /\ t.fresh \in Nat /\ u.fresh = t.fresh + 1 /\ u.next_index = inc_index(t)
      /\ u.previous = t.state /\ u.state = HsNone /\ r.msg = Response(u, m)
      /\ Establishes(t, u, s)
  BY PairTyped DEF Answers
<1>2. /\ s \in SessionType /\ u.me = t.me /\ u.sessions = [t.sessions EXCEPT ![i] = s]
  BY <1>1, ZenonT(30) DEF Establishes
<1>3. /\ s.receiving_index = inc_index(t) /\ s.sending_index = m.sender_idx /\ s.key = k
      /\ k.initiator = m.from /\ k.init = m.eph /\ k.resp = t.fresh + 1
  BY ZenonT(30) DEF NewSession, Key
<1>4. i \in Slots /\ k \in Keys
  BY <1>1, <1>2, <1>3, IndexRange, ZenonT(30) DEF SessionType, Keys
<1>5. /\ r.msg.type = "resp" /\ r.msg.from = t.me /\ r.msg.sender_idx = inc_index(t)
      /\ r.msg.receiver_idx = m.sender_idx /\ r.msg.initEph = m.eph
      /\ r.msg.eph = t.fresh + 1
  BY <1>1, <1>2 DEF Response
<1> HIDE DEF u, s, i, k
<1>6. \A e : Open(u, e) => Open(t, e)
  BY <1>1 DEF Open, HsNone
<1>7. HsLater(t, u)
  BY <1>1, <1>2, <1>6 DEF HsLater
<1>8. OpenSound(u)
  <2>1. \A e \in Nat : Open(u, e) => e <= u.fresh
    BY <1>1, <1>6 DEF Sound, OpenSound
  <2> QED
    BY <1>1, <2>1 DEF OpenSound, HsNone
<1>9. Introduced(t, s, {r.msg})
  <2>1. ~Burnt(t, s.key)
    BY <1>1, <1>3 DEF Burnt
  <2>2. Matches(t.me, s, r.msg)
    BY <1>3, <1>5 DEF Matches
  <2> QED
    BY <2>1, <2>2 DEF Introduced
<1>10. Burnt(u, s.key)
  BY <1>1, <1>2, <1>3 DEF Burnt
<1>11. RingSound(u) /\ Later(t, u, {r.msg})
  BY <1>2, <1>4, <1>7, <1>9, <1>10, RingReceives DEF Sound, u
<1>12. Writes(t, u, r.msg)
  BY <1>1, <1>5 DEF Writes
<1> QED
  BY <1>8, <1>11, <1>12 DEF Sound, u

(* A response that completes a handshake makes a session whose initiation  *)
(* was outstanding, and no longer is.                                      *)
LEMMA ConfirmsSound ==
  ASSUME NEW P, NEW t, TunnType(t, P), NEW r, TunnType(r.tunn, P), NEW time \in Nat, NEW m,
         m.type = "resp", m.from # t.me, m.sender_idx \in Indices, m.receiver_idx \in Indices,
         m.initEph \in Nat, m.eph \in Nat,
         Confirms(t, r, m, time), Sound(t)
  PROVE  Sound(r.tunn) /\ Later(t, r.tunn, {m}) /\ Writes(t, r.tunn, r.msg)
<1> DEFINE u == r.tunn
           k == Key(t.me, m.initEph, m.eph)
           s == Completed(t, m, time)
           c == CountSent(s)
           i == c.receiving_index % N_SESSIONS
<1>1. /\ t.fresh \in Nat /\ u.fresh = t.fresh /\ r.msg = DataPacket(t, s, Empty)
      /\ \/ /\ Awaits(t.state, m) /\ t.state.eph = m.initEph
            /\ u.state = HsNone /\ u.previous = t.previous
         \/ /\ Awaits(t.previous, m) /\ t.previous.eph = m.initEph
            /\ u.state = t.state /\ u.previous = HsNone
      /\ Establishes(t, u, c)
  BY PairTyped, ZenonT(30) DEF Confirms
<1>2. /\ c \in SessionType /\ u.me = t.me /\ u.sessions = [t.sessions EXCEPT ![i] = c]
  BY <1>1, ZenonT(30) DEF Establishes
<1>3. /\ s \in SessionType
      /\ s.receiving_index = m.receiver_idx /\ s.sending_index = m.sender_idx /\ s.key = k
      /\ s.sending_key_counter = 0
  <2>1. t.me \in Endpoints
    BY PairTyped
  <2> QED
    BY <2>1 DEF Completed, NewSession, Key, SessionType
<1>4. k.initiator = t.me /\ k.init = m.initEph /\ k.resp = m.eph
  BY DEF Key
<1>5. /\ c.receiving_index = m.receiver_idx /\ c.sending_index = m.sender_idx /\ c.key = k
      /\ c.sending_key_counter = 1
  BY <1>3, CountedOne
<1>6. i \in Slots /\ k \in Keys
  BY <1>3, <1>5, IndexRange DEF SessionType, Keys
<1>7. /\ r.msg.type = "data" /\ r.msg.from = t.me /\ r.msg.key = k /\ r.msg.counter = 0
  BY <1>1, <1>3 DEF DataPacket
<1> HIDE DEF u, s, c, i, k
<1>8. \A e : Open(u, e) => Open(t, e)
  BY <1>1 DEF Open, HsNone
<1>9. Open(t, m.initEph) /\ ~Open(u, m.initEph)
  BY <1>1 DEF Open, Awaits, HsNone, Sound, OpenSound
<1>10. HsLater(t, u)
  BY <1>1, <1>2, <1>8 DEF HsLater
<1>11. OpenSound(u)
  <2>1. \A e \in Nat : Open(u, e) => e <= u.fresh
    BY <1>1, <1>8 DEF Sound, OpenSound
  <2> QED
    BY <1>1, <2>1 DEF OpenSound, HsNone
<1>12. Introduced(t, c, {m})
  <2>1. ~Burnt(t, c.key)
    BY <1>4, <1>5, <1>9 DEF Burnt
  <2>2. Matches(t.me, c, m)
    BY <1>4, <1>5 DEF Matches
  <2> QED
    BY <2>1, <2>2 DEF Introduced
<1>13. Burnt(u, c.key)
  <2>1. m.initEph <= u.fresh
    BY <1>1, <1>9 DEF Sound, OpenSound
  <2> QED
    BY <1>2, <1>4, <1>5, <1>9, <2>1 DEF Burnt
<1>14. RingSound(u) /\ Later(t, u, {m})
  BY <1>2, <1>6, <1>10, <1>12, <1>13, RingReceives DEF Sound, u
<1>15. Writes(t, u, r.msg)
  <2>1. u.sessions[i] = c
    BY <1>2, <1>6, PairTyped
  <2>2. Holds(u, i, k)
    BY <1>2, <1>5, <2>1, Kinds DEF Holds
  <2>3. \A j \in Slots : Holds(u, j, k) => j = i
    BY <1>6, <1>14, <2>2 DEF RingSound
  <2>4. Seal(t, u, r.msg)
    BY <1>5, <1>7, <1>12, <1>13, <2>1, <2>3 DEF Seal, Introduced
  <2> QED
    BY <1>7, <2>4 DEF Writes
<1> QED
  BY <1>11, <1>14, <1>15 DEF Sound, u

(* A connection that gives up forgets its initiations and its sessions. *)
LEMMA GivesUpSound ==
  ASSUME NEW P, NEW t, TunnType(t, P), NEW r, TunnType(r.tunn, P), NEW time,
         GaveUp(t, r, time), Sound(t)
  PROVE  Sound(r.tunn) /\ Later(t, r.tunn, {})
<1> DEFINE u == r.tunn
<1>1. /\ u.me = t.me /\ u.fresh = t.fresh /\ u.state = HsExpired /\ u.previous = HsExpired
      /\ t.fresh <= u.fresh /\ \A i \in Slots : u.sessions[i] = NoSession
  BY PairTyped DEF GaveUp
<1> HIDE DEF u
<1>2. \A e : ~Open(u, e)
  BY <1>1 DEF Open, HsExpired
<1>3. HsLater(t, u) /\ OpenSound(u)
  BY <1>1, <1>2 DEF HsLater, OpenSound, HsExpired
<1>4. RingSound(u) /\ Later(t, u, {})
  BY <1>1, <1>3, RingContinues, Zenon DEF Sound, u
<1> QED
  BY <1>3, <1>4 DEF Sound, u

-----------------------------------------------------------------------------
(* The calls of the pair *)

(* A call that returned r, with ms the messages it was given. *)
Advances(t, r, ms) ==
  /\ TunnType(r.tunn, Packets) /\ Sound(r.tunn) /\ Blank(r.tunn)
  /\ Later(t, r.tunn, ms \cup Written(r))
  /\ \A m \in Written(r) : m \in MessageType /\ Writes(t, r.tunn, m)

(* It wrote no data message, or only one that carries payload x. *)
Silent(r) == \A m \in Written(r) : m.type # "data"
Carries(r, x) == \A m \in Written(r) : m.type = "data" => m.payload = x

(* More messages explain more. *)
LEMMA LaterMore ==
  ASSUME NEW t, NEW u, NEW ms, NEW ns, ms \subseteq ns, Later(t, u, ms)
  PROVE  Later(t, u, ns)
<1>1. \A s : Introduced(t, s, ms) => Introduced(t, s, ns)
  BY DEF Introduced
<1> QED
  BY <1>1 DEF Later

(* A call writes the message it returns for the network, if it returns     *)
(* one.                                                                    *)
LEMMA WrittenMessage ==
  ASSUME NEW r
  PROVE  /\ r.kind = "WriteToNetwork" => Written(r) = {r.msg}
         /\ r.kind # "WriteToNetwork" => Written(r) = {}
BY DEF Written

(* The fields of the messages in the network. *)
LEMMA MessageTyped ==
  ASSUME NEW m \in MessageType
  PROVE  /\ m.from \in Peers /\ m.type \in {"init", "resp", "data"}
         /\ m.type = "init" => m.sender_idx \in Indices /\ m.eph \in Nat
         /\ m.type = "resp" => /\ m.sender_idx \in Indices /\ m.receiver_idx \in Indices
                              /\ m.initEph \in Nat /\ m.eph \in Nat
         /\ m.type = "data" => /\ m.receiver_idx \in Indices /\ m.key \in Keys
                              /\ m.counter \in Nat /\ m.payload \in Packets
BY DEF MessageType

(* A queue without its head has room. *)
LEMMA TailFits ==
  ASSUME NEW q \in Seq(Packets), q # <<>>, Len(q) <= MAX_QUEUE_DEPTH
  PROVE  Len(Tail(q)) < MAX_QUEUE_DEPTH
BY TunnAssumption

(* The response of an endpoint is a message. *)
LEMMA ResponseTyped ==
  ASSUME NEW u, TunnType(u, Packets), NEW m, m.sender_idx \in Indices, m.eph \in Nat
  PROVE  Response(u, m) \in MessageType /\ Response(u, m).type = "resp"
BY PairTyped DEF Response, MessageType, Peers

(* A call that began a handshake. *)
LEMMA BeginsAdvances ==
  ASSUME NEW t, TunnType(t, Packets), NEW r, TunnType(r.tunn, Packets), NEW time \in Nat,
         Begins(t, r, time), Sound(t)
  PROVE  Advances(t, r, {}) /\ Silent(r) /\ r.tunn.state.tag = "InitSent"
<1>1. /\ Sound(r.tunn) /\ Later(t, r.tunn, {}) /\ Writes(t, r.tunn, r.msg)
  BY BeginsSound
<1>2. /\ r.kind = "WriteToNetwork" /\ r.msg = Initiation(r.tunn)
      /\ r.tunn.state.tag = "InitSent"
  BY DEF Begins, Initiates
<1>3. Written(r) = {r.msg}
  BY <1>2, WrittenMessage
<1>4. r.msg \in MessageType /\ r.msg.type = "init"
  BY <1>2, PairTyped DEF Initiation, MessageType, Peers
<1>5. Blank(r.tunn)
  BY <1>2 DEF Blank, is_expired, HsExpired
<1>6. Later(t, r.tunn, {} \cup Written(r))
  BY <1>1, LaterMore
<1> QED
  BY <1>1, <1>2, <1>3, <1>4, <1>5, <1>6 DEF Advances, Silent

(* What encapsulate does with the packet. *)
Encapsulated(t, r, src) ==
  IF CurrentSession(t) # NoSession
  THEN /\ r.tunn.packet_queue = t.packet_queue /\ r.tunn.state = t.state
       /\ Written(r) = {r.msg} /\ r.msg.type = "data" /\ r.msg.payload = src
       /\ r.kind = "WriteToNetwork"
  ELSE /\ r.tunn.packet_queue = IF Len(t.packet_queue) < MAX_QUEUE_DEPTH
                                THEN Append(t.packet_queue, src) ELSE t.packet_queue
       /\ Silent(r) /\ r.tunn.state.tag = "InitSent"

(* encapsulate seals the packet, or queues it and begins a handshake. *)
LEMMA EncapsulateAdvances ==
  ASSUME NEW t, TunnType(t, Packets), NEW src \in Packets, NEW time \in Nat, Sound(t),
         is_expired(t) => \A i \in Slots : t.sessions[i] = NoSession
  PROVE  /\ Advances(t, encapsulate(t, src, time), {})
         /\ Encapsulated(t, encapsulate(t, src, time), src)
<1> DEFINE r == encapsulate(t, src, time)
<1>1. /\ TunnType(r.tunn, Packets)
      /\ CurrentSession(t) = NoSession
           => r = format_handshake_initiation(queue_packet(t, src), FALSE, time)
      /\ CurrentSession(t) # NoSession => Seals(t, r, src)
  BY Encapsulates, Zenon
<1> HIDE DEF r
<1>2. CASE CurrentSession(t) # NoSession
  <2>1. Sound(r.tunn) /\ Later(t, r.tunn, {}) /\ Writes(t, r.tunn, r.msg)
    BY <1>1, <1>2, SealsSound, Zenon
  <2>2. /\ r.kind = "WriteToNetwork" /\ r.msg = DataPacket(t, CurrentSession(t), src)
        /\ r.tunn.packet_queue = t.packet_queue /\ r.tunn.state = t.state
        /\ CurrentSession(t) \in SessionType
    BY <1>1, <1>2 DEF Seals, SameHandshake
  <2>3. Written(r) = {r.msg}
    BY <2>2, WrittenMessage
  <2>4. r.msg \in MessageType /\ r.msg.type = "data" /\ r.msg.payload = src
    BY <2>2, PairTyped DEF DataPacket, MessageType, Peers, SessionType, Keys
  <2>5. ~is_expired(t)
    BY <1>2, CurrentSlot DEF CurrentSession
  <2>6. Blank(r.tunn)
    BY <2>2, <2>5 DEF Blank, is_expired
  <2>7. Later(t, r.tunn, {} \cup Written(r))
    BY <2>1, LaterMore
  <2> QED
    BY <1>1, <1>2, <2>1, <2>2, <2>3, <2>4, <2>6, <2>7, Zenon DEF Advances, Encapsulated, r
<1>3. CASE CurrentSession(t) = NoSession
  <2> DEFINE v == queue_packet(t, src)
  <2>1. /\ TunnType(v, Packets) /\ SameHandshake(t, v) /\ SameRing(t, v)
        /\ v.packet_queue = IF Len(t.packet_queue) < MAX_QUEUE_DEPTH
                            THEN Append(t.packet_queue, src) ELSE t.packet_queue
    BY QueuePacket
  <2>2. r = format_handshake_initiation(v, FALSE, time)
    BY <1>1, <1>3
  <2> HIDE DEF v
  <2>3. Thinned(t, v)
    BY <2>1 DEF Thinned, SameRing
  <2>4. /\ Sound(v) /\ Later(t, v, {})
        /\ \A u, ms : Later(v, u, ms) => Later(t, u, ms)
        /\ \A u, m : Writes(v, u, m) => Writes(t, u, m)
    BY <2>1, <2>3, Thins, Zenon
  <2>5. CASE is_in_progress(v)
    <3>1. r = Done(v)
      BY <2>1, <2>2, <2>5, FormatInitiation, Zenon
    <3>2. r.tunn = v /\ r.kind = "Done" /\ Written(r) = {}
      BY <3>1, WrittenMessage DEF Done, Result
    <3>3. v.state.tag = "InitSent" /\ Blank(v)
      BY <2>1, <2>5, PairTyped, Kinds DEF is_in_progress, Blank, is_expired
    <3>4. Later(t, v, {} \cup Written(r))
      BY <2>4, <3>2
    <3> QED
      BY <1>3, <2>1, <2>4, <3>2, <3>3, <3>4 DEF Advances, Encapsulated, Silent, r
  <2>6. CASE ~is_in_progress(v)
    <3>1. Begins(v, r, time)
      BY <2>1, <2>2, <2>6, FormatInitiation, Zenon
    <3>2. r.tunn.packet_queue = v.packet_queue
      BY <3>1, Zenon DEF Begins
    <3>3. Advances(v, r, {}) /\ Silent(r) /\ r.tunn.state.tag = "InitSent"
      BY <1>1, <2>1, <2>4, <3>1, BeginsAdvances, Zenon
    <3>4. Advances(t, r, {})
      BY <2>4, <3>3 DEF Advances
    <3> QED
      BY <1>3, <2>1, <3>2, <3>3, <3>4 DEF Encapsulated, r
  <2> QED
    BY <2>5, <2>6
<1> QED
  BY <1>2, <1>3

(* wireguard_force_handshake begins a handshake and leaves the queue. *)
LEMMA ForceAdvances ==
  ASSUME NEW t, TunnType(t, Packets), NEW time \in Nat, Sound(t)
  PROVE  LET r == format_handshake_initiation(t, TRUE, time) IN
         /\ Advances(t, r, {}) /\ Silent(r) /\ r.tunn.state.tag = "InitSent"
         /\ r.tunn.packet_queue = t.packet_queue
<1> DEFINE r == format_handshake_initiation(t, TRUE, time)
<1>1. TunnType(r.tunn, Packets) /\ Begins(t, r, time)
  BY FormatInitiation, Zenon
<1> HIDE DEF r
<1>2. Advances(t, r, {}) /\ Silent(r) /\ r.tunn.state.tag = "InitSent"
  BY <1>1, BeginsAdvances
<1>3. r.tunn.packet_queue = t.packet_queue
  BY <1>1 DEF Begins
<1> QED
  BY <1>2, <1>3, Zenon DEF r

(* What send_queued_packet does with the head of the queue: it is sent, or *)
(* goes to the end of the queue.                                           *)
Flushed(t, r) ==
  LET q == t.packet_queue IN
  \/ q = <<>> /\ r.tunn.packet_queue = q /\ Written(r) = {}
  \/ /\ q # <<>> /\ r.tunn.packet_queue = Tail(q) /\ r.kind = "WriteToNetwork"
     /\ Written(r) = {r.msg} /\ r.msg.type = "data" /\ r.msg.payload = Head(q)
  \/ /\ q # <<>> /\ r.tunn.packet_queue = Append(Tail(q), Head(q))
     /\ Silent(r) /\ r.tunn.state.tag = "InitSent"

(* send_queued_packet keeps the endpoint sound and moves the head of the   *)
(* queue at most.                                                          *)
LEMMA FlushAdvances ==
  ASSUME NEW t, TunnType(t, Packets), NEW time \in Nat, Sound(t), Blank(t)
  PROVE  LET r == send_queued_packet(t, time) IN Advances(t, r, {}) /\ Flushed(t, r)
<1> DEFINE r == send_queued_packet(t, time)
           q == t.packet_queue
<1>0. q \in Seq(Packets) /\ Len(q) <= MAX_QUEUE_DEPTH
  BY PairTyped
<1>1. CASE q = <<>>
  <2>1. r.tunn = t /\ r.kind = "Done"
    BY <1>1 DEF send_queued_packet, Done, Result
  <2> HIDE DEF r
  <2>2. Written(r) = {}
    BY <2>1, WrittenMessage
  <2>3. Thinned(t, t)
    BY DEF Thinned, SameHandshake
  <2>4. Later(t, t, {} \cup Written(r))
    BY <2>2, <2>3, Thins
  <2> QED
    BY <1>1, <2>1, <2>2, <2>4 DEF Advances, Flushed, r
<1>2. CASE q # <<>>
  <2> DEFINE h == [t EXCEPT !.packet_queue = Tail(@)]
  <2>1. /\ TunnType(h, Packets) /\ SameHandshake(t, h) /\ SameRing(t, h)
        /\ h.packet_queue = Tail(q) /\ Head(q) \in Packets
        /\ r = encapsulate(h, Head(q), time)
    BY <1>2, TakesHead, Zenon
  <2> HIDE DEF r, h
  <2>2. Thinned(t, h)
    BY <2>1 DEF Thinned, SameRing
  <2>3. /\ Sound(h)
        /\ \A u, ms : Later(h, u, ms) => Later(t, u, ms)
        /\ \A u, m : Writes(h, u, m) => Writes(t, u, m)
    BY <2>1, <2>2, Thins
  <2>4. ~is_expired(h)
    BY <1>2, <2>1 DEF Blank, is_expired, SameHandshake
  <2>5. Advances(h, r, {}) /\ Encapsulated(h, r, Head(q))
    BY <2>1, <2>3, <2>4, EncapsulateAdvances
  <2>6. Advances(t, r, {})
    BY <2>3, <2>5 DEF Advances
  <2>7. Len(Tail(q)) < MAX_QUEUE_DEPTH
    BY <1>0, <1>2, TailFits, ZenonT(30)
  <2>8. Flushed(t, r)
    BY <1>2, <2>1, <2>5, <2>7 DEF Flushed, Encapsulated
  <2> QED
    BY <2>6, <2>8 DEF r
<1> QED
  BY <1>1, <1>2

(* What update_timers leaves of the queue, and what it sends. *)
Ticked(t, r) ==
  \/ r.kind = "ConnectionExpired" /\ r.tunn.packet_queue = <<>> /\ Written(r) = {}
  \/ /\ r.kind # "ConnectionExpired" /\ Carries(r, Empty)
     /\ \/ /\ r.tunn.packet_queue = t.packet_queue
           /\ t.state.tag = "InitSent" => r.tunn.state.tag = "InitSent"
        \/ /\ r.tunn.packet_queue = Append(t.packet_queue, Empty)
           /\ Silent(r) /\ r.tunn.state.tag = "InitSent"

(* update_timers keeps the endpoint sound, and sends no packet of the      *)
(* caller.                                                                 *)
LEMMA TimersAdvance ==
  ASSUME NEW t, TunnType(t, Packets), NEW time \in Nat, Sound(t), Blank(t)
  PROVE  Advances(t, update_timers(t, time), {}) /\ Ticked(t, update_timers(t, time))
<1> DEFINE r == update_timers(t, time)
<1>0. Empty \in Packets
  BY DEF Packets
<1>1. PICK a : TunnType(a, Packets) /\ Aged(t, a, time) /\ Decides(a, r, time)
  BY <1>0, TimersUpdated
<1>2. TunnType(r.tunn, Packets)
  BY <1>0, TimersUpdated, Zenon
<1> HIDE DEF r
<1>3. /\ SameHandshake(t, a) /\ a.packet_queue = t.packet_queue /\ a.state = t.state
      /\ a.previous = t.previous
      /\ \A i \in Slots : a.sessions[i] \in {t.sessions[i], NoSession}
  BY <1>1 DEF Aged, SameHandshake
<1>4. /\ Sound(a) /\ Later(t, a, {})
      /\ \A u, ms : Later(a, u, ms) => Later(t, u, ms)
      /\ \A u, m : Writes(a, u, m) => Writes(t, u, m)
  BY <1>1, <1>3, Thins DEF Thinned
<1>5. Blank(a)
  BY <1>3, Zenon DEF Blank, is_expired
<1>6. CASE is_expired(a) /\ r = Err(a, "ConnectionExpired")
  <2>1. r.tunn = a /\ r.kind = "ConnectionExpired" /\ a.packet_queue = <<>>
    BY <1>5, <1>6 DEF Err, Result, Blank
  <2>2. Written(r) = {}
    BY <2>1, WrittenMessage
  <2>3. Later(t, a, {} \cup Written(r))
    BY <1>4, <2>2, ZenonT(30)
  <2> QED
    BY <1>1, <1>4, <1>5, <2>1, <2>2, <2>3, Zenon DEF Advances, Ticked, r
<1>7. CASE GaveUp(a, r, time)
  <2>1. Sound(r.tunn) /\ Later(a, r.tunn, {})
    BY <1>1, <1>2, <1>4, <1>7, GivesUpSound
  <2>2. r.kind = "ConnectionExpired" /\ r.tunn.packet_queue = <<>> /\ Blank(r.tunn)
    BY <1>7 DEF GaveUp, Blank
  <2>3. Written(r) = {}
    BY <2>2, WrittenMessage
  <2>4. Later(t, r.tunn, {} \cup Written(r))
    BY <1>4, <2>1, <2>3, Zenon
  <2> QED
    BY <1>2, <2>1, <2>2, <2>3, <2>4 DEF Advances, Ticked, r
<1>8. CASE r = format_handshake_initiation(a, TRUE, time)
  <2>1. /\ Advances(a, r, {}) /\ Silent(r) /\ r.tunn.state.tag = "InitSent"
        /\ r.tunn.packet_queue = a.packet_queue
    BY <1>1, <1>4, <1>8, ForceAdvances, Zenon
  <2>2. r.kind = "WriteToNetwork"
    <3>1. Begins(a, r, time)
      BY <1>1, <1>8, FormatInitiation, Zenon
    <3> QED
      BY <3>1 DEF Begins
  <2>3. Advances(t, r, {})
    BY <1>4, <2>1 DEF Advances
  <2> QED
    BY <1>3, <2>1, <2>2, <2>3 DEF Ticked, Silent, Carries, r
<1>9. CASE ~is_expired(a) /\ a.state.tag # "InitSent" /\ r = encapsulate(a, Empty, time)
  <2>1. Advances(a, r, {}) /\ Encapsulated(a, r, Empty)
    BY <1>0, <1>1, <1>4, <1>9, EncapsulateAdvances, Zenon
  <2>2. Advances(t, r, {})
    BY <1>4, <2>1, ZenonT(30) DEF Advances
  <2>3. CASE CurrentSession(a) # NoSession
    BY <1>3, <2>1, <2>2, <2>3 DEF Encapsulated, Ticked, Carries, r
  <2>4. CASE CurrentSession(a) = NoSession
    <3>1. r.kind # "ConnectionExpired"
      <4> DEFINE v == queue_packet(a, Empty)
      <4>1. TunnType(v, Packets)
        BY <1>0, <1>1, QueuePacket
      <4>2. r = format_handshake_initiation(v, FALSE, time)
        BY <1>0, <1>1, <1>9, <2>4, Encapsulates, Zenon
      <4> HIDE DEF v
      <4>3. r = Done(v) \/ Begins(v, r, time)
        BY <4>1, <4>2, FormatInitiation, ZenonT(30)
      <4> QED
        BY <4>3 DEF Done, Result, Begins
    <3> QED
      BY <1>3, <2>1, <2>2, <2>4, <3>1, Zenon DEF Encapsulated, Ticked, Carries, Silent, r
  <2> QED
    BY <2>3, <2>4, Zenon
<1>10. CASE r = Done(a)
  <2>1. r.tunn = a /\ r.kind = "Done"
    BY <1>10 DEF Done, Result
  <2>2. Written(r) = {}
    BY <2>1, WrittenMessage
  <2>3. Later(t, a, {} \cup Written(r))
    BY <1>4, <2>2
  <2> QED
    BY <1>1, <1>3, <1>4, <1>5, <2>1, <2>2, <2>3 DEF Advances, Ticked, Carries, r
<1> QED
  BY <1>1, <1>6, <1>7, <1>8, <1>9, <1>10, Zenon DEF Decides

(* What decapsulate does: the queue is left alone, and a payload goes to   *)
(* the tunnel device only if its message was not spent, and is now.        *)
Received(t, r, m) ==
  /\ r.tunn.packet_queue = t.packet_queue /\ Carries(r, Empty)
  /\ r.kind # "WriteToNetwork" => r.tunn.state = t.state
  /\ r.kind = "WriteToTunnel" => /\ m.type = "data" /\ m.payload # Empty
                                 /\ Spent(r.tunn, m) /\ ~Spent(t, m)

(* A message that is refused changes nothing. *)
LEMMA RefusesAdvances ==
  ASSUME NEW t, TunnType(t, Packets), NEW r, NEW m, Refuses(t, r), Sound(t), Blank(t)
  PROVE  Advances(t, r, {m}) /\ Received(t, r, m)
<1>1. r.tunn = t /\ r.kind \notin {"WriteToNetwork", "WriteToTunnel"}
  BY DEF Refuses
<1>2. Written(r) = {}
  BY <1>1, WrittenMessage
<1>3. Thinned(t, t)
  BY DEF Thinned, SameHandshake
<1>4. Later(t, t, {})
  BY <1>3, Thins
<1>5. Later(t, t, {m} \cup Written(r))
  BY <1>4, LaterMore, Zenon
<1> QED
  BY <1>1, <1>2, <1>5 DEF Advances, Received, Carries

(* handle_verified_packet keeps the endpoint sound, for each of the four   *)
(* messages.                                                               *)
LEMMA DecapsulateAdvances ==
  ASSUME NEW t, TunnType(t, Packets), NEW time \in Nat, Sound(t), Blank(t),
         NEW m \in MessageType, m.from # t.me
  PROVE  LET r == handle_verified_packet(t, m, time) IN
         Advances(t, r, {m}) /\ Received(t, r, m)
<1> DEFINE r == handle_verified_packet(t, m, time)
<1>1. CASE m.type = "init"
  <2>1. m.from \in Endpoints /\ m.sender_idx \in Indices /\ m.eph \in Nat
    BY <1>1, MessageTyped, Zenon DEF Peers
  <2>2. r = handle_handshake_init(t, m, time)
    BY <1>1 DEF handle_verified_packet
  <2> HIDE DEF r
  <2>3. TunnType(r.tunn, Packets) /\ (Refuses(t, r) \/ Answers(t, r, m, time))
    BY <2>1, <2>2, HandleInit, ZenonT(30)
  <2>4. CASE Answers(t, r, m, time)
    <3>1. Sound(r.tunn) /\ Later(t, r.tunn, {r.msg}) /\ Writes(t, r.tunn, r.msg)
      BY <2>1, <2>3, <2>4, AnswersSound, Zenon
    <3>2. /\ r.kind = "WriteToNetwork" /\ r.msg = Response(r.tunn, m)
          /\ r.tunn.state = HsNone /\ r.tunn.packet_queue = t.packet_queue
      BY <2>4, Zenon DEF Answers, Establishes
    <3>3. Written(r) = {r.msg}
      BY <3>2, WrittenMessage, Zenon
    <3>4. r.msg \in MessageType /\ r.msg.type = "resp"
      BY <2>1, <2>3, <3>2, ResponseTyped, Zenon
    <3>5. Blank(r.tunn)
      BY <3>2, Kinds, Zenon DEF Blank, is_expired
    <3>6. Later(t, r.tunn, {m} \cup Written(r))
      BY <3>1, <3>3, LaterMore, Zenon
    <3> QED
      BY <2>3, <3>1, <3>2, <3>3, <3>4, <3>5, <3>6, Zenon DEF Advances, Received, Carries, r
  <2> QED
    BY <2>3, <2>4, RefusesAdvances DEF r
<1>2. CASE m.type = "resp"
  <2>1. /\ m.sender_idx \in Indices /\ m.receiver_idx \in Indices
        /\ m.initEph \in Nat /\ m.eph \in Nat
    BY <1>2, MessageTyped, Zenon DEF Peers
  <2>2. r = handle_handshake_response(t, m, time)
    BY <1>2, Zenon DEF handle_verified_packet
  <2> HIDE DEF r
  <2>3. TunnType(r.tunn, Packets) /\ (Refuses(t, r) \/ Confirms(t, r, m, time))
    BY <2>1, <2>2, HandleResponse
  <2>4. CASE Confirms(t, r, m, time)
    <3>1. Sound(r.tunn) /\ Later(t, r.tunn, {m}) /\ Writes(t, r.tunn, r.msg)
      BY <1>2, <2>1, <2>3, <2>4, ConfirmsSound, ZenonT(30)
    <3>2. /\ r.kind = "WriteToNetwork" /\ r.msg = DataPacket(t, Completed(t, m, time), Empty)
          /\ r.tunn.packet_queue = t.packet_queue
      BY <2>4 DEF Confirms, Establishes
    <3>3. Written(r) = {r.msg}
      BY <3>2, WrittenMessage
    <3>4. r.msg \in MessageType /\ r.msg.type = "data" /\ r.msg.payload = Empty
      <4>1. t.me \in Endpoints /\ Empty \in Packets
        BY PairTyped, Zenon DEF Packets
      <4>2. /\ r.msg.type = "data" /\ r.msg.payload = Empty
            /\ r.msg = [type |-> "data", from |-> t.me, receiver_idx |-> m.sender_idx,
                        key |-> [initiator |-> t.me, init |-> m.initEph, resp |-> m.eph],
                        counter |-> 0, payload |-> Empty]
        BY <3>2 DEF DataPacket, Completed, NewSession, Key
      <4>3. [initiator |-> t.me, init |-> m.initEph, resp |-> m.eph] \in Keys
        BY <2>1, <4>1, Zenon DEF Keys
      <4> QED
        BY <2>1, <4>1, <4>2, <4>3 DEF MessageType, Peers
    <3>5. Blank(r.tunn)
      <4>1. \/ r.tunn.state = HsNone
            \/ r.tunn.state = t.state /\ t.previous.tag = "InitSent"
        BY <2>4, Zenon DEF Confirms, Awaits
      <4> QED
        BY <4>1, Kinds DEF Blank, is_expired, HsExpired
    <3>6. Later(t, r.tunn, {m} \cup Written(r))
      BY <3>1, LaterMore, Zenon
    <3> QED
      BY <2>3, <3>1, <3>2, <3>3, <3>4, <3>5, <3>6, ZenonT(30) DEF Advances, Received, Carries, r
  <2> QED
    BY <2>3, <2>4, RefusesAdvances DEF r
<1>3. CASE m.type = "data"
  <2>1. m.receiver_idx \in Indices /\ m.counter \in Nat
    BY <1>3, MessageTyped, Zenon DEF Peers
  <2>2. r = handle_data(t, m)
    BY <1>3, Zenon DEF handle_verified_packet
  <2> HIDE DEF r
  <2>3. TunnType(r.tunn, Packets) /\ (Refuses(t, r) \/ Accepts(t, r, m))
    BY <2>1, <2>2, HandleData
  <2>4. CASE Accepts(t, r, m)
    <3>1. Sound(r.tunn) /\ Later(t, r.tunn, {}) /\ Spent(r.tunn, m) /\ ~Spent(t, m)
      BY <2>1, <2>3, <2>4, AcceptsSound, ZenonT(30)
    <3>2. /\ r.kind # "WriteToNetwork" /\ (r.kind = "WriteToTunnel" => m.payload # Empty)
          /\ r.tunn.packet_queue = t.packet_queue /\ r.tunn.state = t.state
          /\ t.sessions[m.receiver_idx % N_SESSIONS] \in SessionType
      BY <2>4, Zenon DEF Accepts, SameHandshake
    <3>3. Written(r) = {}
      BY <3>2, WrittenMessage, Zenon
    <3>4. Blank(r.tunn)
      BY <2>1, <3>2, IndexRange, Kinds, Zenon DEF Blank, is_expired
    <3>5. Later(t, r.tunn, {m} \cup Written(r))
      BY <3>1, LaterMore
    <3> QED
      BY <1>3, <2>3, <3>1, <3>2, <3>3, <3>4, <3>5, ZenonT(30) DEF Advances, Received, Carries, r
  <2> QED
    BY <2>3, <2>4, RefusesAdvances DEF r
<1> QED
  BY <1>1, <1>2, <1>3, Zenon DEF MessageType

-----------------------------------------------------------------------------
(* One call keeps what is between the endpoints *)

(* A call of p's caller: r is what it returned, ms what it was given. *)
Call(p, r, ms) == ms \subseteq net /\ Advances(tunn[p], r, ms) /\ Apply(p, r)

(* A call moves one endpoint, which stays sound, and adds to the network. *)
LEMMA CallEnds ==
  ASSUME EndsInv, NEW p \in Peers, NEW r, NEW ms, Call(p, r, ms)
  PROVE  /\ EndsType'
         /\ \A q \in Peers : (Sound(tunn[q]) /\ Blank(tunn[q]))'
         /\ tunn'[p] = r.tunn /\ \A q \in Peers : q # p => tunn'[q] = tunn[q]
         /\ net' = net \cup Written(r)
         /\ Later(tunn[p], tunn'[p], net')
<1>1. /\ tunn \in [Peers -> Tunnels(Packets)] /\ net \subseteq MessageType
      /\ \A q \in Peers : TunnType(tunn[q], Packets) /\ tunn[q].me = q
      /\ \A q \in Peers : Sound(tunn[q]) /\ Blank(tunn[q])
  BY DEF EndsInv, EndsType
<1>2. /\ TunnType(r.tunn, Packets) /\ Sound(r.tunn) /\ Blank(r.tunn)
      /\ Later(tunn[p], r.tunn, ms \cup Written(r))
      /\ \A m \in Written(r) : m \in MessageType
      /\ ms \subseteq net
  BY DEF Call, Advances
<1>3. tunn' = [tunn EXCEPT ![p] = r.tunn] /\ net' = net \cup Written(r)
  BY DEF Call, Apply
<1>4. tunn'[p] = r.tunn /\ \A q \in Peers : q # p => tunn'[q] = tunn[q]
  BY <1>1, <1>3, Zenon
<1>5. r.tunn.me = p
  BY <1>1, <1>2, Zenon DEF Later
<1>6. r.tunn \in Tunnels(Packets)
  BY <1>2 DEF TunnType
<1>7. tunn' \in [Peers -> Tunnels(Packets)]
  BY <1>1, <1>3, <1>6, Zenon
<1>8. \A q \in Peers : /\ TunnType(tunn'[q], Packets) /\ tunn'[q].me = q
                       /\ Sound(tunn'[q]) /\ Blank(tunn'[q])
  BY <1>1, <1>2, <1>4, <1>5
<1>9. Later(tunn[p], r.tunn, net')
  BY <1>2, <1>3, LaterMore
<1>10. net' \subseteq MessageType
  BY <1>1, <1>2, <1>3, ZenonT(30)
<1> QED
  BY <1>3, <1>4, <1>7, <1>8, <1>9, <1>10, Zenon DEF EndsType

(* What held a key still does, or the key was not burnt. *)
LEMMA HeldBefore ==
  ASSUME NEW t, NEW u, NEW ms, Later(t, u, ms), NEW k, Burnt(t, k), NEW i \in Slots,
         Holds(u, i, k)
  PROVE  Holds(t, i, k) /\ Continues(t.sessions[i], u.sessions[i])
BY DEF Later, Holds, Introduced, Continues

(* No call restarts the counter of a key that has sealed a message. *)
LEMMA CallNonces ==
  ASSUME EndsInv, NEW p \in Peers, NEW r, NEW ms, Call(p, r, ms)
  PROVE  (NonceInv /\ NonceUnique)'
<1>1. /\ tunn'[p] = r.tunn /\ \A q \in Peers : q # p => tunn'[q] = tunn[q]
      /\ net' = net \cup Written(r) /\ Later(tunn[p], tunn'[p], net')
      /\ EndsType /\ EndsType'
  BY CallEnds, Zenon DEF EndsInv
<1>2. \A m \in Written(r) : m.from = p /\ (m.type = "data" => Seal(tunn[p], tunn'[p], m))
  BY <1>1, Zenon DEF Call, Advances, Writes, EndsType
<1>3. \A m \in Msgs("data") :
        /\ m.type = "data" /\ m.from \in Peers /\ m.key \in Keys /\ m.counter \in Nat
        /\ Burnt(tunn[m.from], m.key)
        /\ \A i \in Slots : Holds(tunn[m.from], i, m.key)
                              => m.counter < tunn[m.from].sessions[i].sending_key_counter
  BY MessageTyped, Zenon DEF EndsInv, EndsType, NonceInv, Msgs
<1>4. ASSUME NEW m \in Msgs("data")
      PROVE  /\ Burnt(tunn'[m.from], m.key)
             /\ \A i \in Slots : Holds(tunn'[m.from], i, m.key)
                                   => m.counter < tunn'[m.from].sessions[i].sending_key_counter
  <2>1. CASE m.from # p
    BY <1>1, <1>3, <2>1, Zenon
  <2>2. CASE m.from = p
    <3>1. Burnt(tunn'[p], m.key)
      BY <1>1, <1>3, <2>2, ZenonT(30) DEF Later
    <3>2. ASSUME NEW i \in Slots, Holds(tunn'[p], i, m.key)
          PROVE  m.counter < tunn'[p].sessions[i].sending_key_counter
      <4>1. Holds(tunn[p], i, m.key) /\ Continues(tunn[p].sessions[i], tunn'[p].sessions[i])
        BY <1>1, <1>3, <2>2, <3>2, HeldBefore, Zenon
      <4>2. /\ tunn[p].sessions[i].sending_key_counter \in Nat
            /\ tunn'[p].sessions[i].sending_key_counter \in Nat
        BY <1>1, <3>2, <4>1, PairTyped, Zenon DEF EndsType, Holds
      <4>3. m.counter < tunn[p].sessions[i].sending_key_counter
        BY <1>3, <2>2, <4>1, Zenon
      <4>4. tunn[p].sessions[i].sending_key_counter <= tunn'[p].sessions[i].sending_key_counter
        BY <4>1, Zenon DEF Continues
      <4> QED
        BY <1>3, <4>2, <4>3, <4>4
    <3> QED
      BY <2>2, <3>1, <3>2, Zenon
  <2> QED
    BY <2>1, <2>2, Zenon
<1>5. NonceInv'
  <2>1. \A m \in Msgs("data")' : m \in Msgs("data") \/ (m \in Written(r) /\ m.type = "data")
    BY <1>1 DEF Msgs
  <2> QED
    BY <1>2, <1>4, <2>1, Zenon DEF NonceInv, Seal
<1>6. ASSUME NEW m \in Msgs("data"), NEW n \in Written(r), n.type = "data",
             m.from = n.from, m.key = n.key
      PROVE  m.counter # n.counter
  <2>1. n.from = p /\ Seal(tunn[p], tunn'[p], n)
    BY <1>2, <1>6, Zenon
  <2>2. Burnt(tunn[p], n.key)
    BY <1>3, <1>6, <2>1, Zenon
  <2>3. PICK i \in Slots : /\ Holds(tunn[p], i, n.key)
                           /\ n.counter = tunn[p].sessions[i].sending_key_counter
    BY <2>1, <2>2, ZenonT(30) DEF Seal
  <2>4. m.counter < n.counter /\ m.counter \in Nat
    BY <1>3, <1>6, <2>1, <2>3
  <2> QED
    BY <2>4
<1>7. \A m, n \in Written(r) : m = n
  BY DEF Written
<1>8. NonceUnique'
  <2>1. \A m1, m2 \in Msgs("data") :
          (m1.from = m2.from /\ m1.key = m2.key /\ m1.counter = m2.counter) => m1 = m2
    BY DEF EndsInv, NonceUnique, Msgs
  <2>2. \A m \in {m \in net' : m.type = "data"} :
          m \in Msgs("data") \/ (m \in Written(r) /\ m.type = "data")
    BY <1>1, Zenon DEF Msgs
  <2> QED
    BY <1>6, <1>7, <2>1, <2>2, Zenon DEF NonceUnique
<1> QED
  BY <1>5, <1>8, Zenon

(* A response is written once, and every session comes from one. *)
LEMMA CallKeys ==
  ASSUME EndsInv, NEW p \in Peers, NEW r, NEW ms, Call(p, r, ms)
  PROVE  KeyInv'
<1>1. /\ tunn'[p] = r.tunn /\ \A q \in Peers : q # p => tunn'[q] = tunn[q]
      /\ net' = net \cup Written(r) /\ Later(tunn[p], tunn'[p], net')
      /\ EndsType /\ EndsType'
  BY CallEnds DEF EndsInv
<1>2. \A q \in Peers : tunn[q].fresh \in Nat /\ tunn'[q].fresh \in Nat /\ tunn[q].me = q
  BY <1>1, PairTyped, Zenon DEF EndsType
<1>3. \A m \in Written(r) :
        m.from = p /\ (m.type = "resp" => tunn[p].fresh < m.eph /\ m.eph <= tunn'[p].fresh)
  BY <1>1, Zenon DEF Call, Advances, Writes, EndsType
<1>4. \A m \in Msgs("resp") : m.from \in Peers /\ m.eph \in Nat /\ m.eph <= tunn[m.from].fresh
  BY <1>1, MessageTyped, Zenon DEF EndsInv, KeyInv, EndsType, Msgs
<1>5. \A m \in Msgs("resp")' : m \in Msgs("resp") \/ (m \in Written(r) /\ m.type = "resp")
  BY <1>1 DEF Msgs
<1>6. \A m \in Msgs("resp")' : m.eph <= tunn'[m.from].fresh
  <2>1. \A q \in Peers : tunn[q].fresh <= tunn'[q].fresh
    BY <1>1, <1>2 DEF Later
  <2>2. ASSUME NEW m \in Msgs("resp")
        PROVE  m.eph <= tunn'[m.from].fresh
    BY <1>2, <1>4, <2>1
  <2> QED
    BY <1>3, <1>5, <2>2, ZenonT(30)
<1>7. \A m1, m2 \in Msgs("resp")' : (m1.from = m2.from /\ m1.eph = m2.eph) => m1 = m2
  <2>1. ASSUME NEW m \in Msgs("resp"), NEW n \in Written(r), n.type = "resp", m.from = n.from
        PROVE  m.eph # n.eph
    <3>1. /\ m.from = p /\ tunn[p].fresh < n.eph /\ m.eph <= tunn[p].fresh
          /\ m.eph \in Nat /\ tunn[p].fresh \in Nat
      BY <1>2, <1>3, <1>4, <2>1, Zenon
    <3> QED
      BY <3>1
  <2>2. \A m, n \in Written(r) : m = n
    BY DEF Written
  <2>3. \A m1, m2 \in Msgs("resp") : (m1.from = m2.from /\ m1.eph = m2.eph) => m1 = m2
    BY Zenon DEF EndsInv, KeyInv
  <2> QED
    BY <1>5, <2>1, <2>2, <2>3, Zenon
<1>8. ASSUME NEW q \in Peers, NEW i \in Slots, tunn'[q].sessions[i] # NoSession
      PROVE  \E m \in net' : Matches(q, tunn'[q].sessions[i], m)
  <2>1. tunn[q].sessions[i] # NoSession => \E m \in net : Matches(q, tunn[q].sessions[i], m)
    BY Zenon DEF EndsInv, KeyInv
  <2>2. CASE q # p
    BY <1>1, <1>8, <2>1, <2>2
  <2>3. CASE q = p /\ Continues(tunn[q].sessions[i], tunn'[q].sessions[i])
    BY <1>1, <2>1, <2>3, ZenonT(30) DEF Continues, Matches
  <2>4. CASE q = p /\ Introduced(tunn[q], tunn'[q].sessions[i], net')
    BY <1>2, <2>4 DEF Introduced
  <2> QED
    BY <1>1, <1>8, <2>2, <2>3, <2>4, Zenon DEF Later
<1> QED
  BY <1>6, <1>7, <1>8, ZenonT(30) DEF KeyInv

(* So a call keeps the part of the invariant that is about keys and        *)
(* counters.                                                               *)
LEMMA CallKeepsEnds ==
  ASSUME EndsInv, NEW p \in Peers, NEW r, NEW ms, Call(p, r, ms)
  PROVE  EndsInv'
BY CallEnds, CallNonces, CallKeys, Zenon DEF EndsInv

(* What is spent stays spent: neither the key nor the filter comes back. *)
LEMMA SpentStays ==
  ASSUME EndsInv, NEW p \in Peers, NEW r, NEW ms, Call(p, r, ms),
         NEW q \in Peers, NEW m \in Msgs("data"), Spent(tunn[q], m)
  PROVE  Spent(tunn'[q], m)
<1>1. /\ tunn'[p] = r.tunn /\ (q # p => tunn'[q] = tunn[q])
      /\ Later(tunn[p], tunn'[p], net')
  BY CallEnds, Zenon
<1>2. m.key \in Keys
  BY MessageTyped, Zenon DEF EndsInv, EndsType, Msgs
<1>3. CASE q = p
  <2>1. Burnt(tunn[p], m.key) /\ Burnt(tunn'[p], m.key)
    BY <1>1, <1>2, <1>3, Zenon DEF Later, Spent
  <2>2. ASSUME NEW i \in Slots, Holds(tunn'[p], i, m.key)
        PROVE  m.counter \in tunn'[p].sessions[i].received
    <3>1. Holds(tunn[p], i, m.key) /\ Continues(tunn[p].sessions[i], tunn'[p].sessions[i])
      BY <1>1, <2>1, <2>2, HeldBefore, Zenon
    <3> QED
      BY <1>3, <3>1, Zenon DEF Spent, Continues
  <2> QED
    BY <1>3, <2>1, <2>2, Zenon DEF Spent
<1> QED
  BY <1>1, <1>3, Zenon

-----------------------------------------------------------------------------
(* Packets *)

(* The elements of a queue that is extended. *)
LEMMA AppendedQueue ==
  ASSUME NEW q \in Seq(Packets), NEW x \in Packets
  PROVE  /\ Elements(Append(q, x)) = Elements(q) \cup {x}
         /\ Unrepeated(q) /\ (x = Empty \/ x \notin Elements(q)) => Unrepeated(Append(q, x))
<1> DEFINE a == Append(q, x)
<1>1. /\ Len(q) \in Nat /\ Len(a) = Len(q) + 1 /\ a[Len(q) + 1] = x
      /\ \A k \in 1..Len(q) : a[k] = q[k]
  OBVIOUS
<1>2. \A k \in 1..Len(a) : k \in 1..Len(q) \/ k = Len(q) + 1
  BY <1>1
<1>3. Elements(a) = Elements(q) \cup {x}
  <2>1. Len(q) + 1 \in 1..Len(a) /\ 1..Len(q) \subseteq 1..Len(a)
    BY <1>1
  <2> HIDE DEF a
  <2> QED
    BY <1>1, <1>2, <2>1, Zenon DEF Elements
<1>4. ASSUME Unrepeated(q), x = Empty \/ x \notin Elements(q)
      PROVE  Unrepeated(a)
  <2>1. \A k \in 1..Len(q) : q[k] = x => x = Empty
    BY <1>4 DEF Elements
  <2> HIDE DEF a
  <2> QED
    BY <1>1, <1>2, <1>4, <2>1, Zenon DEF Unrepeated
<1> QED
  BY <1>3, <1>4

(* The elements of a queue whose head is taken. *)
LEMMA TakenQueue ==
  ASSUME NEW q \in Seq(Packets), q # <<>>
  PROVE  /\ Head(q) \in Packets /\ Tail(q) \in Seq(Packets)
         /\ Elements(q) = Elements(Tail(q)) \cup {Head(q)}
         /\ Unrepeated(q) => /\ Unrepeated(Tail(q))
                             /\ Head(q) = Empty \/ Head(q) \notin Elements(Tail(q))
<1> DEFINE b == Tail(q)
<1>1. /\ Len(q) \in Nat /\ Len(q) # 0 /\ Len(b) = Len(q) - 1 /\ Head(q) = q[1]
      /\ \A k \in 1..Len(b) : b[k] = q[k + 1]
      /\ Head(q) \in Packets /\ b \in Seq(Packets)
  OBVIOUS
<1>2. /\ \A k \in 1..Len(q) : k = 1 \/ k - 1 \in 1..Len(b)
      /\ \A k \in 1..Len(b) : k + 1 \in 1..Len(q) /\ k + 1 # 1
      /\ 1 \in 1..Len(q)
  BY <1>1
<1>3. \A k \in 1..Len(q) : k = 1 \/ q[k] = b[k - 1]
  BY <1>1, <1>2
<1> HIDE DEF b
<1>4. Elements(q) = Elements(b) \cup {Head(q)}
  <2>1. ASSUME NEW x \in Elements(q)
        PROVE  x \in Elements(b) \cup {Head(q)}
    <3>1. PICK k \in 1..Len(q) : x = q[k]
      BY <2>1, Zenon DEF Elements
    <3> QED
      BY <1>1, <1>2, <1>3, <3>1, Zenon DEF Elements
  <2>2. Elements(b) \cup {Head(q)} \subseteq Elements(q)
    BY <1>1, <1>2 DEF Elements
  <2> QED
    BY <2>1, <2>2, Zenon
<1>5. ASSUME Unrepeated(q)
      PROVE  Unrepeated(b) /\ (Head(q) = Empty \/ Head(q) \notin Elements(b))
  <2>1. Unrepeated(b)
    <3>1. SUFFICES ASSUME NEW k \in 1..Len(b), NEW l \in 1..Len(b), b[k] = b[l], b[k] # Empty
                   PROVE  k = l
      BY DEF Unrepeated
    <3>2. k + 1 = l + 1
      BY <1>1, <1>2, <1>5, <3>1, Zenon DEF Unrepeated
    <3> QED
      BY <1>1, <3>2
  <2>2. \A k \in 1..Len(b) : b[k] = Head(q) => Head(q) = Empty
    BY <1>1, <1>2, <1>5, Zenon DEF Unrepeated
  <2> QED
    BY <2>1, <2>2, Zenon DEF Elements
<1> QED
  BY <1>1, <1>4, <1>5 DEF b

(* A payload is not the empty one. *)
LEMMA PayloadNotEmpty ==
  /\ Empty \notin Payloads
  /\ \A p \in Peers, n \in 1..MaxPackets : Payload(p, n) \in Payloads /\ Payload(p, n).from = p
  /\ \A p, n, k : Payload(p, n) = Payload(p, k) => n = k
<1>1. \A x \in Payloads : x.n # 0
  BY PairAssumption DEF Payloads
<1>2. Empty.n = 0
  BY Zenon DEF Empty
<1> QED
  BY <1>1, <1>2, Zenon DEF Payload, Payloads

(* The packets of both endpoints, seen from a call of p that discards D. *)
LEMMA CallPackets ==
  ASSUME EndsInv, CallersType, Tally, NEW p \in Peers, NEW r, NEW ms, Call(p, r, ms),
         NEW D, D \subseteq Payloads, \A d \in D : d.from = p, dropped' = dropped \cup D,
         \A q \in Peers : q # p => submitted'[q] = submitted[q]
  PROVE  /\ OnWire(p)' = OnWire(p) \cup Loads(Written(r))
         /\ Discarded(p)' = Discarded(p) \cup D
         /\ Waiting(p)' = Elements(r.tunn.packet_queue) \ {Empty}
         /\ \A q \in Peers : q # p =>
              /\ UNCHANGED <<Given(q), Waiting(q), OnWire(q), Discarded(q)>>
              /\ tunn'[q].packet_queue = tunn[q].packet_queue
<1>1. /\ tunn'[p] = r.tunn /\ \A q \in Peers : q # p => tunn'[q] = tunn[q]
      /\ net' = net \cup Written(r)
  BY CallEnds, Zenon
<1>2. \A m \in Written(r) : m.from = p
  BY Zenon DEF Call, Advances, Writes, EndsInv, EndsType
<1>3. OnWire(p)' = OnWire(p) \cup Loads(Written(r))
  BY <1>1, <1>2, Zenon DEF OnWire, Loads
<1>4. Discarded(p)' = Discarded(p) \cup D
  BY Zenon DEF Discarded
<1>5. Waiting(p)' = Elements(r.tunn.packet_queue) \ {Empty}
  BY <1>1, Zenon DEF Waiting
<1>6. ASSUME NEW q \in Peers, q # p
      PROVE  /\ UNCHANGED <<Given(q), Waiting(q), OnWire(q), Discarded(q)>>
             /\ tunn'[q].packet_queue = tunn[q].packet_queue
  <2>1. Given(q)' = Given(q)
    BY <1>6, Zenon DEF Given
  <2>2. Waiting(q)' = Waiting(q)
    BY <1>1, <1>6, Zenon DEF Waiting
  <2>3. {m \in net' : m.from = q} = {m \in net : m.from = q}
    BY <1>1, <1>2, <1>6, Zenon
  <2>4. OnWire(q)' = OnWire(q)
    BY <2>3, Zenon DEF OnWire
  <2>5. Discarded(q)' = Discarded(q)
    BY <1>6, Zenon DEF Discarded
  <2> QED
    BY <1>1, <1>6, <2>1, <2>2, <2>4, <2>5, Zenon
<1> QED
  BY <1>3, <1>4, <1>5, <1>6, Zenon

(* A packet goes from one place to another. *)
LEMMA SplitsMove ==
  ASSUME NEW S, NEW X, NEW Y, NEW Z, Splits(S, X, Y, Z), NEW x \in X
  PROVE  Splits(S, X \ {x}, Y \cup {x}, Z)
BY DEF Splits

(* Packets of p carry its name. *)
LEMMA OwnPackets ==
  ASSUME CallersType, Tally, NEW p \in Peers
  PROVE  /\ \A x \in Given(p) : x \in Payloads /\ x.from = p /\ x # Empty
         /\ Waiting(p) \subseteq Given(p) /\ OnWire(p) \subseteq Given(p)
         /\ Discarded(p) \subseteq Given(p)
<1>1. submitted[p] \in 0..MaxPackets /\ MaxPackets \in Nat
  BY PairAssumption DEF CallersType
<1>2. \A n \in 1..submitted[p] : n \in 1..MaxPackets
  BY <1>1
<1>3. \A x \in Given(p) : x \in Payloads /\ x.from = p /\ x # Empty
  BY <1>2, PayloadNotEmpty, Zenon DEF Given
<1> QED
  BY <1>3, Zenon DEF Tally, Splits

(* A packet is sealed once: one that is sent now was not on the wire. *)
LEMMA CallSealedOnce ==
  ASSUME EndsInv, CallersType, Tally, SealedOnce, NEW p \in Peers, NEW r, NEW ms, Call(p, r, ms),
         Loads(Written(r)) \cap OnWire(p) = {}, \A x \in Loads(Written(r)) : x.from = p
  PROVE  SealedOnce'
<1>1. net' = net \cup Written(r)
  BY CallEnds, Zenon
<1>2. \A m, n \in Written(r) : m = n
  BY Zenon DEF Written
<1>3. ASSUME NEW m \in Msgs("data"), NEW n \in Written(r), n.type = "data",
             m.payload = n.payload, m.payload # Empty
      PROVE  FALSE
  <2>1. m \in net /\ m.type = "data" /\ m.from \in Peers
    BY MessageTyped, Zenon DEF Msgs, EndsInv, EndsType
  <2>2. n.payload \in Loads(Written(r))
    BY <1>3, Zenon DEF Loads
  <2>3. m.payload \in OnWire(m.from)
    BY <1>3, <2>1, Zenon DEF OnWire, Loads
  <2>4. m.payload.from = m.from
    BY <2>1, <2>3, OwnPackets, Zenon
  <2> QED
    BY <1>3, <2>2, <2>3, <2>4, Zenon
<1>4. \A m \in Msgs("data")' : m \in Msgs("data") \/ (m \in Written(r) /\ m.type = "data")
  BY <1>1, Zenon DEF Msgs
<1> QED
  BY <1>2, <1>3, <1>4, Zenon DEF SealedOnce

(* What was delivered stays spent. *)
LEMMA CallDelivered ==
  ASSUME EndsInv, NEW p \in Peers, NEW r, NEW ms, Call(p, r, ms),
         NEW m \in Msgs("data"), \A q \in Peers \ {m.from} : Spent(tunn[q], m)
  PROVE  m \in Msgs("data")' /\ \A q \in Peers \ {m.from} : Spent(tunn'[q], m)
BY CallEnds, SpentStays, Zenon DEF Msgs

(* A call that delivers nothing keeps what is known of the packets         *)
(* delivered.                                                              *)
LEMMA DeliveryKept ==
  ASSUME EndsInv, DeliveryInv, NEW p \in Peers, NEW r, NEW ms, Call(p, r, ms),
         UNCHANGED delivered
  PROVE  DeliveryInv'
<1>1. ASSUME NEW x \in Payloads, delivered[x] > 0
      PROVE  \E m \in Msgs("data")' : /\ m.payload = x
                                      /\ \A q \in Peers \ {m.from} : Spent(tunn'[q], m)
  <2>1. PICK m \in Msgs("data") : /\ m.payload = x
                                  /\ \A q \in Peers \ {m.from} : Spent(tunn[q], m)
    BY <1>1, Zenon DEF DeliveryInv
  <2>2. m \in Msgs("data")' /\ \A q \in Peers \ {m.from} : Spent(tunn'[q], m)
    BY <2>1, CallDelivered
  <2> QED
    BY <2>1, <2>2, Zenon
<1> QED
  BY <1>1, Zenon DEF DeliveryInv


-----------------------------------------------------------------------------
(* The invariant is kept by every step *)

(* What is left to show of a call, once its place in the pair is known. *)
LEMMA CallKeepsPair ==
  ASSUME PairInv, NEW p \in Peers, NEW r, NEW ms, Call(p, r, ms),
         NEW D, D \subseteq Payloads, \A d \in D : d.from = p, dropped' = dropped \cup D,
         \A q \in Peers : q # p => submitted'[q] = submitted[q] /\ flush'[q] = flush[q],
         CallersType', DeliveryInv',
         Splits(Given(p), Waiting(p), OnWire(p), Discarded(p))',
         Unrepeated(r.tunn.packet_queue),
         Loads(Written(r)) \cap OnWire(p) = {}, \A x \in Loads(Written(r)) : x.from = p,
         (r.tunn.packet_queue # <<>> /\ ~flush'[p]) => r.tunn.state.tag = "InitSent"
  PROVE  PairInv'
<1>1. EndsInv /\ CallersType /\ Tally /\ SealedOnce /\ NoStuckQueue
  BY DEF PairInv
<1>2. EndsInv'
  BY <1>1, CallKeepsEnds
<1>3. tunn'[p] = r.tunn /\ \A q \in Peers : q # p => tunn'[q] = tunn[q]
  BY <1>1, CallEnds, ZenonT(30)
<1>4. SealedOnce'
  BY <1>1, CallSealedOnce
<1>5. Tally'
  <2>1. \A q \in Peers : q # p =>
          /\ UNCHANGED <<Given(q), Waiting(q), OnWire(q), Discarded(q)>>
          /\ tunn'[q].packet_queue = tunn[q].packet_queue
    BY <1>1, CallPackets, Zenon
  <2>2. ASSUME NEW q \in Peers, q # p
        PROVE  /\ Splits(Given(q), Waiting(q), OnWire(q), Discarded(q))'
               /\ Unrepeated(tunn'[q].packet_queue)
    <3>1. /\ Splits(Given(q), Waiting(q), OnWire(q), Discarded(q))
          /\ Unrepeated(tunn[q].packet_queue)
      BY <1>1 DEF Tally
    <3> QED
      BY <2>1, <2>2, <3>1, ZenonT(30)
  <2> QED
    BY <1>3, <2>2, Zenon DEF Tally
<1>6. NoStuckQueue'
  BY <1>1, <1>3 DEF NoStuckQueue
<1> QED
  BY <1>2, <1>4, <1>5, <1>6 DEF PairInv

(* Where a packet x of p went. *)
Enters(p, x) ==
  \/ Waiting(p)' = Waiting(p) \cup {x} /\ UNCHANGED <<OnWire(p), Discarded(p)>>
  \/ OnWire(p)' = OnWire(p) \cup {x} /\ UNCHANGED <<Waiting(p), Discarded(p)>>
  \/ Discarded(p)' = Discarded(p) \cup {x} /\ UNCHANGED <<Waiting(p), OnWire(p)>>

Elsewhere(p) ==
  \A q \in Peers : q # p => UNCHANGED <<Given(q), Waiting(q), OnWire(q), Discarded(q)>>

(* Tunn::encapsulate: the packet is sent, queued or, if the queue is full, *)
(* dropped.                                                                *)
LEMMA EncapsulateStep ==
  ASSUME PairInv, NEW p \in Peers, Encapsulate(p)
  PROVE  /\ PairInv' /\ Elsewhere(p) /\ UNCHANGED delivered
         /\ \E x \in Payloads : x.from = p /\ x \notin Given(p) /\ Enters(p, x)
<1> DEFINE t == tunn[p]
           src == Payload(p, submitted[p] + 1)
           r == encapsulate(t, src, now)
           full == CurrentSession(t) = NoSession /\ Len(t.packet_queue) = MAX_QUEUE_DEPTH
           D == IF full THEN {src} ELSE {}
<1>1. EndsInv /\ CallersType /\ Tally /\ SealedOnce /\ NoStuckQueue /\ DeliveryInv
  BY DEF PairInv
<1>2. /\ TunnType(t, Packets) /\ Sound(t) /\ Blank(t) /\ now \in Nat
      /\ submitted \in [Peers -> 0..MaxPackets] /\ MaxPackets \in Nat
  BY <1>1, PairAssumption DEF EndsInv, EndsType, CallersType
<1>3. /\ submitted[p] < MaxPackets /\ submitted' = [submitted EXCEPT ![p] = @ + 1]
      /\ Apply(p, r) /\ dropped' = dropped \cup D
      /\ UNCHANGED <<bound, now, flush, forced, delivered>>
  BY DEF Encapsulate
<1>4. /\ submitted[p] \in Nat /\ submitted[p] + 1 \in 1..MaxPackets
      /\ submitted' \in [Peers -> 0..MaxPackets] /\ submitted'[p] = submitted[p] + 1
      /\ \A q \in Peers : q # p => submitted'[q] = submitted[q]
  BY <1>2, <1>3
<1>5. /\ src \in Payloads /\ src.from = p /\ src # Empty /\ src \in Packets
  BY <1>4, PayloadNotEmpty DEF Packets
<1>6. Given(p)' = Given(p) \cup {src}
  <2>1. 1..(submitted[p] + 1) = 1..submitted[p] \cup {submitted[p] + 1}
    BY <1>4
  <2> QED
    BY <1>4, <2>1 DEF Given
<1>7. src \notin Given(p)
  <2>1. \A n \in 1..submitted[p] : n # submitted[p] + 1
    BY <1>4
  <2> QED
    BY <2>1, PayloadNotEmpty DEF Given
<1>8. /\ Waiting(p) \subseteq Given(p) /\ OnWire(p) \subseteq Given(p)
      /\ Discarded(p) \subseteq Given(p)
      /\ Splits(Given(p), Waiting(p), OnWire(p), Discarded(p))
      /\ Unrepeated(t.packet_queue)
  BY <1>1, OwnPackets DEF Tally
<1>9. /\ t.packet_queue \in Seq(Packets) /\ Len(t.packet_queue) <= MAX_QUEUE_DEPTH
      /\ Waiting(p) = Elements(t.packet_queue) \ {Empty}
  BY <1>2, PairTyped DEF Waiting
<1>10. Advances(t, r, {}) /\ Encapsulated(t, r, src)
  BY <1>2, <1>5, EncapsulateAdvances DEF Blank
<1> HIDE DEF src, r, t
<1>11. Call(p, r, {})
  BY <1>3, <1>10 DEF Call, t
<1>12. D \subseteq Payloads /\ \A d \in D : d.from = p
  BY <1>5
<1>13. /\ OnWire(p)' = OnWire(p) \cup Loads(Written(r))
       /\ Discarded(p)' = Discarded(p) \cup D
       /\ Waiting(p)' = Elements(r.tunn.packet_queue) \ {Empty}
       /\ Elsewhere(p)
  <2> HIDE DEF D
  <2> QED
    BY <1>1, <1>3, <1>4, <1>11, <1>12, CallPackets, ZenonT(30) DEF Elsewhere
<1>14. CallersType'
  BY <1>1, <1>3, <1>4, <1>12 DEF CallersType
<1>15. DeliveryInv'
  BY <1>1, <1>3, <1>11, DeliveryKept
<1>16. /\ Enters(p, src) /\ Unrepeated(r.tunn.packet_queue)
       /\ Loads(Written(r)) \subseteq {src}
       /\ (r.tunn.packet_queue # <<>> /\ ~flush'[p]) => r.tunn.state.tag = "InitSent"
  <2>1. CASE CurrentSession(t) # NoSession
    <3>1. /\ r.tunn.packet_queue = t.packet_queue /\ r.tunn.state = t.state
          /\ Written(r) = {r.msg} /\ r.msg.type = "data" /\ r.msg.payload = src
      BY <1>10, <2>1 DEF Encapsulated
    <3>2. Loads(Written(r)) = {src} /\ D = {}
      BY <1>5, <2>1, <3>1 DEF Loads
    <3>3. (t.packet_queue # <<>> /\ ~flush'[p]) => t.state.tag = "InitSent"
      BY <1>1, <1>3, Zenon DEF NoStuckQueue, t
    <3> HIDE DEF D
    <3> QED
      BY <1>8, <1>9, <1>13, <3>1, <3>2, <3>3, Zenon DEF Enters
  <2>2. CASE CurrentSession(t) = NoSession /\ Len(t.packet_queue) < MAX_QUEUE_DEPTH
    <3>1. /\ r.tunn.packet_queue = Append(t.packet_queue, src)
          /\ Silent(r) /\ r.tunn.state.tag = "InitSent"
      BY <1>10, <2>2 DEF Encapsulated
    <3>2. Loads(Written(r)) = {} /\ D = {}
      BY <1>9, <2>2, <3>1, TunnAssumption DEF Loads, Silent
    <3>3. src \notin Elements(t.packet_queue)
      BY <1>5, <1>7, <1>8, <1>9, Zenon
    <3>4. /\ Elements(r.tunn.packet_queue) = Elements(t.packet_queue) \cup {src}
          /\ Unrepeated(r.tunn.packet_queue)
      BY <1>5, <1>8, <1>9, <3>1, <3>3, AppendedQueue, ZenonT(30)
    <3> HIDE DEF D
    <3> QED
      BY <1>5, <1>9, <1>13, <3>1, <3>2, <3>4, Zenon DEF Enters
  <2>3. CASE CurrentSession(t) = NoSession /\ ~(Len(t.packet_queue) < MAX_QUEUE_DEPTH)
    <3>1. /\ r.tunn.packet_queue = t.packet_queue
          /\ Silent(r) /\ r.tunn.state.tag = "InitSent"
      BY <1>10, <2>3, Zenon DEF Encapsulated
    <3>2. Loads(Written(r)) = {} /\ D = {src}
      BY <1>9, <2>3, <3>1, TunnAssumption DEF Loads, Silent
    <3> HIDE DEF D
    <3> QED
      BY <1>8, <1>9, <1>13, <3>1, <3>2, Zenon DEF Enters
  <2> QED
    BY <2>1, <2>2, <2>3
<1>17. Splits(Given(p), Waiting(p), OnWire(p), Discarded(p))'
  BY <1>6, <1>7, <1>8, <1>16 DEF Splits, Enters
<1>18. PairInv'
  <2>1. /\ Loads(Written(r)) \cap OnWire(p) = {} /\ \A x \in Loads(Written(r)) : x.from = p
    BY <1>5, <1>7, <1>8, <1>16, Zenon
  <2> HIDE DEF D
  <2> QED
    BY <1>3, <1>4, <1>11, <1>12, <1>14, <1>15, <1>16, <1>17, <2>1, CallKeepsPair, ZenonT(30)
<1> QED
  BY <1>3, <1>5, <1>7, <1>13, <1>16, <1>18, ZenonT(30)

(* A call that moves no packet. *)
Same(p) == UNCHANGED <<Given(p), Waiting(p), OnWire(p), Discarded(p)>>

(* It keeps the invariant, and every packet stays where it is. *)
LEMMA QuietCall ==
  ASSUME PairInv, NEW p \in Peers, NEW r, NEW ms, Call(p, r, ms),
         UNCHANGED <<submitted, dropped>>, CallersType', DeliveryInv',
         \A q \in Peers : q # p => flush'[q] = flush[q],
         Loads(Written(r)) = {}, Elements(r.tunn.packet_queue) \ {Empty} = Waiting(p),
         Unrepeated(r.tunn.packet_queue),
         (r.tunn.packet_queue # <<>> /\ ~flush'[p]) => r.tunn.state.tag = "InitSent"
  PROVE  PairInv' /\ Elsewhere(p) /\ Same(p)
<1>1. EndsInv /\ CallersType /\ Tally
  BY DEF PairInv
<1>2. PICK D : D = {}
  OBVIOUS
<1>3. /\ D \subseteq Payloads /\ (\A d \in D : d.from = p) /\ dropped' = dropped \cup D
      /\ \A q \in Peers : q # p => submitted'[q] = submitted[q]
  BY <1>2
<1>4. /\ OnWire(p)' = OnWire(p) \cup Loads(Written(r))
      /\ Discarded(p)' = Discarded(p) \cup D
      /\ Waiting(p)' = Elements(r.tunn.packet_queue) \ {Empty}
      /\ Elsewhere(p)
  BY <1>1, <1>3, CallPackets, Zenon DEF Elsewhere
<1>5. Same(p)
  BY <1>2, <1>4, Zenon DEF Same, Given
<1>6. Splits(Given(p), Waiting(p), OnWire(p), Discarded(p))'
  BY <1>1, <1>5, ZenonT(30) DEF Tally, Same
<1>7. Loads(Written(r)) \cap OnWire(p) = {} /\ \A x \in Loads(Written(r)) : x.from = p
  OBVIOUS
<1>8. PairInv'
  BY <1>3, <1>6, <1>7, CallKeepsPair, ZenonT(30)
<1> QED
  BY <1>4, <1>5, <1>8, Zenon

(* The parts of the invariant that a call of p starts from. *)
LEMMA PairFacts ==
  ASSUME PairInv, NEW p \in Peers
  PROVE  /\ EndsInv /\ CallersType /\ Tally /\ SealedOnce /\ DeliveryInv
         /\ TunnType(tunn[p], Packets) /\ Sound(tunn[p]) /\ Blank(tunn[p]) /\ now \in Nat
         /\ tunn[p].packet_queue \in Seq(Packets)
         /\ Waiting(p) = Elements(tunn[p].packet_queue) \ {Empty}
         /\ Unrepeated(tunn[p].packet_queue)
         /\ (tunn[p].packet_queue # <<>> /\ ~flush[p]) => tunn[p].state.tag = "InitSent"
         /\ flush \in [Peers -> BOOLEAN]
         /\ Splits(Given(p), Waiting(p), OnWire(p), Discarded(p))
<1>1. EndsInv /\ CallersType /\ Tally /\ SealedOnce /\ NoStuckQueue /\ DeliveryInv
  BY DEF PairInv
<1>2. /\ TunnType(tunn[p], Packets) /\ Sound(tunn[p]) /\ Blank(tunn[p]) /\ now \in Nat
      /\ flush \in [Peers -> BOOLEAN]
  BY <1>1 DEF EndsInv, EndsType, CallersType
<1> QED
  BY <1>1, <1>2, PairTyped, Zenon DEF Waiting, Tally, NoStuckQueue

(* wireguard_force_handshake *)
LEMMA ForceStep ==
  ASSUME PairInv, NEW p \in Peers, ForceHandshake(p)
  PROVE  PairInv' /\ Elsewhere(p) /\ Same(p) /\ UNCHANGED delivered
<1> DEFINE r == format_handshake_initiation(tunn[p], TRUE, now)
<1>1. Apply(p, r) /\ UNCHANGED <<bound, now, flush, submitted, dropped, delivered>>
  BY Zenon DEF ForceHandshake
<1>2. /\ Advances(tunn[p], r, {}) /\ Silent(r) /\ r.tunn.state.tag = "InitSent"
      /\ r.tunn.packet_queue = tunn[p].packet_queue
  BY PairFacts, ForceAdvances, ZenonT(30)
<1> HIDE DEF r
<1>3. Call(p, r, {})
  BY <1>1, <1>2 DEF Call
<1>4. Loads(Written(r)) = {}
  BY <1>2, Zenon DEF Silent, Loads
<1>5. CallersType' /\ DeliveryInv'
  BY <1>1, <1>3, PairFacts, DeliveryKept, Zenon DEF CallersType
<1>6. /\ Elements(r.tunn.packet_queue) \ {Empty} = Waiting(p)
      /\ Unrepeated(r.tunn.packet_queue)
  BY <1>2, PairFacts, Zenon
<1> QED
  BY <1>1, <1>2, <1>3, <1>4, <1>5, <1>6, QuietCall, ZenonT(30)

(* Tunn::decapsulate of the empty datagram: the head of the queue is sent, *)
(* or nothing moves.                                                       *)
LEMMA SendQueuedStep ==
  ASSUME PairInv, NEW p \in Peers, SendQueued(p)
  PROVE  /\ PairInv' /\ Elsewhere(p) /\ UNCHANGED delivered
         /\ \/ Same(p)
            \/ \E x \in Waiting(p) : /\ Waiting(p)' = Waiting(p) \ {x}
                                     /\ OnWire(p)' = OnWire(p) \cup {x}
                                     /\ UNCHANGED <<Given(p), Discarded(p)>>
<1> DEFINE t == tunn[p]
           q == t.packet_queue
           r == send_queued_packet(t, now)
<1>0. /\ EndsInv /\ CallersType /\ Tally /\ SealedOnce /\ DeliveryInv
      /\ TunnType(t, Packets) /\ Sound(t) /\ Blank(t) /\ now \in Nat
      /\ q \in Seq(Packets) /\ Waiting(p) = Elements(q) \ {Empty} /\ Unrepeated(q)
      /\ flush \in [Peers -> BOOLEAN]
      /\ Splits(Given(p), Waiting(p), OnWire(p), Discarded(p))
  BY PairFacts, Zenon
<1>1. /\ Apply(p, r) /\ flush' = [flush EXCEPT ![p] = r.kind = "WriteToNetwork"]
      /\ UNCHANGED <<bound, now, submitted, dropped, delivered>>
  BY DEF SendQueued
<1>2. Advances(t, r, {}) /\ Flushed(t, r)
  BY <1>0, FlushAdvances
<1> HIDE DEF r
<1>3. Call(p, r, {})
  BY <1>1, <1>2 DEF Call
<1>4. /\ flush' \in [Peers -> BOOLEAN] /\ flush'[p] = (r.kind = "WriteToNetwork")
      /\ \A e \in Peers : e # p => flush'[e] = flush[e]
  BY <1>0, <1>1, Zenon
<1>5. CallersType' /\ DeliveryInv'
  BY <1>0, <1>1, <1>3, <1>4, DeliveryKept, Zenon DEF CallersType
<1>6. CASE q = <<>>
  <2>1. r.tunn.packet_queue = q /\ Loads(Written(r)) = {}
    BY <1>2, <1>6, Zenon DEF Flushed, Loads
  <2> QED
    BY <1>0, <1>1, <1>3, <1>4, <1>5, <1>6, <2>1, QuietCall, Zenon
<1>7. CASE q # <<>>
  <2>0. /\ Head(q) \in Packets /\ Tail(q) \in Seq(Packets)
        /\ Elements(q) = Elements(Tail(q)) \cup {Head(q)}
        /\ Unrepeated(Tail(q)) /\ (Head(q) = Empty \/ Head(q) \notin Elements(Tail(q)))
    BY <1>0, <1>7, TakenQueue, Zenon
  <2>1. CASE /\ r.tunn.packet_queue = Append(Tail(q), Head(q))
             /\ Silent(r) /\ r.tunn.state.tag = "InitSent"
    <3>1. /\ Elements(r.tunn.packet_queue) = Elements(q) /\ Unrepeated(r.tunn.packet_queue)
      BY <2>0, <2>1, AppendedQueue, ZenonT(30)
    <3>2. Loads(Written(r)) = {}
      BY <2>1 DEF Silent, Loads
    <3> QED
      BY <1>0, <1>1, <1>3, <1>4, <1>5, <2>1, <3>1, <3>2, QuietCall, ZenonT(30)
  <2>2. CASE /\ r.tunn.packet_queue = Tail(q) /\ r.kind = "WriteToNetwork"
             /\ Written(r) = {r.msg} /\ r.msg.type = "data" /\ r.msg.payload = Head(q)
    <3>1. Loads(Written(r)) = {Head(q)} \ {Empty} /\ flush'[p]
      BY <1>4, <2>2 DEF Loads
    <3>2. CASE Head(q) = Empty
      <4>1. /\ Loads(Written(r)) = {} /\ Elements(r.tunn.packet_queue) \ {Empty} = Waiting(p)
            /\ Unrepeated(r.tunn.packet_queue)
        BY <1>0, <2>0, <2>2, <3>1, <3>2, Zenon
      <4> QED
        BY <1>1, <1>3, <1>4, <1>5, <3>1, <4>1, QuietCall, Zenon
    <3>3. CASE Head(q) # Empty
      <4> DEFINE x == Head(q)
      <4>1. /\ Loads(Written(r)) = {x} /\ x \in Waiting(p)
            /\ Elements(r.tunn.packet_queue) \ {Empty} = Waiting(p) \ {x}
            /\ Unrepeated(r.tunn.packet_queue)
        BY <1>0, <2>0, <2>2, <3>1, <3>3, ZenonT(30)
      <4> HIDE DEF x
      <4>2. PICK D : D = {}
        BY Zenon
      <4>3. /\ D \subseteq Payloads /\ (\A d \in D : d.from = p) /\ dropped' = dropped \cup D
            /\ \A e \in Peers : e # p => submitted'[e] = submitted[e]
        BY <1>1, <4>2
      <4>4. /\ OnWire(p)' = OnWire(p) \cup Loads(Written(r))
            /\ Discarded(p)' = Discarded(p) \cup D
            /\ Waiting(p)' = Elements(r.tunn.packet_queue) \ {Empty}
            /\ Elsewhere(p)
        BY <1>0, <1>3, <4>3, CallPackets, Zenon DEF Elsewhere
      <4>5. /\ OnWire(p)' = OnWire(p) \cup {x} /\ Waiting(p)' = Waiting(p) \ {x}
            /\ Discarded(p)' = Discarded(p) /\ Given(p)' = Given(p)
        BY <1>1, <4>1, <4>2, <4>4, Zenon DEF Given
      <4>6. Splits(Given(p), Waiting(p), OnWire(p), Discarded(p))'
        <5>1. Splits(Given(p), Waiting(p) \ {x}, OnWire(p) \cup {x}, Discarded(p))
          BY ONLY <1>0, <4>1, SplitsMove, Zenon
        <5> QED
          BY ONLY <4>5, <5>1, Zenon DEF Splits
      <4>7. /\ Loads(Written(r)) \cap OnWire(p) = {}
            /\ \A y \in Loads(Written(r)) : y.from = p
        <5>1. x \notin OnWire(p)
          BY ONLY <1>0, <4>1, Zenon DEF Splits
        <5>2. x.from = p
          BY <1>0, <4>1, OwnPackets, Zenon
        <5> QED
          BY ONLY <4>1, <5>1, <5>2, Zenon
      <4>8. PairInv'
        <5>1. \A e \in Peers : e # p => submitted'[e] = submitted[e] /\ flush'[e] = flush[e]
          BY <1>4, <4>3, Zenon
        <5>2. (r.tunn.packet_queue # <<>> /\ ~flush'[p]) => r.tunn.state.tag = "InitSent"
          BY <3>1, Zenon
        <5>3. Unrepeated(r.tunn.packet_queue)
          BY <4>1, Zenon
        <5> QED
          BY <1>3, <1>5, <4>3, <4>6, <4>7, <5>1, <5>2, <5>3, CallKeepsPair, ZenonT(30)
      <4> QED
        BY <1>1, <4>1, <4>4, <4>5, <4>8, Zenon
    <3> QED
      BY <3>2, <3>3
  <2> QED
    BY <1>2, <1>7, <2>1, <2>2, Zenon DEF Flushed
<1> QED
  BY <1>6, <1>7, Zenon

(* update_timers: a connection that expires discards what waits; otherwise *)
(* no packet moves.                                                        *)
LEMMA UpdateTimersStep ==
  ASSUME PairInv, NEW p \in Peers, UpdateTimers(p)
  PROVE  /\ PairInv' /\ Elsewhere(p) /\ UNCHANGED delivered
         /\ \/ Same(p)
            \/ /\ Waiting(p)' = {} /\ Discarded(p)' = Discarded(p) \cup Waiting(p)
               /\ UNCHANGED <<Given(p), OnWire(p)>>
<1> DEFINE t == tunn[p]
           q == t.packet_queue
           r == update_timers(t, now)
<1>0. /\ EndsInv /\ CallersType /\ Tally /\ DeliveryInv
      /\ TunnType(t, Packets) /\ Sound(t) /\ Blank(t) /\ now \in Nat
      /\ q \in Seq(Packets) /\ Waiting(p) = Elements(q) \ {Empty} /\ Unrepeated(q)
      /\ (q # <<>> /\ ~flush[p]) => t.state.tag = "InitSent"
      /\ Splits(Given(p), Waiting(p), OnWire(p), Discarded(p))
  BY PairFacts, Zenon
<1>1. /\ Apply(p, r) /\ UNCHANGED <<bound, now, flush, submitted, delivered>>
      /\ dropped' = IF r.kind = "ConnectionExpired" THEN dropped \cup (Elements(q) \ {Empty})
                                                     ELSE dropped
  BY Zenon DEF UpdateTimers
<1>2. Advances(t, r, {}) /\ Ticked(t, r)
  BY <1>0, TimersAdvance, Zenon
<1> HIDE DEF r
<1>3. Call(p, r, {})
  BY <1>1, <1>2, Zenon DEF Call
<1>4. DeliveryInv'
  BY <1>0, <1>1, <1>3, DeliveryKept, Zenon
<1>5. Waiting(p) \subseteq Payloads /\ \A d \in Waiting(p) : d.from = p
  BY <1>0, OwnPackets, Zenon
<1>6. CASE r.kind = "ConnectionExpired"
  <2>1. r.tunn.packet_queue = <<>> /\ Written(r) = {}
    BY <1>2, <1>6, Zenon DEF Ticked
  <2>2. Loads(Written(r)) = {} /\ Elements(r.tunn.packet_queue) = {}
    BY <2>1 DEF Loads, Elements
  <2>3. /\ dropped' = dropped \cup Waiting(p)
        /\ \A e \in Peers : e # p => submitted'[e] = submitted[e]
    BY <1>0, <1>1, <1>6, Zenon
  <2>4. /\ OnWire(p)' = OnWire(p) \cup Loads(Written(r))
        /\ Discarded(p)' = Discarded(p) \cup Waiting(p)
        /\ Waiting(p)' = Elements(r.tunn.packet_queue) \ {Empty}
        /\ Elsewhere(p)
    BY <1>0, <1>3, <1>5, <2>3, CallPackets, ZenonT(30) DEF Elsewhere
  <2>5. /\ Waiting(p)' = {} /\ OnWire(p)' = OnWire(p) /\ Given(p)' = Given(p)
    BY <1>1, <2>2, <2>4, Zenon DEF Given
  <2>6. Splits(Given(p), Waiting(p), OnWire(p), Discarded(p))'
    BY <1>0, <2>4, <2>5, ZenonT(30) DEF Splits
  <2>7. CallersType'
    BY <1>0, <1>1, <1>5, <2>3, Zenon DEF CallersType
  <2>8. Unrepeated(r.tunn.packet_queue)
    BY <2>1 DEF Unrepeated
  <2>9. PairInv'
    <3>1. \A e \in Peers : e # p => submitted'[e] = submitted[e] /\ flush'[e] = flush[e]
      BY <1>1
    <3>2. Loads(Written(r)) \cap OnWire(p) = {} /\ \A x \in Loads(Written(r)) : x.from = p
      BY <2>2, Zenon
    <3> QED
      BY <1>3, <1>4, <1>5, <2>1, <2>3, <2>6, <2>7, <2>8, <3>1, <3>2, CallKeepsPair, ZenonT(30)
  <2> QED
    BY <1>1, <2>4, <2>5, <2>9, Zenon
<1>7. CASE r.kind # "ConnectionExpired"
  <2>1. UNCHANGED <<submitted, dropped, flush>> /\ CallersType'
    BY <1>0, <1>1, <1>7, Zenon DEF CallersType
  <2>2. Loads(Written(r)) = {}
    BY <1>2, <1>7, Zenon DEF Ticked, Carries, Loads
  <2>3. /\ Elements(r.tunn.packet_queue) \ {Empty} = Waiting(p)
        /\ Unrepeated(r.tunn.packet_queue)
        /\ (r.tunn.packet_queue # <<>> /\ ~flush'[p]) => r.tunn.state.tag = "InitSent"
    <3>1. CASE /\ r.tunn.packet_queue = q
               /\ t.state.tag = "InitSent" => r.tunn.state.tag = "InitSent"
      BY <1>0, <2>1, <3>1, Zenon
    <3>2. CASE r.tunn.packet_queue = Append(q, Empty) /\ r.tunn.state.tag = "InitSent"
      <4>1. Empty \in Packets
        BY Zenon DEF Packets
      <4>2. /\ Elements(r.tunn.packet_queue) = Elements(q) \cup {Empty}
            /\ Unrepeated(r.tunn.packet_queue)
        BY <1>0, <3>2, <4>1, AppendedQueue, Zenon
      <4> QED
        BY <1>0, <3>2, <4>2, Zenon
    <3> QED
      BY <1>2, <1>7, <3>1, <3>2, Zenon DEF Ticked
  <2>4. \A e \in Peers : e # p => flush'[e] = flush[e]
    BY <2>1, Zenon
  <2> QED
    BY <1>1, <1>3, <1>4, <2>1, <2>2, <2>3, <2>4, QuietCall, Zenon
<1> QED
  BY <1>6, <1>7, Zenon

(* Tunn::decapsulate of a datagram: a payload is delivered for the first   *)
(* time, or none is.                                                       *)
LEMMA DecapsulateStep ==
  ASSUME PairInv, NEW p \in Peers, Decapsulate(p)
  PROVE  /\ PairInv' /\ Elsewhere(p) /\ Same(p)
         /\ \/ UNCHANGED delivered
            \/ \E x \in Payloads : /\ x \in OnWire(x.from) /\ delivered[x] = 0
                                   /\ delivered' = [delivered EXCEPT ![x] = 1]
<1> DEFINE t == tunn[p]
           q == t.packet_queue
<1>0. /\ EndsInv /\ CallersType /\ Tally /\ DeliveryInv /\ SealedOnce
      /\ TunnType(t, Packets) /\ Sound(t) /\ Blank(t) /\ now \in Nat
      /\ Waiting(p) = Elements(q) \ {Empty} /\ Unrepeated(q)
      /\ (q # <<>> /\ ~flush[p]) => t.state.tag = "InitSent"
      /\ flush \in [Peers -> BOOLEAN]
  BY PairFacts, Zenon
<1>1. PICK m \in net :
        /\ m.from # p
        /\ LET r == handle_verified_packet(t, m, now) IN
           /\ Apply(p, r)
           /\ flush' = [flush EXCEPT ![p] = @ \/ r.kind = "WriteToNetwork"]
           /\ delivered' = IF r.kind = "WriteToTunnel"
                           THEN [delivered EXCEPT ![m.payload] = @ + 1] ELSE delivered
  BY Zenon DEF Decapsulate
<1> DEFINE r == handle_verified_packet(t, m, now)
<1>2. UNCHANGED <<bound, now, submitted, forced, dropped>>
  BY Zenon DEF Decapsulate
<1>3. m \in MessageType /\ m.from \in Peers /\ t.me = p
  BY <1>0, MessageTyped DEF EndsInv, EndsType
<1>4. Advances(t, r, {m}) /\ Received(t, r, m)
  BY <1>0, <1>1, <1>3, DecapsulateAdvances, Zenon
<1>5. /\ Apply(p, r)
      /\ flush' = [flush EXCEPT ![p] = flush[p] \/ r.kind = "WriteToNetwork"]
      /\ delivered' = IF r.kind = "WriteToTunnel"
                      THEN [delivered EXCEPT ![m.payload] = @ + 1] ELSE delivered
  BY <1>0, <1>1, Zenon
<1> HIDE DEF r
<1>6. Call(p, r, {m})
  BY <1>4, <1>5, Zenon DEF Call
<1>7. /\ flush' \in [Peers -> BOOLEAN] /\ \A e \in Peers : e # p => flush'[e] = flush[e]
      /\ flush'[p] <=> (flush[p] \/ r.kind = "WriteToNetwork")
  <2>1. (flush[p] \/ r.kind = "WriteToNetwork") \in BOOLEAN
    BY <1>0, Zenon
  <2> QED
    BY <1>0, <1>5, <2>1, ZenonT(30)
<1>8. r.tunn.packet_queue = q /\ Loads(Written(r)) = {}
  BY <1>4, Zenon DEF Received, Carries, Loads
<1>9. (r.tunn.packet_queue # <<>> /\ ~flush'[p]) => r.tunn.state.tag = "InitSent"
  BY <1>0, <1>4, <1>7, <1>8, Zenon DEF Received
<1>10. CASE r.kind # "WriteToTunnel"
  <2>1. UNCHANGED delivered
    BY <1>5, <1>10
  <2>2. CallersType' /\ DeliveryInv'
    BY <1>0, <1>2, <1>6, <1>7, <2>1, DeliveryKept, Zenon DEF CallersType
  <2> QED
    BY <1>0, <1>2, <1>6, <1>7, <1>8, <1>9, <2>1, <2>2, QuietCall, ZenonT(30)
<1>11. CASE r.kind = "WriteToTunnel"
  <2> DEFINE x == m.payload
  <2>1. /\ m.type = "data" /\ x # Empty /\ Spent(r.tunn, m) /\ ~Spent(t, m)
    BY <1>4, <1>11, Zenon DEF Received
  <2>2. /\ m \in Msgs("data") /\ x \in Payloads
    BY <1>3, <2>1, MessageTyped, Zenon DEF Msgs, Packets
  <2>3. x \in OnWire(m.from)
    BY <2>1, Zenon DEF OnWire, Loads
  <2>4. x.from = m.from
    BY <1>0, <1>3, <2>3, OwnPackets, Zenon
  <2>5. delivered \in [Payloads -> Nat]
    BY <1>0 DEF CallersType
  <2>6. delivered[x] = 0
    <3>1. ASSUME delivered[x] > 0
          PROVE  FALSE
      <4>1. PICK n \in Msgs("data") : /\ n.payload = x
                                      /\ \A e \in Peers \ {n.from} : Spent(tunn[e], n)
        BY <1>0, <2>2, <3>1, Zenon DEF DeliveryInv
      <4>2. n = m
        BY <1>0, <2>1, <2>2, <4>1, Zenon DEF SealedOnce
      <4> QED
        BY <1>1, <2>1, <4>1, <4>2, Zenon
    <3> QED
      BY <2>2, <2>5, <3>1
  <2>7. delivered' = [delivered EXCEPT ![x] = 1]
    BY <1>5, <1>11, <2>2, <2>5, <2>6
  <2>8. /\ delivered' \in [Payloads -> Nat] /\ delivered'[x] = 1
        /\ \A y \in Payloads : y # x => delivered'[y] = delivered[y]
    BY <2>2, <2>5, <2>7, Zenon
  <2>9. CallersType'
    BY <1>0, <1>2, <1>7, <2>8, Zenon DEF CallersType
  <2>10. tunn'[p] = r.tunn /\ net \subseteq net'
    BY <1>0, <1>6, CallEnds, Zenon
  <2>11. m \in Msgs("data")' /\ \A e \in Peers \ {m.from} : Spent(tunn'[e], m)
    <3>1. \A e \in Peers : e # m.from => e = p
      BY <1>1, <1>3, PairAssumption DEF Peers
    <3> QED
      BY <2>1, <2>2, <2>10, <3>1, Zenon DEF Msgs
  <2>12. DeliveryInv'
    <3>1. ASSUME NEW y \in Payloads, y # x
          PROVE  /\ delivered'[y] <= 1
                 /\ delivered'[y] > 0 =>
                      \E n \in Msgs("data")' : /\ n.payload = y
                                               /\ \A e \in Peers \ {n.from} : Spent(tunn'[e], n)
      <4>1. delivered'[y] = delivered[y] /\ delivered[y] <= 1
        BY <1>0, <2>8, <3>1, Zenon DEF DeliveryInv
      <4>2. ASSUME delivered[y] > 0
            PROVE  \E n \in Msgs("data")' : /\ n.payload = y
                                            /\ \A e \in Peers \ {n.from} : Spent(tunn'[e], n)
        <5>1. PICK n \in Msgs("data") : /\ n.payload = y
                                        /\ \A e \in Peers \ {n.from} : Spent(tunn[e], n)
          BY <1>0, <4>2, Zenon DEF DeliveryInv
        <5>2. n \in Msgs("data")' /\ \A e \in Peers \ {n.from} : Spent(tunn'[e], n)
          BY <1>0, <1>6, <5>1, CallDelivered, ZenonT(30)
        <5> QED
          BY <5>1, <5>2, Zenon
      <4> QED
        BY <4>1, <4>2, Zenon
    <3>2. /\ delivered'[x] <= 1
          /\ \E n \in Msgs("data")' : /\ n.payload = x
                                      /\ \A e \in Peers \ {n.from} : Spent(tunn'[e], n)
      BY <2>8, <2>11
    <3> HIDE DEF x
    <3> QED
      BY <3>1, <3>2, Zenon DEF DeliveryInv
  <2>13. PairInv' /\ Elsewhere(p) /\ Same(p)
    BY <1>0, <1>2, <1>6, <1>7, <1>8, <1>9, <2>9, <2>12, QuietCall, ZenonT(30)
  <2> QED
    BY <2>2, <2>3, <2>4, <2>6, <2>7, <2>13, Zenon
<1> QED
  BY <1>10, <1>11, Zenon

(* Time that passes, and a step that changes nothing. *)
LEMMA TickStep ==
  ASSUME PairInv, UNCHANGED <<bound, tunn, net, flush, submitted, dropped, delivered>>,
         now' \in Nat
  PROVE  PairInv'
<1>1. EndsInv'
  BY Zenon DEF PairInv, EndsInv, EndsType, NonceInv, NonceUnique, KeyInv, Msgs
<1>2. CallersType' /\ NoStuckQueue'
  BY DEF PairInv, CallersType, NoStuckQueue
<1>3. Tally'
  BY ZenonT(30) DEF PairInv, Tally, Given, Waiting, OnWire, Discarded
<1>4. SealedOnce' /\ DeliveryInv'
  BY DEF PairInv, SealedOnce, DeliveryInv, Msgs
<1> QED
  BY <1>1, <1>2, <1>3, <1>4, Zenon DEF PairInv

(* Two new tunnels and an empty network. *)
LEMMA InitInv ==
  ASSUME Init
  PROVE  PairInv
<1>1. /\ bound \in Bounds /\ tunn = [p \in Peers |-> NewTunn(p, 0)] /\ net = {} /\ now = 0
      /\ flush = [p \in Peers |-> FALSE] /\ submitted = [p \in Peers |-> 0]
      /\ dropped = {} /\ delivered = [x \in Payloads |-> 0]
  BY DEF Init
<1>2. \A p \in Peers :
        /\ TunnType(tunn[p], Packets) /\ tunn[p].me = p /\ tunn[p].fresh = 0
        /\ tunn[p].state = HsNone /\ tunn[p].previous = HsNone
        /\ tunn[p].packet_queue = <<>>
        /\ \A i \in Slots : tunn[p].sessions[i] = NoSession
  BY <1>1, NewTunnel, ZenonT(30) DEF Peers
<1>3. \A p \in Peers : tunn[p] \in Tunnels(Packets)
  BY <1>2 DEF TunnType
<1>4. EndsType
  BY <1>1, <1>2, <1>3, Zenon DEF EndsType
<1>5. \A p \in Peers : Sound(tunn[p]) /\ Blank(tunn[p])
  <2>1. ASSUME NEW p \in Peers
        PROVE  Sound(tunn[p]) /\ Blank(tunn[p])
    <3>1. \A e : ~Open(tunn[p], e)
      BY <1>2 DEF Open, HsNone
    <3>2. OpenSound(tunn[p])
      BY <1>2, <3>1 DEF OpenSound, HsNone
    <3>3. RingSound(tunn[p])
      BY <1>2, Zenon DEF RingSound, Holds
    <3>4. Blank(tunn[p])
      BY <1>2, Kinds, Zenon DEF Blank, is_expired
    <3> QED
      BY <3>2, <3>3, <3>4, Zenon DEF Sound
  <2> QED
    BY <2>1
<1>6. EndsInv
  BY <1>1, <1>2, <1>4, <1>5, Zenon DEF EndsInv, NonceInv, NonceUnique, KeyInv, Msgs
<1>7. CallersType /\ NoStuckQueue
  BY <1>1, <1>2, PairAssumption DEF CallersType, NoStuckQueue
<1>8. Tally
  <2>1. ASSUME NEW p \in Peers
        PROVE  /\ Splits(Given(p), Waiting(p), OnWire(p), Discarded(p))
               /\ Unrepeated(tunn[p].packet_queue)
    <3>1. Given(p) = {}
      BY <1>1 DEF Given
    <3>2. Waiting(p) = {} /\ Unrepeated(tunn[p].packet_queue)
      BY <1>2 DEF Waiting, Elements, Unrepeated
    <3>3. OnWire(p) = {} /\ Discarded(p) = {}
      BY <1>1, Zenon DEF OnWire, Loads, Discarded
    <3> QED
      BY <3>1, <3>2, <3>3, Zenon DEF Splits
  <2> QED
    BY <2>1 DEF Tally
<1>9. SealedOnce /\ DeliveryInv
  BY <1>1 DEF SealedOnce, DeliveryInv, Msgs
<1> QED
  BY <1>6, <1>7, <1>8, <1>9, Zenon DEF PairInv

(* The two tunnels keep their joint invariant whatever the network does    *)
(* with the messages, and whenever each caller makes its calls.            *)
THEOREM PairInvariance == Spec => []PairInv
<1>1. Init => PairInv
  BY InitInv, Zenon
<1>2. PairInv /\ [Next]_vars => PairInv'
  <2>1. SUFFICES ASSUME PairInv, [Next]_vars
                 PROVE  PairInv'
    OBVIOUS
  <2>2. CASE \E p \in bound.initiators : Encapsulate(p)
    <3>1. bound.initiators \subseteq Peers
      BY <2>1, PairAssumption, Zenon DEF PairInv, CallersType, Peers
    <3> QED
      BY <2>1, <2>2, <3>1, EncapsulateStep, Zenon
  <2>3. CASE \E p \in Peers : Decapsulate(p)
    BY <2>1, <2>3, DecapsulateStep, Zenon
  <2>4. CASE \E p \in Peers : SendQueued(p)
    BY <2>1, <2>4, SendQueuedStep, Zenon
  <2>5. CASE \E p \in Peers : UpdateTimers(p)
    BY <2>1, <2>5, UpdateTimersStep, Zenon
  <2>6. CASE \E p \in Peers : ForceHandshake(p)
    BY <2>1, <2>6, ForceStep, Zenon
  <2>7. CASE Tick
    BY <2>1, <2>7, TickStep DEF Tick, PairInv, CallersType
  <2>8. CASE UNCHANGED vars
    BY <2>1, <2>8, TickStep DEF vars, PairInv, CallersType
  <2> QED
    BY <2>1, <2>2, <2>3, <2>4, <2>5, <2>6, <2>7, <2>8, Zenon DEF Next
<1> QED
  BY <1>1, <1>2, PTL DEF Spec

(* A packet is written to the other side's tunnel device at most once: the *)
(* message that carried it is spent there, since its key never comes back  *)
(* with a fresh anti-replay filter, and no second message carries it.      *)
THEOREM AtMostOneDelivery == Spec => []DeliveredOnce
<1>1. PairInv => DeliveredOnce
  BY DEF PairInv, DeliveryInv, DeliveredOnce
<1> QED
  BY <1>1, PairInvariance, PTL

(* No nonce is used twice under a key: format_packet_data never seals with *)
(* a counter that the key has used, across retried handshakes, responses   *)
(* to the initiation before the last, and sessions that are replaced.      *)
THEOREM NoNonceReuse == Spec => []NonceUnique
<1>1. PairInv => NonceUnique
  BY DEF PairInv, EndsInv
<1> QED
  BY <1>1, PairInvariance, PTL

(* Sessions that share a key are the two ends of one: each sends to the    *)
(* index at which the other receives.                                      *)
THEOREM SessionsAgree == Spec => []KeyAgreement
<1>1. PairInv => KeyAgreement
  <2>1. SUFFICES ASSUME PairInv, NEW p \in Peers, NEW q \in Peers,
                        NEW s \in Sessions(p), NEW u \in Sessions(q), s.key = u.key
                 PROVE  IF p = q THEN s = u
                        ELSE /\ s.sending_index = u.receiving_index
                             /\ u.sending_index = s.receiving_index
    BY DEF KeyAgreement
  <2>2. PICK i \in Slots : s = tunn[p].sessions[i] /\ s # NoSession
    BY DEF Sessions
  <2>3. PICK j \in Slots : u = tunn[q].sessions[j] /\ u # NoSession
    BY Zenon DEF Sessions
  <2>4. /\ EndsInv /\ TunnType(tunn[p], Packets) /\ s.key \in Keys
    BY <2>1, <2>2, PairTyped, Zenon DEF PairInv, EndsInv, EndsType
  <2>5. CASE p = q
    <3>1. Holds(tunn[p], i, s.key) /\ Holds(tunn[p], j, s.key)
      BY <2>1, <2>2, <2>3, <2>5, Zenon DEF Holds
    <3>2. i = j
      BY <2>4, <3>1, Zenon DEF EndsInv, Sound, RingSound
    <3> QED
      BY <2>2, <2>3, <2>5, <3>2, Zenon
  <2>6. CASE p # q
    <3>1. PICK m \in net : Matches(p, s, m)
      BY <2>2, <2>4, Zenon DEF EndsInv, KeyInv
    <3>2. PICK n \in net : Matches(q, u, n)
      BY <2>3, <2>4, Zenon DEF EndsInv, KeyInv
    <3>3. m.from \in Peers /\ n.from \in Peers /\ s.key.initiator \in Peers
      BY <2>4, MessageTyped, Zenon DEF EndsInv, EndsType, Keys, Peers
    <3>4. \A e \in Peers : e = p \/ e = q
      BY <2>6, PairAssumption DEF Peers
    <3>5. m.from = n.from /\ m.eph = n.eph /\ m.type = "resp" /\ n.type = "resp"
      BY <2>1, <2>6, <3>1, <3>2, <3>3, <3>4, Zenon DEF Matches
    <3>6. m = n
      BY <2>4, <3>5, Zenon DEF EndsInv, KeyInv, Msgs
    <3> QED
      BY <2>1, <2>6, <3>1, <3>2, <3>3, <3>4, <3>6, Zenon DEF Matches
  <2> QED
    BY <2>5, <2>6
<1> QED
  BY <1>1, PairInvariance, PTL

(* Every packet given to encapsulate is in the queue, was sealed, or was   *)
(* discarded, and only one of these.                                       *)
THEOREM NoPacketLost == Spec => []PacketsConserved
<1>1. PairInv => PacketsConserved
  <2>1. SUFFICES ASSUME PairInv, NEW p \in Peers
                 PROVE  LET q == tunn[p].packet_queue
                            wire == {m.payload : m \in {d \in net : d.type = "data" /\ d.from = p}}
                            queued == Elements(q) \ {Empty} IN
                        /\ {Payload(p, n) : n \in 1..submitted[p]}
                             = queued \cup (wire \ {Empty}) \cup {d \in dropped : d.from = p}
                        /\ queued \cap wire = {} /\ queued \cap dropped = {} /\ wire \cap dropped = {}
                        /\ \A k, l \in 1..Len(q) : (q[k] = q[l] /\ q[k] # Empty) => k = l
    BY Zenon DEF PacketsConserved
  <2> DEFINE q == tunn[p].packet_queue
             wire == {m.payload : m \in {d \in net : d.type = "data" /\ d.from = p}}
             queued == Elements(q) \ {Empty}
  <2>2. CallersType /\ Tally
    BY <2>1 DEF PairInv
  <2>3. /\ \A x \in Given(p) : x \in Payloads /\ x.from = p /\ x # Empty
        /\ Waiting(p) \subseteq Given(p) /\ OnWire(p) \subseteq Given(p)
    BY <2>2, OwnPackets
  <2>4. Given(p) = {Payload(p, n) : n \in 1..submitted[p]} /\ Waiting(p) = queued
    BY DEF Given, Waiting
  <2>5. OnWire(p) = wire \ {Empty}
    BY DEF OnWire, Loads
  <2>6. Discarded(p) = {d \in dropped : d.from = p} /\ Empty \notin dropped
    BY <2>2, PayloadNotEmpty DEF Discarded, CallersType
  <2>7. Splits(Given(p), Waiting(p), OnWire(p), Discarded(p)) /\ Unrepeated(q)
    BY <2>2, Zenon DEF Tally
  <2>8. \A k, l \in 1..Len(q) : (q[k] = q[l] /\ q[k] # Empty) => k = l
    BY <2>7 DEF Unrepeated
  <2>9. Empty \notin queued
    OBVIOUS
  <2> HIDE DEF q, wire, queued
  <2>10. queued \cap wire = {} /\ queued \cap dropped = {} /\ wire \cap dropped = {}
    BY <2>3, <2>4, <2>5, <2>6, <2>7, <2>9, Zenon DEF Splits
  <2>11. {Payload(p, n) : n \in 1..submitted[p]}
           = queued \cup (wire \ {Empty}) \cup {d \in dropped : d.from = p}
    BY <2>4, <2>5, <2>6, <2>7, Zenon DEF Splits
  <2> QED
    BY <2>8, <2>10, <2>11, Zenon DEF q, wire, queued
<1> QED
  BY <1>1, PairInvariance, PTL

(* While packets wait, a handshake of ours is under way or the caller owes *)
(* a flush.                                                                *)
THEOREM NoPacketStuck == Spec => []NoStuckQueue
<1>1. PairInv => NoStuckQueue
  BY Zenon DEF PairInv
<1> QED
  BY <1>1, PairInvariance, PTL

-----------------------------------------------------------------------------
(* The pair implements PacketLife *)

(* The stage of a packet, in terms of the sets above. *)
Place(x) ==
  IF delivered[x] > 0 THEN "delivered"
  ELSE IF x \in OnWire(x.from) THEN "sent"
  ELSE IF x \in Discarded(x.from) THEN "dropped"
  ELSE IF x \in Waiting(x.from) THEN "waiting" ELSE "new"

(* The refinement mapping's stage of a packet is its place. *)
LEMMA StageIsPlace == PairInv => \A x \in Payloads : Stage(x) = Place(x)
<1>1. SUFFICES ASSUME PairInv, NEW x \in Payloads
               PROVE  Stage(x) = Place(x)
  OBVIOUS
<1>2. EndsInv /\ CallersType /\ Tally
  BY <1>1 DEF PairInv
<1>3. x # Empty /\ x.from \in Peers
  BY PayloadNotEmpty DEF Payloads
<1>4. (\E m \in net : m.type = "data" /\ m.payload = x) <=> x \in OnWire(x.from)
  <2>1. ASSUME NEW m \in net, m.type = "data", m.payload = x
        PROVE  x \in OnWire(x.from)
    <3>1. m.from \in Peers /\ x \in OnWire(m.from)
      BY <1>2, <1>3, <2>1, MessageTyped, Zenon DEF EndsInv, EndsType, OnWire, Loads
    <3>2. x.from = m.from
      BY <1>2, <3>1, OwnPackets, Zenon
    <3> QED
      BY <3>1, <3>2, Zenon
  <2>2. x \in OnWire(x.from) => \E m \in net : m.type = "data" /\ m.payload = x
    BY DEF OnWire, Loads
  <2> QED
    BY <2>1, <2>2, Zenon
<1>5. x \in dropped <=> x \in Discarded(x.from)
  BY Zenon DEF Discarded
<1>6. x \in Elements(tunn[x.from].packet_queue) <=> x \in Waiting(x.from)
  BY <1>3, Zenon DEF Waiting
<1> QED
  BY <1>4, <1>5, <1>6 DEF Stage, Place

(* A packet that was delivered is on the wire. *)
LEMMA DeliveredOnWire ==
  ASSUME PairInv, NEW x \in Payloads, delivered[x] > 0
  PROVE  x \in OnWire(x.from)
<1>1. EndsInv /\ CallersType /\ Tally /\ DeliveryInv
  BY Zenon DEF PairInv
<1>2. PICK m \in Msgs("data") : m.payload = x
  BY <1>1, Zenon DEF DeliveryInv
<1>3. m.from \in Peers /\ x # Empty
  BY <1>1, MessageTyped, PayloadNotEmpty, Zenon DEF EndsInv, EndsType, Msgs
<1>4. x \in OnWire(m.from)
  BY <1>2, <1>3, Zenon DEF Msgs, OnWire, Loads
<1>5. x.from = m.from
  BY <1>1, <1>3, <1>4, OwnPackets, Zenon
<1> QED
  BY <1>4, <1>5, Zenon

(* Steps of the pair, as steps of PacketLife. *)
Stages == [x \in Payloads |-> Stage(x)]

(* A step that moves one packet to a stage that may follow is a step of    *)
(* PacketLife.                                                             *)
LEMMA OneAdvances ==
  ASSUME \A x \in Payloads : Stage(x) = Place(x) /\ Stage(x)' = Place(x)',
         NEW x \in Payloads, Place(x)' \in Life!Follows[Place(x)],
         \A y \in Payloads : y # x => Place(y)' = Place(y)
  PROVE  Life!Next
<1>1. Stages' = [Stages EXCEPT ![x] = Place(x)']
  BY Zenon DEF Stages
<1>2. Place(x)' \in Life!Follows[Stages[x]]
  BY Zenon DEF Stages
<1> QED
  BY <1>1, <1>2, Zenon DEF Life!Next, Life!Advance, Stages

(* Packets of the other side, and all of them when none moves, stay where  *)
(* they are.                                                               *)
LEMMA StaysPut ==
  ASSUME NEW p \in Peers, Elsewhere(p), NEW y \in Payloads, delivered'[y] = delivered[y],
         y.from = p => /\ y \in Waiting(p)' <=> y \in Waiting(p)
                       /\ y \in OnWire(p)' <=> y \in OnWire(p)
                       /\ y \in Discarded(p)' <=> y \in Discarded(p)
  PROVE  Place(y)' = Place(y)
<1>1. y.from \in Peers
  BY Zenon DEF Payloads
<1>2. /\ y \in Waiting(y.from)' <=> y \in Waiting(y.from)
      /\ y \in OnWire(y.from)' <=> y \in OnWire(y.from)
      /\ y \in Discarded(y.from)' <=> y \in Discarded(y.from)
  BY <1>1, Zenon DEF Elsewhere
<1> QED
  BY <1>2, Zenon DEF Place

(* A call that moves no packet leaves every packet where it is. *)
LEMMA NothingMoves ==
  ASSUME NEW p \in Peers, Elsewhere(p), Same(p), UNCHANGED delivered
  PROVE  \A y \in Payloads : Place(y)' = Place(y)
BY StaysPut, Zenon DEF Same

(* The stages that a packet may enter. *)
LEMMA Follow ==
  /\ {"waiting", "sent", "dropped"} \subseteq Life!Follows["new"]
  /\ "sent" \in Life!Follows["waiting"] /\ "delivered" \in Life!Follows["sent"]
BY Zenon DEF Life!Follows

(* Encapsulate: a new packet waits, is sent or is dropped. *)
LEMMA EncapsulateLife ==
  ASSUME PairInv, \A x \in Payloads : Stage(x) = Place(x) /\ Stage(x)' = Place(x)',
         NEW p \in Peers, Encapsulate(p)
  PROVE  Life!Next
<1>1. Elsewhere(p) /\ UNCHANGED delivered
  BY EncapsulateStep, Zenon
<1>2. PICK x \in Payloads : x.from = p /\ x \notin Given(p) /\ Enters(p, x)
  BY EncapsulateStep
<1>3. x \notin Waiting(p) /\ x \notin OnWire(p) /\ x \notin Discarded(p)
  BY <1>2, PairFacts, OwnPackets, Zenon
<1>4. ~(delivered[x] > 0)
  BY <1>2, <1>3, DeliveredOnWire, Zenon
<1>5. Place(x) = "new"
  BY <1>2, <1>3, <1>4, Zenon DEF Place
<1>6. Place(x)' \in {"waiting", "sent", "dropped"}
  BY <1>1, <1>2, <1>3, <1>4, Zenon DEF Place, Enters
<1>7. \A y \in Payloads : y # x => Place(y)' = Place(y)
  <2>1. ASSUME NEW y \in Payloads, y # x
        PROVE  /\ y \in Waiting(p)' <=> y \in Waiting(p)
               /\ y \in OnWire(p)' <=> y \in OnWire(p)
               /\ y \in Discarded(p)' <=> y \in Discarded(p)
    BY <1>2, <2>1, Zenon DEF Enters
  <2> QED
    BY <1>1, <2>1, StaysPut, Zenon
<1> QED
  BY <1>5, <1>6, <1>7, Follow, OneAdvances, Zenon

(* SendQueued: a packet that waits is sent. *)
LEMMA SendQueuedLife ==
  ASSUME PairInv, \A x \in Payloads : Stage(x) = Place(x) /\ Stage(x)' = Place(x)',
         NEW p \in Peers, SendQueued(p)
  PROVE  Life!Next \/ \A y \in Payloads : Place(y)' = Place(y)
<1>1. Elsewhere(p) /\ UNCHANGED delivered
  BY SendQueuedStep, Zenon
<1>2. CASE Same(p)
  BY <1>1, <1>2, NothingMoves, Zenon
<1>3. ASSUME NEW x \in Waiting(p), Waiting(p)' = Waiting(p) \ {x},
             OnWire(p)' = OnWire(p) \cup {x}, UNCHANGED <<Given(p), Discarded(p)>>
      PROVE  Life!Next
  <2>1. x \in Payloads /\ x.from = p
    BY PairFacts, OwnPackets, ZenonT(30)
  <2>2. x \notin OnWire(p) /\ x \notin Discarded(p)
    BY PairFacts, Zenon DEF Splits
  <2>3. ~(delivered[x] > 0)
    BY <2>1, <2>2, DeliveredOnWire, Zenon
  <2>4. Place(x) = "waiting" /\ Place(x)' = "sent"
    BY <1>1, <1>3, <2>1, <2>2, <2>3, Zenon DEF Place
  <2>5. \A y \in Payloads : y # x => Place(y)' = Place(y)
    <3>1. ASSUME NEW y \in Payloads, y # x
          PROVE  /\ y \in Waiting(p)' <=> y \in Waiting(p)
                 /\ y \in OnWire(p)' <=> y \in OnWire(p)
                 /\ y \in Discarded(p)' <=> y \in Discarded(p)
      BY <1>3, <3>1, Zenon
    <3> QED
      BY <1>1, <3>1, StaysPut, Zenon
  <2> QED
    BY <2>1, <2>4, <2>5, Follow, OneAdvances, Zenon
<1> QED
  BY <1>2, <1>3, SendQueuedStep, Zenon

(* UpdateTimers: what waits at p is dropped, all at once. *)
LEMMA UpdateTimersLife ==
  ASSUME PairInv, \A x \in Payloads : Stage(x) = Place(x) /\ Stage(x)' = Place(x)',
         NEW p \in Peers, UpdateTimers(p)
  PROVE  Life!Next \/ \A y \in Payloads : Place(y)' = Place(y)
<1>1. Elsewhere(p) /\ UNCHANGED delivered
  BY UpdateTimersStep, Zenon
<1>2. CASE Same(p)
  BY <1>1, <1>2, NothingMoves
<1>3. CASE /\ Waiting(p)' = {} /\ Discarded(p)' = Discarded(p) \cup Waiting(p)
           /\ UNCHANGED <<Given(p), OnWire(p)>>
  <2>1. \A x \in Waiting(p) : /\ x \in Payloads /\ x.from = p
                              /\ x \notin OnWire(p) /\ x \notin Discarded(p)
    BY PairFacts, OwnPackets, Zenon DEF Splits
  <2>2. \A x \in Waiting(p) : ~(delivered[x] > 0)
    BY <2>1, DeliveredOnWire
  <2>3. \A x \in Waiting(p) : Place(x) = "waiting" /\ Place(x)' = "dropped"
    BY <1>1, <1>3, <2>1, <2>2, ZenonT(30) DEF Place
  <2>4. \A y \in Payloads : y \notin Waiting(p) => Place(y)' = Place(y)
    <3>1. ASSUME NEW y \in Payloads, y \notin Waiting(p)
          PROVE  /\ y \in Waiting(p)' <=> y \in Waiting(p)
                 /\ y \in OnWire(p)' <=> y \in OnWire(p)
                 /\ y \in Discarded(p)' <=> y \in Discarded(p)
      BY <1>3, <3>1, Zenon
    <3> QED
      BY <1>1, <3>1, StaysPut, Zenon
  <2>5. Waiting(p) \in SUBSET {x \in Payloads : Stages[x] = "waiting"}
    BY <2>1, <2>3, Zenon DEF Stages
  <2>6. Stages' = [x \in Payloads |-> IF x \in Waiting(p) THEN "dropped" ELSE Stages[x]]
    BY <2>3, <2>4, Zenon DEF Stages
  <2> QED
    BY <2>5, <2>6 DEF Life!Next, Life!Expire, Stages
<1> QED
  BY <1>2, <1>3, UpdateTimersStep, Zenon

(* Decapsulate: a packet that was sent is delivered. *)
LEMMA DecapsulateLife ==
  ASSUME PairInv, \A x \in Payloads : Stage(x) = Place(x) /\ Stage(x)' = Place(x)',
         NEW p \in Peers, Decapsulate(p)
  PROVE  Life!Next \/ \A y \in Payloads : Place(y)' = Place(y)
<1>1. Elsewhere(p) /\ Same(p)
  BY DecapsulateStep, Zenon
<1>2. CASE UNCHANGED delivered
  BY <1>1, <1>2, NothingMoves, Zenon
<1>3. ASSUME NEW x \in Payloads, x \in OnWire(x.from), delivered[x] = 0,
             delivered' = [delivered EXCEPT ![x] = 1]
      PROVE  Life!Next
  <2>1. delivered \in [Payloads -> Nat]
    BY DEF PairInv, CallersType
  <2>2. delivered'[x] = 1 /\ \A y \in Payloads : y # x => delivered'[y] = delivered[y]
    BY <1>3, <2>1, Zenon
  <2>3. Place(x) = "sent" /\ Place(x)' = "delivered"
    <3>1. ~(0 > 0) /\ 1 > 0
      OBVIOUS
    <3> QED
      BY <1>3, <2>2, <3>1, Zenon DEF Place
  <2>4. \A y \in Payloads : y # x => Place(y)' = Place(y)
    BY <1>1, <2>2, StaysPut DEF Same
  <2> QED
    BY <2>3, <2>4, Follow, OneAdvances, Zenon
<1> QED
  BY <1>2, <1>3, DecapsulateStep, Zenon

(* The pair of tunnels implements PacketLife: each step moves one packet   *)
(* forward, discards what waits at one end, or moves none.                 *)
THEOREM PairImplementsLife == Spec => PacketLifecycle
<1>1. Init => Life!Init
  <2>1. SUFFICES ASSUME Init
                 PROVE  Life!Init
    OBVIOUS
  <2>2. \A x \in Payloads : Stage(x) = Place(x)
    BY <2>1, InitInv, StageIsPlace, Zenon
  <2>3. \A x \in Payloads : ~(delivered[x] > 0)
    BY <2>1 DEF Init
  <2>4. \A x \in Payloads : OnWire(x.from) = {} /\ Discarded(x.from) = {}
    BY <2>1, Zenon DEF Init, OnWire, Loads, Discarded
  <2>5. \A x \in Payloads : Waiting(x.from) = {}
    <3>1. \A p \in Peers : tunn[p].packet_queue = <<>>
      BY <2>1, Zenon DEF Init, NewTunn
    <3> QED
      BY <3>1 DEF Waiting, Elements, Payloads
  <2> QED
    BY <2>2, <2>3, <2>4, <2>5, Zenon DEF Life!Init, Place
<1>2. PairInv /\ PairInv' /\ [Next]_vars => [Life!Next]_Stages
  <2>1. SUFFICES ASSUME PairInv, PairInv', [Next]_vars
                 PROVE  Life!Next \/ UNCHANGED Stages
    OBVIOUS
  <2>2. \A x \in Payloads : Stage(x) = Place(x)
    BY <2>1, StageIsPlace, Zenon
  <2>3. PairInv' => (\A x \in Payloads : Stage(x) = Place(x))'
    BY StageIsPlace, PTL
  <2>4. \A x \in Payloads : Stage(x) = Place(x) /\ Stage(x)' = Place(x)'
    BY <2>1, <2>2, <2>3, Zenon
  <2>5. (\A y \in Payloads : Place(y)' = Place(y)) => UNCHANGED Stages
    BY <2>4, Zenon DEF Stages
  <2>6. CASE \E p \in bound.initiators : Encapsulate(p)
    <3>1. bound.initiators \subseteq Peers
      BY <2>1, PairAssumption, Zenon DEF PairInv, CallersType, Peers
    <3> QED
      BY <2>1, <2>4, <2>6, <3>1, EncapsulateLife, Zenon
  <2>7. CASE \E p \in Peers : Decapsulate(p)
    BY <2>1, <2>4, <2>5, <2>7, DecapsulateLife, Zenon
  <2>8. CASE \E p \in Peers : SendQueued(p)
    BY <2>1, <2>4, <2>5, <2>8, SendQueuedLife, ZenonT(30)
  <2>9. CASE \E p \in Peers : UpdateTimers(p)
    BY <2>1, <2>4, <2>5, <2>9, UpdateTimersLife
  <2>10. CASE \E p \in Peers : ForceHandshake(p)
    BY <2>1, <2>5, <2>10, ForceStep, NothingMoves, ZenonT(30)
  <2>11. CASE Tick \/ UNCHANGED vars
    <3>1. UNCHANGED <<tunn, net, submitted, dropped, delivered>>
      BY <2>11 DEF Tick, vars
    <3> QED
      BY <3>1, Zenon DEF Stages, Stage
  <2> QED
    BY <2>1, <2>6, <2>7, <2>8, <2>9, <2>10, <2>11, ZenonT(30) DEF Next
<1> QED
  BY <1>1, <1>2, PairInvariance, PTL DEF Spec, PacketLifecycle, Life!Spec, Stages
=============================================================================
