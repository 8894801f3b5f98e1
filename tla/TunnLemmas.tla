----------------------------- MODULE TunnLemmas -----------------------------
(***************************************************************************)
(* What the methods of a tunnel change and what they leave alone: lemmas   *)
(* about the operators of Tunn, for any set P of payloads, that the proofs *)
(* about one endpoint over time (TunnTimersProofs) and about two endpoints *)
(* (TunnelPairProofs) share.                                               *)
(***************************************************************************)
EXTENDS Tunn, TLAPS

(* What two tunnels, before and after a call, may have in common. *)
SameHandshake(t, u) ==
  /\ u.me = t.me /\ u.static = t.static /\ u.fresh = t.fresh
  /\ u.next_index = t.next_index /\ u.previous = t.previous /\ u.state = t.state

SameRing(t, u) ==
  /\ u.sessions = t.sessions /\ u.current = t.current
  /\ u.session_timers = t.session_timers

(* A timer is left alone or set to TimeCurrent; the cookie's is left alone. *)
TimersKept(t, u) ==
  /\ \A n \in TimerNames : u.timers[n] \in {t.timers[n], t.timers["TimeCurrent"]}
  /\ u.timers["TimeCookieReceived"] = t.timers["TimeCookieReceived"]
  /\ u.write_cookie = t.write_cookie

(* A new initiation is the one under way. *)
Initiates(t, u, now) ==
  /\ u.me = t.me /\ u.static = t.static
  /\ u.fresh = t.fresh + 1 /\ u.next_index = inc_index(t) /\ u.previous = t.state
  /\ u.state = [tag |-> "InitSent", local_index |-> inc_index(t), eph |-> t.fresh + 1,
                static |-> t.static, time_sent |-> now]

-----------------------------------------------------------------------------
(* Cyclic indices stay in their space, and name a slot (inc_index, and the *)
(* `% N_SESSIONS' of the session ring).                                    *)
LEMMA IndexRange ==
  /\ \A t : t.next_index \in Indices => inc_index(t) \in Indices
  /\ \A i \in Indices : i % N_SESSIONS \in Slots
BY TunnAssumption DEF Indices, Slots, inc_index

(* A session differs from an empty slot, the handshake states from each other. *)
LEMMA Kinds ==
  /\ NoSession \notin SessionType
  /\ HsNone # HsExpired
  /\ \A hs \in HandshakeStateType :
       /\ hs.tag = "InitSent" <=> hs \notin {HsNone, HsExpired}
       /\ hs.tag = "InitSent" => hs \in [tag : {"InitSent"}, local_index : Indices, eph : Nat,
                                         static : Nat, time_sent : Nat]
BY DEF NoSession, SessionType, HsNone, HsExpired, HandshakeStateType, Indices

-----------------------------------------------------------------------------
(* timer_tick sets one timer to TimeCurrent. *)
LEMMA TimerTick ==
  ASSUME NEW P, NEW t, TunnType(t, P), NEW name \in TimerNames
  PROVE  LET u == timer_tick(t, name) IN
         /\ TunnType(u, P) /\ SameHandshake(t, u) /\ SameRing(t, u)
         /\ u.packet_queue = t.packet_queue /\ u.write_cookie = t.write_cookie
         /\ u.timers = [t.timers EXCEPT ![name] = t.timers["TimeCurrent"]]
         /\ name # "TimeCookieReceived" => TimersKept(t, u)
<1> DEFINE u == timer_tick(t, name)
<1>1. t \in Tunnels(P)
  BY DEF TunnType
<1>2. u \in Tunnels(P)
  BY <1>1, ZenonT(30) DEF Tunnels, timer_tick, TimerNames
<1>3. /\ SameHandshake(t, u) /\ SameRing(t, u)
      /\ u.packet_queue = t.packet_queue /\ u.write_cookie = t.write_cookie
      /\ u.timers = [t.timers EXCEPT ![name] = t.timers["TimeCurrent"]]
  BY <1>1 DEF Tunnels, timer_tick, SameHandshake, SameRing
<1>4. name # "TimeCookieReceived" => TimersKept(t, u)
  BY <1>1, <1>3 DEF Tunnels, TimersKept, TimerNames
<1> HIDE DEF u
<1>5. TunnType(u, P)
  BY <1>2, <1>3 DEF TunnType, SameRing
<1> QED
  BY <1>3, <1>4, <1>5 DEF u

(* TimersKept composes. *)
LEMMA TimersKeptTwice ==
  ASSUME NEW t, NEW u, NEW v, TimersKept(t, u), TimersKept(u, v)
  PROVE  TimersKept(t, v)
BY DEF TimersKept, TimerNames

(* timer_tick_session_established also dates the slot of the session. *)
Dates(t, u, idx) ==
  /\ SameHandshake(t, u)
  /\ u.sessions = t.sessions /\ u.current = t.current
  /\ u.packet_queue = t.packet_queue
  /\ u.session_timers = [t.session_timers EXCEPT
                           ![idx % N_SESSIONS] = t.timers["TimeCurrent"]]
  /\ TimersKept(t, u)

(* timer_tick_session_established dates the slot and sets the role, and    *)
(* that is all.                                                            *)
LEMMA SessionEstablished ==
  ASSUME NEW P, NEW t, TunnType(t, P), NEW idx \in Indices
  PROVE  LET u == timer_tick_session_established(t, TRUE, idx)
             w == timer_tick_session_established(t, FALSE, idx) IN
         /\ TunnType(u, P) /\ Dates(t, u, idx)
         /\ TunnType(w, P) /\ Dates(t, w, idx)
<1> DEFINE v == timer_tick(t, "TimeSessionEstablished")
           x == [v EXCEPT !.session_timers[idx % N_SESSIONS] = t.timers["TimeCurrent"]]
<1>1. /\ TunnType(v, P) /\ SameHandshake(t, v) /\ SameRing(t, v)
      /\ v.packet_queue = t.packet_queue /\ TimersKept(t, v)
  BY TimerTick, Zenon DEF TimerNames
<1>2. t \in Tunnels(P) /\ v \in Tunnels(P)
  BY <1>1 DEF TunnType
<1>3. /\ timer_tick_session_established(t, TRUE, idx) = [x EXCEPT !.is_initiator = TRUE]
      /\ timer_tick_session_established(t, FALSE, idx) = [x EXCEPT !.is_initiator = FALSE]
  BY DEF timer_tick_session_established
<1> HIDE DEF v
<1>4. x \in Tunnels(P)
  BY <1>2, IndexRange, Zenon DEF Tunnels, TimerNames
<1>5. /\ SameHandshake(v, x) /\ x.sessions = v.sessions /\ x.current = v.current
      /\ x.packet_queue = v.packet_queue /\ x.timers = v.timers
      /\ x.write_cookie = v.write_cookie
      /\ x.session_timers = [v.session_timers EXCEPT
                               ![idx % N_SESSIONS] = t.timers["TimeCurrent"]]
  BY <1>2 DEF Tunnels, SameHandshake
<1> HIDE DEF x
<1>6. ASSUME NEW u, u = [x EXCEPT !.is_initiator = TRUE] \/ u = [x EXCEPT !.is_initiator = FALSE]
      PROVE  TunnType(u, P) /\ Dates(t, u, idx)
  <2>1. u \in Tunnels(P)
    <3>1. CASE u = [x EXCEPT !.is_initiator = TRUE]
      BY <1>4, <3>1, Zenon DEF Tunnels
    <3>2. CASE u = [x EXCEPT !.is_initiator = FALSE]
      BY <1>4, <3>2, Zenon DEF Tunnels
    <3> QED
      BY <1>6, <3>1, <3>2
  <2>2. /\ SameHandshake(x, u) /\ u.sessions = x.sessions /\ u.current = x.current
        /\ u.packet_queue = x.packet_queue /\ u.timers = x.timers
        /\ u.write_cookie = x.write_cookie /\ u.session_timers = x.session_timers
    BY <1>4, <1>6 DEF Tunnels, SameHandshake
  <2>3. TunnType(u, P)
    BY <1>1, <1>5, <2>1, <2>2 DEF TunnType
  <2>4. SameHandshake(t, u) /\ TimersKept(t, u)
    BY <1>1, <1>5, <2>2 DEF SameHandshake, TimersKept
  <2> QED
    BY <1>1, <1>5, <2>2, <2>3, <2>4 DEF Dates, SameRing
<1> QED
  BY <1>3, <1>6, Zenon

(* Timers::clear sets every timer to now. *)
LEMMA Clear ==
  ASSUME NEW P, NEW t, TunnType(t, P), NEW now \in Nat
  PROVE  LET u == clear(t, now) IN
         /\ TunnType(u, P) /\ SameHandshake(t, u) /\ SameRing(t, u)
         /\ u.packet_queue = t.packet_queue /\ u.write_cookie = t.write_cookie
         /\ \A n \in TimerNames : u.timers[n] = now
<1> DEFINE u == clear(t, now)
<1>1. t \in Tunnels(P)
  BY DEF TunnType
<1>2. u \in Tunnels(P)
  BY <1>1, Zenon DEF Tunnels, clear
<1>3. /\ SameHandshake(t, u) /\ SameRing(t, u)
      /\ u.packet_queue = t.packet_queue /\ u.write_cookie = t.write_cookie
      /\ \A n \in TimerNames : u.timers[n] = now
  BY <1>1 DEF Tunnels, clear, SameHandshake, SameRing
<1> HIDE DEF u
<1> QED
  BY <1>2, <1>3 DEF TunnType, SameRing, u

-----------------------------------------------------------------------------
(* Handshake::format_handshake_initiation draws a key and an index and is  *)
(* the handshake under way.                                                *)
LEMMA InitiationMade ==
  ASSUME NEW P, NEW t, TunnType(t, P), NEW now \in Nat
  PROVE  LET u == InitiationSent(t, now) IN
         /\ TunnType(u, P) /\ Initiates(t, u, now) /\ SameRing(t, u)
         /\ u.packet_queue = t.packet_queue /\ u.write_cookie = t.write_cookie
         /\ u.timers = t.timers
<1> DEFINE u == InitiationSent(t, now)
           hs == [tag |-> "InitSent", local_index |-> inc_index(t), eph |-> t.fresh + 1,
                  static |-> t.static, time_sent |-> now]
<1>1. t \in Tunnels(P)
  BY DEF TunnType
<1>2. /\ t.next_index \in Indices /\ t.fresh \in Nat /\ t.static \in Nat
      /\ t.fresh + 1 \in Nat /\ t.state \in HandshakeStateType
  BY <1>1 DEF Tunnels
<1>3. inc_index(t) \in Indices
  BY <1>2, IndexRange
<1>4. hs \in HandshakeStateType
  BY <1>2, <1>3 DEF HandshakeStateType
<1>5. u = [t EXCEPT !.fresh = t.fresh + 1, !.next_index = inc_index(t), !.previous = t.state,
                    !.state = hs, !.cookie_index = inc_index(t), !.last_mac1 = t.fresh + 1]
  BY <1>1 DEF InitiationSent, append_macs, Tunnels
<1> HIDE DEF u, hs
<1>6. u \in Tunnels(P)
  BY <1>1, <1>2, <1>3, <1>4, <1>5, Zenon DEF Tunnels
<1>7. /\ Initiates(t, u, now) /\ SameRing(t, u)
      /\ u.packet_queue = t.packet_queue /\ u.write_cookie = t.write_cookie
      /\ u.timers = t.timers
  BY <1>1, <1>5 DEF Tunnels, Initiates, SameRing, hs
<1> QED
  BY <1>6, <1>7 DEF TunnType, SameRing, u

(* A call that began a handshake: a new initiation is written to the       *)
(* network.  Only on an expired connection are the timers cleared.         *)
Begins(t, r, now) ==
  LET u == r.tunn IN
  /\ r.kind = "WriteToNetwork" /\ r.msg = Initiation(u)
  /\ Initiates(t, u, now) /\ SameRing(t, u)
  /\ u.packet_queue = t.packet_queue /\ u.write_cookie = t.write_cookie
  /\ ~is_expired(t) => TimersKept(t, u)
  /\ is_expired(t) => \A n \in TimerNames : u.timers[n] = now

(* format_handshake_initiation begins a handshake when it is forced to or  *)
(* none is under way, and does nothing otherwise.                          *)
LEMMA FormatInitiation ==
  ASSUME NEW P, NEW t, TunnType(t, P), NEW now \in Nat
  PROVE  LET r == format_handshake_initiation(t, TRUE, now)
             q == format_handshake_initiation(t, FALSE, now) IN
         /\ TunnType(r.tunn, P) /\ Begins(t, r, now)
         /\ TunnType(q.tunn, P)
         /\ is_in_progress(t) => q = Done(t)
         /\ ~is_in_progress(t) => Begins(t, q, now)
<1> DEFINE t1 == IF is_expired(t) THEN clear(t, now) ELSE t
           t2 == InitiationSent(t1, now)
           t3 == IF is_in_progress(t) THEN t2 ELSE timer_tick(t2, "TimeLastHandshakeStarted")
           t4 == timer_tick(t3, "TimeLastPacketSent")
           res == Result(t4, "WriteToNetwork", Initiation(t2))
<1>1. TunnType(res.tunn, P) /\ Begins(t, res, now)
  <2>2. /\ TunnType(t1, P) /\ SameHandshake(t, t1) /\ SameRing(t, t1)
        /\ t1.packet_queue = t.packet_queue /\ t1.write_cookie = t.write_cookie
        /\ is_expired(t) => \A n \in TimerNames : t1.timers[n] = now
        /\ ~is_expired(t) => t1.timers = t.timers
    <3>1. CASE is_expired(t)
      BY <3>1, Clear
    <3>2. CASE ~is_expired(t)
      BY <3>2 DEF SameHandshake, SameRing
    <3> QED
      BY <3>1, <3>2
  <2> HIDE DEF t1
  <2>3. /\ TunnType(t2, P) /\ Initiates(t1, t2, now) /\ SameRing(t1, t2)
        /\ t2.packet_queue = t1.packet_queue /\ t2.write_cookie = t1.write_cookie
        /\ t2.timers = t1.timers
    BY <2>2, InitiationMade
  <2> HIDE DEF t2
  <2>4. /\ TunnType(t3, P) /\ SameHandshake(t2, t3) /\ SameRing(t2, t3)
        /\ t3.packet_queue = t2.packet_queue /\ TimersKept(t2, t3)
    <3>1. CASE is_in_progress(t)
      BY <2>3, <3>1 DEF SameHandshake, SameRing, TimersKept
    <3>2. CASE ~is_in_progress(t)
      BY <2>3, <3>2, TimerTick, ZenonT(30) DEF TimerNames
    <3> QED
      BY <3>1, <3>2
  <2> HIDE DEF t3
  <2>5. /\ TunnType(t4, P) /\ SameHandshake(t3, t4) /\ SameRing(t3, t4)
        /\ t4.packet_queue = t3.packet_queue /\ TimersKept(t3, t4)
    BY <2>4, TimerTick, Zenon DEF TimerNames
  <2> HIDE DEF t4
  <2>6. res.tunn = t4 /\ res.kind = "WriteToNetwork" /\ res.msg = Initiation(t2)
    BY DEF Result
  <2> HIDE DEF res
  <2>7. Initiates(t, t4, now) /\ SameRing(t, t4)
    BY <2>2, <2>3, <2>4, <2>5 DEF SameHandshake, SameRing, Initiates, inc_index
  <2>8. TimersKept(t2, t4)
    BY <2>4, <2>5, TimersKeptTwice
  <2>9. t4.packet_queue = t.packet_queue /\ t4.write_cookie = t.write_cookie
    BY <2>2, <2>3, <2>4, <2>5, <2>8 DEF TimersKept
  <2>10. ~is_expired(t) => TimersKept(t, t4)
    BY <2>2, <2>3, <2>8 DEF TimersKept
  <2>11. is_expired(t) => \A n \in TimerNames : t4.timers[n] = now
    BY <2>2, <2>3, <2>8 DEF TimersKept, TimerNames
  <2>12. Initiation(t2) = Initiation(t4)
    BY <2>4, <2>5 DEF Initiation, SameHandshake, TimersKept
  <2> QED
    BY <2>5, <2>6, <2>7, <2>9, <2>10, <2>11, <2>12 DEF Begins
<1>2. format_handshake_initiation(t, TRUE, now) = res
  BY DEF format_handshake_initiation
<1>3. ~is_in_progress(t) => format_handshake_initiation(t, FALSE, now) = res
  BY DEF format_handshake_initiation
<1>4. is_in_progress(t) => format_handshake_initiation(t, FALSE, now) = Done(t)
  BY DEF format_handshake_initiation
<1> HIDE DEF res
<1>5. Done(t).tunn = t
  BY DEF Done, Result
<1> QED
  BY <1>1, <1>2, <1>3, <1>4, <1>5, Zenon

-----------------------------------------------------------------------------
(* The number of a slot, and the session in it. *)
LEMMA CurrentSlot ==
  ASSUME NEW P, NEW t, TunnType(t, P)
  PROVE  /\ t.current % N_SESSIONS \in Slots
         /\ CurrentSession(t) \in SessionType \cup {NoSession}
BY IndexRange DEF TunnType, Tunnels, CurrentSession

(* queue_packet appends, unless the queue is full. *)
LEMMA QueuePacket ==
  ASSUME NEW P, NEW t, TunnType(t, P), NEW src \in P
  PROVE  LET u == queue_packet(t, src) IN
         /\ TunnType(u, P) /\ SameHandshake(t, u) /\ SameRing(t, u)
         /\ u.timers = t.timers /\ u.write_cookie = t.write_cookie
         /\ u.packet_queue = IF Len(t.packet_queue) < MAX_QUEUE_DEPTH
                             THEN Append(t.packet_queue, src) ELSE t.packet_queue
<1> DEFINE u == queue_packet(t, src)
<1>1. t \in Tunnels(P) /\ t.packet_queue \in Seq(P)
  BY DEF TunnType, Tunnels
<1>2. CASE Len(t.packet_queue) < MAX_QUEUE_DEPTH
  <2> DEFINE q == Append(t.packet_queue, src)
  <2>1. q \in Seq(P) /\ Len(q) <= MAX_QUEUE_DEPTH
    BY <1>1, <1>2, TunnAssumption
  <2>2. u = [t EXCEPT !.packet_queue = q]
    BY <1>1, <1>2 DEF queue_packet, Tunnels
  <2> HIDE DEF u, q
  <2>3. u \in Tunnels(P)
    BY <1>1, <2>1, <2>2, Zenon DEF Tunnels
  <2>4. /\ SameHandshake(t, u) /\ SameRing(t, u)
        /\ u.timers = t.timers /\ u.write_cookie = t.write_cookie
        /\ u.packet_queue = q
    BY <1>1, <2>2 DEF Tunnels, SameHandshake, SameRing
  <2>5. TunnType(u, P)
    BY <2>1, <2>3, <2>4 DEF TunnType, SameRing
  <2> QED
    BY <1>2, <2>4, <2>5 DEF u, q
<1>3. CASE ~(Len(t.packet_queue) < MAX_QUEUE_DEPTH)
  BY <1>3 DEF queue_packet, SameHandshake, SameRing
<1> QED
  BY <1>2, <1>3

(* The record that encapsulate leaves when the current session seals a     *)
(* packet: its counter is one higher.                                      *)
LEMMA CountedOne ==
  ASSUME NEW s \in SessionType
  PROVE  /\ CountSent(s) \in SessionType
         /\ CountSent(s).receiving_index = s.receiving_index
         /\ CountSent(s).sending_index = s.sending_index
         /\ CountSent(s).key = s.key
         /\ CountSent(s).received = s.received
         /\ CountSent(s).created = s.created
         /\ CountSent(s).sending_key_counter = s.sending_key_counter + 1
BY DEF CountSent, SessionType

(* A session that goes into the slot of its index keeps the ring well      *)
(* formed.                                                                 *)
LEMMA RingUpdate ==
  ASSUME NEW P, NEW t, TunnType(t, P), NEW s \in SessionType, NEW i \in Slots,
         s.receiving_index % N_SESSIONS = i
  PROVE  LET u == [t EXCEPT !.sessions[i] = s] IN
         /\ TunnType(u, P) /\ SameHandshake(t, u)
         /\ u.sessions = [t.sessions EXCEPT ![i] = s]
         /\ u.current = t.current /\ u.session_timers = t.session_timers
         /\ u.packet_queue = t.packet_queue
         /\ u.timers = t.timers /\ u.write_cookie = t.write_cookie
<1> DEFINE u == [t EXCEPT !.sessions[i] = s]
<1>1. t \in Tunnels(P)
  BY DEF TunnType
<1>2. u \in Tunnels(P)
  BY <1>1, Zenon DEF Tunnels
<1>3. /\ SameHandshake(t, u)
      /\ u.sessions = [t.sessions EXCEPT ![i] = s]
      /\ u.current = t.current /\ u.session_timers = t.session_timers
      /\ u.packet_queue = t.packet_queue
      /\ u.timers = t.timers /\ u.write_cookie = t.write_cookie
  BY <1>1 DEF Tunnels, SameHandshake
<1> HIDE DEF u
<1>4. t.sessions \in [Slots -> SessionType \cup {NoSession}]
  BY <1>1 DEF Tunnels
<1>5. TunnType(u, P)
  BY <1>2, <1>3, <1>4 DEF TunnType
<1> QED
  BY <1>3, <1>5 DEF u

(* encapsulate with a current session: the packet is sealed and sent at    *)
(* once, and counted.                                                      *)
Seals(t, r, src) ==
  LET u == r.tunn
      s == CurrentSession(t) IN
  /\ s \in SessionType
  /\ r.kind = "WriteToNetwork" /\ r.msg = DataPacket(t, s, src)
  /\ SameHandshake(t, u)
  /\ u.sessions = [t.sessions EXCEPT ![t.current % N_SESSIONS] = CountSent(s)]
  /\ u.current = t.current /\ u.session_timers = t.session_timers
  /\ u.packet_queue = t.packet_queue
  /\ TimersKept(t, u)

(* Without, it is queued and a handshake is begun unless one is under way. *)
LEMMA Encapsulates ==
  ASSUME NEW P, NEW t, TunnType(t, P), NEW src \in P, NEW now \in Nat
  PROVE  LET r == encapsulate(t, src, now) IN
         /\ TunnType(r.tunn, P)
         /\ CurrentSession(t) = NoSession
              => r = format_handshake_initiation(queue_packet(t, src), FALSE, now)
         /\ CurrentSession(t) # NoSession => Seals(t, r, src)
<1> DEFINE r == encapsulate(t, src, now)
           s == CurrentSession(t)
           i == t.current % N_SESSIONS
           t1 == [t EXCEPT !.sessions[i] = CountSent(s)]
           t2 == timer_tick(t1, "TimeLastPacketSent")
           t3 == IF src = Empty THEN t2 ELSE timer_tick(t2, "TimeLastDataPacketSent")
<1>1. CASE s = NoSession
  <2>1. r = format_handshake_initiation(queue_packet(t, src), FALSE, now)
    BY <1>1 DEF encapsulate
  <2>2. TunnType(queue_packet(t, src), P)
    BY QueuePacket
  <2>3. TunnType(r.tunn, P)
    BY <2>1, <2>2, FormatInitiation, Zenon
  <2> QED
    BY <1>1, <2>1, <2>3, Zenon
<1>2. CASE s # NoSession
  <2>1. i \in Slots /\ s \in SessionType
    BY <1>2, CurrentSlot
  <2>2. CountSent(s) \in SessionType /\ CountSent(s).receiving_index % N_SESSIONS = i
    BY <1>2, <2>1, CountedOne DEF TunnType, CurrentSession
  <2>3. r = Result(t3, "WriteToNetwork", DataPacket(t, s, src))
    BY <1>2 DEF encapsulate
  <2> HIDE DEF s, i
  <2>4. /\ TunnType(t1, P) /\ SameHandshake(t, t1)
        /\ t1.sessions = [t.sessions EXCEPT ![i] = CountSent(s)]
        /\ t1.current = t.current /\ t1.session_timers = t.session_timers
        /\ t1.packet_queue = t.packet_queue
        /\ t1.timers = t.timers /\ t1.write_cookie = t.write_cookie
    BY <2>1, <2>2, RingUpdate
  <2> HIDE DEF t1
  <2>5. /\ TunnType(t2, P) /\ SameHandshake(t1, t2) /\ SameRing(t1, t2)
        /\ t2.packet_queue = t1.packet_queue /\ TimersKept(t1, t2)
    BY <2>4, TimerTick, ZenonT(30) DEF TimerNames
  <2> HIDE DEF t2
  <2>6. /\ TunnType(t3, P) /\ SameHandshake(t2, t3) /\ SameRing(t2, t3)
        /\ t3.packet_queue = t2.packet_queue /\ TimersKept(t2, t3)
    <3>1. CASE src = Empty
      BY <2>5, <3>1 DEF SameHandshake, SameRing, TimersKept
    <3>2. CASE src # Empty
      BY <2>5, <3>2, TimerTick, Zenon DEF TimerNames
    <3> QED
      BY <3>1, <3>2
  <2> HIDE DEF t3
  <2>7. TimersKept(t, t3)
    <3>1. TimersKept(t1, t3)
      BY <2>5, <2>6, TimersKeptTwice
    <3> QED
      BY <2>4, <3>1 DEF TimersKept
  <2>8. /\ SameHandshake(t, t3)
        /\ t3.sessions = [t.sessions EXCEPT ![i] = CountSent(s)]
        /\ t3.current = t.current /\ t3.session_timers = t.session_timers
        /\ t3.packet_queue = t.packet_queue
    BY <2>4, <2>5, <2>6 DEF SameHandshake, SameRing
  <2>9. r.tunn = t3 /\ r.kind = "WriteToNetwork" /\ r.msg = DataPacket(t, s, src)
    BY <2>3 DEF Result
  <2>10. Seals(t, r, src)
    BY <2>1, <2>7, <2>8, <2>9 DEF Seals, s, i
  <2> QED
    BY <1>2, <2>6, <2>9, <2>10, Zenon DEF s
<1> QED
  BY <1>1, <1>2, Zenon

(* send_queued_packet takes the head of the queue to encapsulate. *)
LEMMA TakesHead ==
  ASSUME NEW P, NEW t, TunnType(t, P), t.packet_queue # <<>>, NEW now \in Nat
  PROVE  LET h == [t EXCEPT !.packet_queue = Tail(@)] IN
         /\ TunnType(h, P) /\ SameHandshake(t, h) /\ SameRing(t, h)
         /\ h.packet_queue = Tail(t.packet_queue)
         /\ h.timers = t.timers /\ h.write_cookie = t.write_cookie
         /\ Head(t.packet_queue) \in P
         /\ send_queued_packet(t, now) = encapsulate(h, Head(t.packet_queue), now)
<1> DEFINE h == [t EXCEPT !.packet_queue = Tail(@)]
           q == t.packet_queue
<1>1. t \in Tunnels(P) /\ q \in Seq(P) /\ Len(q) <= MAX_QUEUE_DEPTH
  BY DEF TunnType, Tunnels
<1>2. Tail(q) \in Seq(P) /\ Head(q) \in P /\ Len(Tail(q)) <= MAX_QUEUE_DEPTH
  BY <1>1, TunnAssumption
<1>3. send_queued_packet(t, now) = encapsulate(h, Head(t.packet_queue), now)
  BY DEF send_queued_packet
<1>4. h = [t EXCEPT !.packet_queue = Tail(q)]
  BY <1>1 DEF Tunnels
<1> HIDE DEF h
<1>5. h \in Tunnels(P)
  BY <1>1, <1>2, <1>4, Zenon DEF Tunnels
<1>6. /\ SameHandshake(t, h) /\ SameRing(t, h) /\ h.packet_queue = Tail(q)
      /\ h.timers = t.timers /\ h.write_cookie = t.write_cookie
  BY <1>1, <1>4 DEF Tunnels, SameHandshake, SameRing
<1>7. TunnType(h, P)
  BY <1>2, <1>5, <1>6 DEF TunnType, SameRing
<1> QED
  BY <1>2, <1>3, <1>6, <1>7 DEF h

(* set_current_session moves `current', and nothing else. *)
LEMMA SetCurrent ==
  ASSUME NEW P, NEW t, TunnType(t, P), NEW idx \in Indices
  PROVE  LET u == set_current_session(t, idx) IN
         /\ TunnType(u, P) /\ SameHandshake(t, u)
         /\ u.sessions = t.sessions /\ u.session_timers = t.session_timers
         /\ u.packet_queue = t.packet_queue
         /\ u.timers = t.timers /\ u.write_cookie = t.write_cookie
<1> DEFINE u == set_current_session(t, idx)
<1>1. t \in Tunnels(P)
  BY DEF TunnType
<1>2. u = t \/ u = [t EXCEPT !.current = idx]
  BY DEF set_current_session
<1> HIDE DEF u
<1>3. u \in Tunnels(P)
  BY <1>1, <1>2, ZenonT(30) DEF Tunnels
<1>4. /\ SameHandshake(t, u)
      /\ u.sessions = t.sessions /\ u.session_timers = t.session_timers
      /\ u.packet_queue = t.packet_queue
      /\ u.timers = t.timers /\ u.write_cookie = t.write_cookie
  BY <1>1, <1>2 DEF Tunnels, SameHandshake
<1> QED
  BY <1>3, <1>4 DEF TunnType, u

-----------------------------------------------------------------------------
(* A call that refused its message: nothing changes, nothing is written.   *)
Refuses(t, r) == r.tunn = t /\ r.kind \notin {"WriteToNetwork", "WriteToTunnel"}

(* A session with one more counter in its anti-replay filter. *)
Marked(s, counter) == [s EXCEPT !.received = @ \cup {counter}]

(* Marking a counter changes the filter of the session only. *)
LEMMA MarkedOne ==
  ASSUME NEW s \in SessionType, NEW c \in Nat
  PROVE  /\ Marked(s, c) \in SessionType
         /\ Marked(s, c).receiving_index = s.receiving_index
         /\ Marked(s, c).sending_index = s.sending_index
         /\ Marked(s, c).key = s.key
         /\ Marked(s, c).received = s.received \cup {c}
         /\ Marked(s, c).created = s.created
         /\ Marked(s, c).sending_key_counter = s.sending_key_counter
BY DEF Marked, SessionType

(* handle_data accepted m: the session that m names holds its key, had not *)
(* seen its counter, and has it now.                                       *)
Accepts(t, r, m) ==
  LET u == r.tunn
      i == m.receiver_idx % N_SESSIONS
      s == t.sessions[i] IN
  /\ s \in SessionType /\ s.key = m.key /\ m.counter \notin s.received
  /\ SameHandshake(t, u)
  /\ u.sessions = [t.sessions EXCEPT ![i] = Marked(s, m.counter)]
  /\ u.session_timers = t.session_timers /\ u.packet_queue = t.packet_queue
  /\ TimersKept(t, u)
  /\ r.kind # "WriteToNetwork"
  /\ r.kind = "WriteToTunnel" => m.payload # Empty

(* handle_data refuses the message or accepts it. *)
LEMMA HandleData ==
  ASSUME NEW P, NEW t, TunnType(t, P), NEW m, m.receiver_idx \in Indices, m.counter \in Nat
  PROVE  LET r == handle_data(t, m) IN
         TunnType(r.tunn, P) /\ (Refuses(t, r) \/ Accepts(t, r, m))
<1> DEFINE r == handle_data(t, m)
           i == m.receiver_idx % N_SESSIONS
           s == t.sessions[i]
           t1 == [t EXCEPT !.sessions[i].received = @ \cup {m.counter}]
           t2 == set_current_session(t1, m.receiver_idx)
           t3 == timer_tick(t2, "TimeLastPacketReceived")
           t4 == timer_tick(t3, "TimeLastDataPacketReceived")
<1>0. i \in Slots /\ s \in SessionType \cup {NoSession} /\ t \in Tunnels(P)
  BY IndexRange, Zenon DEF TunnType, Tunnels
<1>1. CASE s = NoSession \/ receive_packet_data(s, m) # "Ok"
  <2>1. receive_packet_data(s, m) \in {"WrongIndex", "InvalidCounter", "Ok", "InvalidAeadTag"}
    BY DEF receive_packet_data
  <2>2. r = Err(t, "NoCurrentSession") \/ r = Err(t, receive_packet_data(s, m))
    BY <1>1 DEF handle_data
  <2>3. s # NoSession => r = Err(t, receive_packet_data(s, m))
    BY <1>1 DEF handle_data
  <2>4. r.tunn = t /\ r.kind \notin {"WriteToNetwork", "WriteToTunnel"}
    BY <2>1, <2>2, <2>3 DEF Err, Result
  <2> QED
    BY <2>4 DEF Refuses
<1>2. CASE s # NoSession /\ receive_packet_data(s, m) = "Ok"
  <2>1. r = validate_decapsulated_packet(t3, m)
    BY <1>2, Zenon DEF handle_data
  <2>2. s \in SessionType /\ s.key = m.key /\ m.counter \notin s.received
    BY <1>0, <1>2 DEF receive_packet_data, will_accept
  <2>3. t1 = [t EXCEPT !.sessions[i] = Marked(s, m.counter)]
    BY <1>0 DEF Marked, Tunnels
  <2>4. Marked(s, m.counter) \in SessionType
        /\ Marked(s, m.counter).receiving_index % N_SESSIONS = i
    BY <1>0, <1>2, <2>2, MarkedOne, Zenon DEF TunnType
  <2> HIDE DEF t1
  <2>5. /\ TunnType(t1, P) /\ SameHandshake(t, t1)
        /\ t1.sessions = [t.sessions EXCEPT ![i] = Marked(s, m.counter)]
        /\ t1.session_timers = t.session_timers
        /\ t1.packet_queue = t.packet_queue
        /\ t1.timers = t.timers /\ t1.write_cookie = t.write_cookie
    BY <1>0, <2>3, <2>4, RingUpdate
  <2>6. /\ TunnType(t2, P) /\ SameHandshake(t1, t2)
        /\ t2.sessions = t1.sessions /\ t2.session_timers = t1.session_timers
        /\ t2.packet_queue = t1.packet_queue
        /\ t2.timers = t1.timers /\ t2.write_cookie = t1.write_cookie
    BY <2>5, SetCurrent
  <2> HIDE DEF t2
  <2>7. /\ TunnType(t3, P) /\ SameHandshake(t2, t3) /\ SameRing(t2, t3)
        /\ t3.packet_queue = t2.packet_queue /\ TimersKept(t2, t3)
    BY <2>6, TimerTick, ZenonT(30) DEF TimerNames
  <2> HIDE DEF t3
  <2>8. /\ TunnType(t4, P) /\ SameHandshake(t3, t4) /\ SameRing(t3, t4)
        /\ t4.packet_queue = t3.packet_queue /\ TimersKept(t3, t4)
    BY <2>7, TimerTick, Zenon DEF TimerNames
  <2>9. /\ SameHandshake(t, t3) /\ SameHandshake(t, t4)
        /\ t3.sessions = t1.sessions /\ t4.sessions = t1.sessions
        /\ t3.session_timers = t.session_timers /\ t4.session_timers = t.session_timers
        /\ t3.packet_queue = t.packet_queue /\ t4.packet_queue = t.packet_queue
    BY <2>5, <2>6, <2>7, <2>8 DEF SameHandshake, SameRing
  <2>10. TimersKept(t, t3)
    BY <2>5, <2>6, <2>7 DEF TimersKept
  <2>11. TimersKept(t, t4)
    BY <2>8, <2>10, TimersKeptTwice
  <2>12. \/ r.tunn = t3 /\ r.kind \in {"Done", "InvalidPacket"}
         \/ r.tunn = t4 /\ r.kind = "WriteToTunnel" /\ m.payload # Empty
    BY <2>1 DEF validate_decapsulated_packet, Done, Err, Result
  <2> HIDE DEF r, t4
  <2>13. Accepts(t, r, m)
    BY <2>2, <2>5, <2>9, <2>10, <2>11, <2>12 DEF Accepts
  <2> QED
    BY <2>7, <2>8, <2>12, <2>13 DEF r
<1> QED
  BY <1>1, <1>2

-----------------------------------------------------------------------------
(* The session of a handshake that t has answered or completed at `now'.   *)
Establishes(t, u, s) ==
  LET i == s.receiving_index % N_SESSIONS IN
  /\ s \in SessionType
  /\ u.me = t.me /\ u.static = t.static
  /\ u.sessions = [t.sessions EXCEPT ![i] = s]
  /\ u.session_timers = [t.session_timers EXCEPT ![i] = t.timers["TimeCurrent"]]
  /\ u.packet_queue = t.packet_queue
  /\ TimersKept(t, u)

(* The part handle_handshake_init and handle_handshake_response share: v   *)
(* is the tunnel after the handshake layer, in which a session is stored.  *)
LEMMA Stored ==
  ASSUME NEW P, NEW v, TunnType(v, P), NEW s \in SessionType
  PROVE  LET t1 == timer_tick(StoreSession(v, s), "TimeLastPacketReceived")
             t2 == timer_tick(t1, "TimeLastPacketSent")
             u == timer_tick_session_established(t1, TRUE, s.receiving_index)
             w == timer_tick_session_established(t2, FALSE, s.receiving_index) IN
         /\ TunnType(u, P) /\ SameHandshake(v, u) /\ Establishes(v, u, s)
         /\ TunnType(w, P) /\ SameHandshake(v, w) /\ Establishes(v, w, s)
<1> DEFINE i == s.receiving_index % N_SESSIONS
           t0 == StoreSession(v, s)
           t1 == timer_tick(t0, "TimeLastPacketReceived")
           t2 == timer_tick(t1, "TimeLastPacketSent")
<1>1. s.receiving_index \in Indices /\ i \in Slots
  BY IndexRange DEF SessionType
<1>2. t0 = [v EXCEPT !.sessions[i] = s]
  BY DEF StoreSession
<1> HIDE DEF t0
<1>3. /\ TunnType(t0, P) /\ SameHandshake(v, t0)
      /\ t0.sessions = [v.sessions EXCEPT ![i] = s]
      /\ t0.session_timers = v.session_timers
      /\ t0.packet_queue = v.packet_queue
      /\ t0.timers = v.timers /\ t0.write_cookie = v.write_cookie
  BY <1>1, <1>2, RingUpdate
<1>4. /\ TunnType(t1, P) /\ SameHandshake(t0, t1) /\ SameRing(t0, t1)
      /\ t1.packet_queue = t0.packet_queue /\ TimersKept(t0, t1)
  BY <1>3, TimerTick, ZenonT(30) DEF TimerNames
<1> HIDE DEF t1
<1>5. /\ TunnType(t2, P) /\ SameHandshake(t1, t2) /\ SameRing(t1, t2)
      /\ t2.packet_queue = t1.packet_queue /\ TimersKept(t1, t2)
  BY <1>4, TimerTick, Zenon DEF TimerNames
<1> HIDE DEF t2
<1>6. TimersKept(t0, t2)
  BY <1>4, <1>5, TimersKeptTwice
<1>7. ASSUME NEW w \in {t1, t2}, NEW u, TunnType(u, P), Dates(w, u, s.receiving_index)
      PROVE  SameHandshake(v, u) /\ Establishes(v, u, s)
  <2>1. /\ SameHandshake(t0, w) /\ SameRing(t0, w)
        /\ w.packet_queue = t0.packet_queue /\ TimersKept(t0, w)
    BY <1>4, <1>5, <1>6 DEF SameHandshake, SameRing
  <2>2. TimersKept(t0, u)
    BY <1>7, <2>1, TimersKeptTwice, Zenon DEF Dates
  <2>3. TimersKept(v, u) /\ w.timers["TimeCurrent"] = v.timers["TimeCurrent"]
    BY <1>3, <2>1, <2>2 DEF TimersKept, TimerNames
  <2>4. SameHandshake(v, u)
    BY <1>3, <1>7, <2>1 DEF SameHandshake, Dates
  <2>5. Establishes(v, u, s)
    BY <1>3, <1>7, <2>1, <2>3, <2>4 DEF Establishes, SameHandshake, SameRing, Dates
  <2> QED
    BY <2>4, <2>5
<1>8. LET u == timer_tick_session_established(t1, TRUE, s.receiving_index)
          w == timer_tick_session_established(t2, FALSE, s.receiving_index) IN
      /\ TunnType(u, P) /\ Dates(t1, u, s.receiving_index)
      /\ TunnType(w, P) /\ Dates(t2, w, s.receiving_index)
  BY <1>1, <1>4, <1>5, SessionEstablished, Zenon
<1> QED
  BY <1>7, <1>8, Zenon DEF t0, t1, t2

(* handle_handshake_init accepted m: it drew a key and an index, answered, *)
(* and holds the session of the answer.                                    *)
Answers(t, r, m, now) ==
  LET u == r.tunn IN
  /\ r.kind = "WriteToNetwork" /\ r.msg = Response(u, m)
  /\ u.fresh = t.fresh + 1 /\ u.next_index = inc_index(t)
  /\ u.previous = t.state /\ u.state = HsNone
  /\ Establishes(t, u, NewSession(inc_index(t), m.sender_idx,
                                  Key(m.from, m.eph, t.fresh + 1), now))

(* handle_handshake_init refuses the initiation or answers it with a       *)
(* session.                                                                *)
LEMMA HandleInit ==
  ASSUME NEW P, NEW t, TunnType(t, P), NEW now \in Nat,
         NEW m, m.from \in Endpoints, m.sender_idx \in Indices, m.eph \in Nat
  PROVE  LET r == handle_handshake_init(t, m, now) IN
         TunnType(r.tunn, P) /\ (Refuses(t, r) \/ Answers(t, r, m, now))
<1> DEFINE r == handle_handshake_init(t, m, now)
           hs == receive_handshake_initialization(t, m)
           v == format_handshake_response(
                  [t EXCEPT !.last_handshake_timestamp = m.eph, !.previous = t.state])
           s == NewSession(v.next_index, m.sender_idx, Key(m.from, m.eph, v.fresh), now)
           t1 == timer_tick(StoreSession(v, s), "TimeLastPacketReceived")
           t2 == timer_tick(t1, "TimeLastPacketSent")
           u == timer_tick_session_established(t2, FALSE, v.next_index)
<1>0. t \in Tunnels(P)
  BY DEF TunnType
<1>1. \/ hs.tunn = t /\ hs.kind \in {"InvalidAeadTag", "WrongKey", "WrongTai64nTimestamp"}
      \/ hs = Result(v, "Ok", Response(v, m))
  BY DEF receive_handshake_initialization, Err, Result
<1>2. CASE hs.kind # "Ok"
  <2>1. r = hs
    BY <1>2 DEF handle_handshake_init
  <2>2. Refuses(t, r)
    BY <1>1, <1>2, <2>1 DEF Refuses, Result
  <2> QED
    BY <2>2 DEF Refuses
<1>3. CASE hs.kind = "Ok"
  <2>1. hs.tunn = v /\ hs.msg = Response(v, m)
    BY <1>1, <1>3 DEF Result
  <2>2. r = Result(u, "WriteToNetwork", Response(v, m))
    BY <1>3, <2>1 DEF handle_handshake_init
  <2>3. v = [t EXCEPT !.last_handshake_timestamp = m.eph, !.previous = t.state,
                      !.state = HsNone, !.fresh = t.fresh + 1, !.next_index = inc_index(t),
                      !.cookie_index = inc_index(t), !.last_mac1 = t.fresh + 1]
    BY <1>0 DEF format_handshake_response, append_macs, Tunnels, inc_index
  <2>4. /\ t.fresh + 1 \in Nat /\ inc_index(t) \in Indices
        /\ t.state \in HandshakeStateType /\ HsNone \in HandshakeStateType
    <3>1. t.fresh \in Nat /\ t.next_index \in Indices /\ t.state \in HandshakeStateType
      BY <1>0 DEF Tunnels
    <3> QED
      BY <3>1, IndexRange DEF HandshakeStateType
  <2> HIDE DEF v, hs
  <2>5. v \in Tunnels(P)
    <3> DEFINE x == [t EXCEPT !.last_handshake_timestamp = m.eph, !.previous = t.state,
                              !.state = HsNone]
    <3>1. x \in Tunnels(P)
      BY <1>0, <2>4, Zenon DEF Tunnels
    <3>2. v = [x EXCEPT !.fresh = t.fresh + 1, !.next_index = inc_index(t),
                        !.cookie_index = inc_index(t), !.last_mac1 = t.fresh + 1]
      BY <2>3
    <3> HIDE DEF x
    <3> QED
      BY <2>4, <3>1, <3>2, Zenon DEF Tunnels
  <2>6. /\ v.me = t.me /\ v.static = t.static /\ v.fresh = t.fresh + 1
        /\ v.next_index = inc_index(t) /\ v.previous = t.state /\ v.state = HsNone
        /\ SameRing(t, v) /\ v.packet_queue = t.packet_queue
        /\ v.timers = t.timers /\ v.write_cookie = t.write_cookie
    BY <1>0, <2>3 DEF Tunnels, SameRing
  <2>7. TunnType(v, P)
    BY <2>5, <2>6 DEF TunnType, SameRing
  <2>8. s \in SessionType /\ s.receiving_index = v.next_index
    <3>1. v.next_index \in Indices /\ v.fresh \in Nat
      BY <2>4, <2>6
    <3> QED
      BY <3>1 DEF NewSession, Key, SessionType
  <2>9. s = NewSession(inc_index(t), m.sender_idx, Key(m.from, m.eph, t.fresh + 1), now)
    BY <2>6
  <2> HIDE DEF s
  <2>10. /\ TunnType(u, P) /\ SameHandshake(v, u) /\ Establishes(v, u, s)
    BY <2>7, <2>8, Stored, Zenon
  <2> HIDE DEF u
  <2>11. Establishes(t, u, s)
    BY <2>6, <2>10 DEF Establishes, SameRing, TimersKept
  <2>12. r.tunn = u /\ r.kind = "WriteToNetwork" /\ r.msg = Response(v, m)
    BY <2>2 DEF Result
  <2>13. Response(v, m) = Response(u, m)
    BY <2>10 DEF Response, SameHandshake, Establishes, TimersKept
  <2>14. Answers(t, r, m, now)
    BY <2>6, <2>9, <2>10, <2>11, <2>12, <2>13 DEF Answers, SameHandshake
  <2> QED
    BY <2>10, <2>12, <2>14
<1> QED
  BY <1>2, <1>3

(* handle_handshake_response accepted m: it answers the last or the one    *)
(* before the last initiation, which is no longer awaited, and the session *)
(* it makes has sealed a keepalive.                                        *)
Completed(t, m, now) ==
  NewSession(m.receiver_idx, m.sender_idx, Key(t.me, m.initEph, m.eph), now)

Confirms(t, r, m, now) ==
  LET u == r.tunn IN
  /\ r.kind = "WriteToNetwork" /\ r.msg = DataPacket(t, Completed(t, m, now), Empty)
  /\ u.fresh = t.fresh /\ u.next_index = t.next_index
  /\ \/ /\ Awaits(t.state, m) /\ t.state.eph = m.initEph
        /\ u.state = HsNone /\ u.previous = t.previous
     \/ /\ Awaits(t.previous, m) /\ t.previous.eph = m.initEph
        /\ u.state = t.state /\ u.previous = HsNone
  /\ Establishes(t, u, CountSent(Completed(t, m, now)))

(* handle_handshake_response refuses the response or completes the         *)
(* handshake it answers.                                                   *)
LEMMA HandleResponse ==
  ASSUME NEW P, NEW t, TunnType(t, P), NEW now \in Nat,
         NEW m, m.sender_idx \in Indices, m.initEph \in Nat, m.eph \in Nat
  PROVE  LET r == handle_handshake_response(t, m, now) IN
         TunnType(r.tunn, P) /\ (Refuses(t, r) \/ Confirms(t, r, m, now))
<1> DEFINE r == handle_handshake_response(t, m, now)
           hs == receive_handshake_response(t, m, now)
           s == Completed(t, m, now)
           c == CountSent(s)
           a == [t EXCEPT !.state = HsNone]
           b == [t EXCEPT !.previous = HsNone]
<1>0. t \in Tunnels(P) /\ t.me \in Endpoints
  BY DEF TunnType, Tunnels
<1>1. \/ hs.tunn = t /\ hs.kind \in {"UnexpectedPacket", "InvalidAeadTag"}
      \/ Awaits(t.state, m) /\ t.state.eph = m.initEph /\ hs = Result(a, "Ok", s)
      \/ Awaits(t.previous, m) /\ t.previous.eph = m.initEph /\ hs = Result(b, "Ok", s)
  BY DEF receive_handshake_response, Err, Result, Awaits, Completed
<1>2. CASE hs.kind # "Ok"
  <2>1. r = hs
    BY <1>2 DEF handle_handshake_response
  <2>2. Refuses(t, r)
    BY <1>1, <1>2, <2>1 DEF Refuses, Result
  <2> QED
    BY <2>2 DEF Refuses
<1>3. CASE hs.kind = "Ok"
  <2>1. PICK v \in {a, b} :
          /\ hs = Result(v, "Ok", s)
          /\ \/ v = a /\ Awaits(t.state, m) /\ t.state.eph = m.initEph
             \/ v = b /\ Awaits(t.previous, m) /\ t.previous.eph = m.initEph
    BY <1>1, <1>3
  <2> DEFINE t1 == timer_tick(StoreSession(v, c), "TimeLastPacketReceived")
             t2 == timer_tick_session_established(t1, TRUE, s.receiving_index)
             u == set_current_session(t2, s.receiving_index)
  <2>2. hs.tunn = v /\ hs.msg = s
    BY <2>1 DEF Result
  <2>3. r = Result(u, "WriteToNetwork", DataPacket(t, s, Empty))
    BY <1>3, <2>2 DEF handle_handshake_response
  <2>4. v \in Tunnels(P)
    <3>1. HsNone \in HandshakeStateType
      BY DEF HandshakeStateType
    <3> QED
      BY <1>0, <2>1, <3>1, ZenonT(30) DEF Tunnels
  <2>5. /\ v.me = t.me /\ v.static = t.static /\ v.fresh = t.fresh
        /\ v.next_index = t.next_index
        /\ SameRing(t, v) /\ v.packet_queue = t.packet_queue
        /\ v.timers = t.timers /\ v.write_cookie = t.write_cookie
        /\ \/ v.state = HsNone /\ v.previous = t.previous /\ Awaits(t.state, m)
              /\ t.state.eph = m.initEph
           \/ v.state = t.state /\ v.previous = HsNone /\ Awaits(t.previous, m)
              /\ t.previous.eph = m.initEph
    BY <1>0, <2>1, ZenonT(30) DEF Tunnels, SameRing
  <2>6. TunnType(v, P)
    BY <2>4, <2>5 DEF TunnType, SameRing
  <2>7. m.receiver_idx \in Indices
    <3>1. t.state \in HandshakeStateType /\ t.previous \in HandshakeStateType
      BY <1>0 DEF Tunnels
    <3> QED
      BY <2>5, <3>1, Kinds DEF Awaits
  <2>8. s \in SessionType /\ s.receiving_index = m.receiver_idx
    BY <1>0, <2>7 DEF Completed, NewSession, Key, SessionType
  <2>9. c \in SessionType /\ c.receiving_index = s.receiving_index
    BY <2>8, CountedOne
  <2> HIDE DEF s, c, hs, a, b
  <2>10. TunnType(t2, P) /\ SameHandshake(v, t2) /\ Establishes(v, t2, c)
    BY <2>6, <2>9, Stored, Zenon
  <2> HIDE DEF t2
  <2>11. /\ TunnType(u, P) /\ SameHandshake(t2, u)
         /\ u.sessions = t2.sessions /\ u.session_timers = t2.session_timers
         /\ u.packet_queue = t2.packet_queue
         /\ u.timers = t2.timers /\ u.write_cookie = t2.write_cookie
    BY <2>7, <2>8, <2>10, SetCurrent
  <2> HIDE DEF u
  <2>12. Establishes(t, u, c)
    <3>1. Establishes(t, t2, c)
      BY <2>5, <2>10 DEF Establishes, SameRing, TimersKept
    <3> QED
      BY <2>11, <3>1, Zenon DEF Establishes, TimersKept, SameHandshake
  <2>13. r.tunn = u /\ r.kind = "WriteToNetwork" /\ r.msg = DataPacket(t, s, Empty)
    BY <2>3 DEF Result
  <2>14. Confirms(t, r, m, now)
    BY <2>5, <2>10, <2>11, <2>12, <2>13, Zenon DEF Confirms, SameHandshake, s, c
  <2> QED
    BY <2>11, <2>13, <2>14
<1> QED
  BY <1>2, <1>3

(* handle_cookie_reply: the cookie is stored and dated, nothing is sent.   *)
StoresCookie(t, r, m) ==
  LET u == r.tunn IN
  /\ r.kind = "Done"
  /\ SameHandshake(t, u) /\ SameRing(t, u) /\ u.packet_queue = t.packet_queue
  /\ u.write_cookie = m.cookie
  /\ \A n \in TimerNames : u.timers[n] \in {t.timers[n], t.timers["TimeCurrent"]}
  /\ u.timers["TimeCookieReceived"] = t.timers["TimeCurrent"]

(* handle_cookie_reply refuses the reply or stores its cookie. *)
LEMMA HandleCookie ==
  ASSUME NEW P, NEW t, TunnType(t, P), NEW m, m.cookie \in Nat
  PROVE  LET r == handle_cookie_reply(t, m) IN
         TunnType(r.tunn, P) /\ (Refuses(t, r) \/ StoresCookie(t, r, m))
<1> DEFINE r == handle_cookie_reply(t, m)
           hs == receive_cookie_reply(t, m)
           v == [t EXCEPT !.write_cookie = m.cookie]
           t1 == timer_tick(v, "TimeLastPacketReceived")
           t2 == timer_tick(t1, "TimeCookieReceived")
<1>0. t \in Tunnels(P)
  BY DEF TunnType
<1>1. \/ hs.tunn = t /\ hs.kind \in {"UnexpectedPacket", "WrongIndex", "InvalidAeadTag"}
      \/ hs = Result(v, "Ok", NoMsg)
  BY DEF receive_cookie_reply, Err, Result
<1>2. CASE hs.kind # "Ok"
  <2>1. r = hs
    BY <1>2 DEF handle_cookie_reply
  <2>2. Refuses(t, r)
    BY <1>1, <1>2, <2>1 DEF Refuses, Result
  <2> QED
    BY <2>2 DEF Refuses
<1>3. CASE hs.kind = "Ok"
  <2>1. hs.tunn = v
    BY <1>1, <1>3 DEF Result
  <2>2. r = Done(t2)
    BY <1>3, <2>1 DEF handle_cookie_reply
  <2> HIDE DEF hs
  <2>3. v \in Tunnels(P)
    BY <1>0, Zenon DEF Tunnels
  <2>4. /\ SameHandshake(t, v) /\ SameRing(t, v) /\ v.packet_queue = t.packet_queue
        /\ v.write_cookie = m.cookie /\ v.timers = t.timers
    BY <1>0 DEF Tunnels, SameHandshake, SameRing
  <2>5. TunnType(v, P)
    BY <2>3, <2>4 DEF TunnType, SameRing
  <2> HIDE DEF v
  <2>6. /\ TunnType(t1, P) /\ SameHandshake(v, t1) /\ SameRing(v, t1)
        /\ t1.packet_queue = v.packet_queue /\ TimersKept(v, t1)
    BY <2>5, TimerTick, ZenonT(30) DEF TimerNames
  <2> HIDE DEF t1
  <2>7. /\ TunnType(t2, P) /\ SameHandshake(t1, t2) /\ SameRing(t1, t2)
        /\ t2.packet_queue = t1.packet_queue /\ t2.write_cookie = t1.write_cookie
        /\ t2.timers = [t1.timers EXCEPT !["TimeCookieReceived"] = t1.timers["TimeCurrent"]]
    BY <2>6, TimerTick, Zenon DEF TimerNames
  <2>8. t1.timers \in [TimerNames -> Nat]
    BY <2>6 DEF TunnType, Tunnels
  <2> HIDE DEF t2
  <2>9. /\ \A n \in TimerNames : t2.timers[n] \in {t.timers[n], t.timers["TimeCurrent"]}
        /\ t2.timers["TimeCookieReceived"] = t.timers["TimeCurrent"]
    BY <2>4, <2>6, <2>7, <2>8, Zenon DEF TimersKept, TimerNames
  <2>10. /\ SameHandshake(t, t2) /\ SameRing(t, t2)
         /\ t2.packet_queue = t.packet_queue /\ t2.write_cookie = m.cookie
    BY <2>4, <2>6, <2>7 DEF SameHandshake, SameRing, TimersKept
  <2>11. r.tunn = t2 /\ r.kind = "Done"
    BY <2>2 DEF Done, Result
  <2>12. StoresCookie(t, r, m)
    BY <2>9, <2>10, <2>11 DEF StoresCookie
  <2> QED
    BY <2>7, <2>11, <2>12
<1> QED
  BY <1>2, <1>3

(* set_static_private empties the session ring. *)
LEMMA KeyReplaced ==
  ASSUME NEW P, NEW t, TunnType(t, P), NEW key \in Nat
  PROVE  LET u == set_static_private(t, key) IN
         /\ TunnType(u, P)
         /\ \A i \in Slots : u.sessions[i] = NoSession
         /\ u.state = t.state /\ u.previous = t.previous
         /\ u.packet_queue = t.packet_queue /\ u.session_timers = t.session_timers
         /\ u.timers = t.timers /\ u.write_cookie = t.write_cookie
<1> DEFINE u == set_static_private(t, key)
<1>1. t \in Tunnels(P)
  BY DEF TunnType
<1>2. u \in Tunnels(P)
  BY <1>1, Zenon DEF set_static_private, Tunnels
<1>3. /\ \A i \in Slots : u.sessions[i] = NoSession
      /\ u.state = t.state /\ u.previous = t.previous
      /\ u.packet_queue = t.packet_queue /\ u.session_timers = t.session_timers
      /\ u.timers = t.timers /\ u.write_cookie = t.write_cookie
  BY <1>1 DEF set_static_private, Tunnels
<1> HIDE DEF u
<1> QED
  BY <1>2, <1>3 DEF TunnType, u

-----------------------------------------------------------------------------
(* What update_timers does before it decides what to send: the time moves, *)
(* old sessions go, and an old cookie goes unless the connection has       *)
(* expired.                                                                *)
Aged(t, a, now) ==
  /\ SameHandshake(t, a) /\ a.packet_queue = t.packet_queue
  /\ a.timers["TimeCurrent"] = now
  /\ \A n \in TimerNames : a.timers[n] \in {t.timers[n], now}
  /\ a.timers["TimeCookieReceived"] = t.timers["TimeCookieReceived"]
  /\ \A i \in Slots :
       IF now - t.session_timers[i] > REJECT_AFTER_TIME
       THEN a.sessions[i] = NoSession /\ a.session_timers[i] = now
       ELSE a.sessions[i] = t.sessions[i] /\ a.session_timers[i] = t.session_timers[i]
  /\ a.write_cookie \in {t.write_cookie, NoCookie}
  /\ ~is_expired(t) /\ a.write_cookie # NoCookie
       => now - t.timers["TimeCookieReceived"] < COOKIE_EXPIRATION_TIME

(* The first half of update_timers: sessions and the cookie age. *)
LEMMA SessionsAge ==
  ASSUME NEW P, NEW t, TunnType(t, P), NEW now \in Nat
  PROVE  LET a == update_session_timers([t EXCEPT !.timers["TimeCurrent"] = now], now)
             c == clear_cookie(a, now) IN
         /\ TunnType(a, P) /\ (is_expired(t) => Aged(t, a, now))
         /\ TunnType(c, P) /\ Aged(t, c, now)
<1> DEFINE x == [t EXCEPT !.timers["TimeCurrent"] = now]
           a == update_session_timers(x, now)
           c == clear_cookie(a, now)
<1>1. t \in Tunnels(P)
  BY DEF TunnType
<1>2. x \in Tunnels(P)
  BY <1>1, Zenon DEF Tunnels, TimerNames
<1>3. /\ SameHandshake(t, x) /\ SameRing(t, x) /\ x.packet_queue = t.packet_queue
      /\ x.write_cookie = t.write_cookie
      /\ x.timers = [t.timers EXCEPT !["TimeCurrent"] = now]
  BY <1>1 DEF Tunnels, SameHandshake, SameRing
<1> HIDE DEF x
<1>4. a \in Tunnels(P)
  BY <1>2, Zenon DEF update_session_timers, Tunnels
<1>5. /\ SameHandshake(x, a) /\ a.packet_queue = x.packet_queue
      /\ a.write_cookie = x.write_cookie /\ a.timers = x.timers
      /\ \A i \in Slots :
           IF now - x.session_timers[i] > REJECT_AFTER_TIME
           THEN a.sessions[i] = NoSession /\ a.session_timers[i] = now
           ELSE a.sessions[i] = x.sessions[i] /\ a.session_timers[i] = x.session_timers[i]
  BY <1>2 DEF update_session_timers, Tunnels, SameHandshake
<1> HIDE DEF a
<1>6. TunnType(a, P)
  BY <1>3, <1>4, <1>5 DEF TunnType, SameRing
<1>7. /\ SameHandshake(t, a) /\ a.packet_queue = t.packet_queue
      /\ a.write_cookie = t.write_cookie
      /\ a.timers["TimeCurrent"] = now
      /\ \A n \in TimerNames : a.timers[n] \in {t.timers[n], now}
      /\ a.timers["TimeCookieReceived"] = t.timers["TimeCookieReceived"]
      /\ \A i \in Slots :
           IF now - t.session_timers[i] > REJECT_AFTER_TIME
           THEN a.sessions[i] = NoSession /\ a.session_timers[i] = now
           ELSE a.sessions[i] = t.sessions[i] /\ a.session_timers[i] = t.session_timers[i]
  <2>1. t.timers \in [TimerNames -> Nat]
    BY <1>1 DEF Tunnels
  <2>2. /\ a.timers["TimeCurrent"] = now
        /\ \A n \in TimerNames : a.timers[n] \in {t.timers[n], now}
        /\ a.timers["TimeCookieReceived"] = t.timers["TimeCookieReceived"]
    BY <1>3, <1>5, <2>1 DEF TimerNames
  <2>3. SameHandshake(t, a) /\ a.packet_queue = t.packet_queue
        /\ a.write_cookie = t.write_cookie
    BY <1>3, <1>5 DEF SameHandshake
  <2> QED
    BY <1>3, <1>5, <2>2, <2>3 DEF SameRing
<1>8. is_expired(t) => Aged(t, a, now)
  BY <1>7 DEF Aged
<1>9. CASE a.write_cookie = NoCookie
           \/ now - t.timers["TimeCookieReceived"] < COOKIE_EXPIRATION_TIME
  <2>1. c = a \/ c = [a EXCEPT !.write_cookie = NoCookie]
    BY DEF clear_cookie
  <2> HIDE DEF c
  <2>2. c \in Tunnels(P)
    <3>1. [a EXCEPT !.write_cookie = NoCookie] \in Tunnels(P)
      BY <1>4, Zenon DEF Tunnels, NoCookie
    <3> QED
      BY <1>4, <2>1, <3>1
  <2>3. /\ SameHandshake(a, c) /\ SameRing(a, c) /\ c.packet_queue = a.packet_queue
        /\ c.timers = a.timers /\ c.write_cookie \in {a.write_cookie, NoCookie}
    BY <1>4, <2>1 DEF Tunnels, SameHandshake, SameRing
  <2>4. TunnType(c, P)
    BY <1>6, <2>2, <2>3, Zenon DEF TunnType, SameRing
  <2>5. Aged(t, c, now)
    BY <1>7, <1>9, <2>3, ZenonT(30) DEF Aged, SameHandshake, SameRing
  <2> QED
    BY <1>6, <1>8, <2>4, <2>5 DEF x, a, c
<1>10. CASE ~(a.write_cookie = NoCookie
              \/ now - t.timers["TimeCookieReceived"] < COOKIE_EXPIRATION_TIME)
  <2>1. Age(a, "TimeCookieReceived", now) >= COOKIE_EXPIRATION_TIME
    <3>1. t.timers["TimeCookieReceived"] \in Nat
      BY <1>1 DEF Tunnels, TimerNames
    <3> QED
      BY <1>7, <1>10, <3>1, TunnAssumption DEF Age
  <2>2. c = [a EXCEPT !.write_cookie = NoCookie]
    BY <2>1 DEF clear_cookie
  <2> HIDE DEF c
  <2>3. c \in Tunnels(P)
    BY <1>4, <2>2, Zenon DEF Tunnels, NoCookie
  <2>4. /\ SameHandshake(a, c) /\ SameRing(a, c) /\ c.packet_queue = a.packet_queue
        /\ c.timers = a.timers /\ c.write_cookie = NoCookie
    BY <1>4, <2>2 DEF Tunnels, SameHandshake, SameRing
  <2>5. TunnType(c, P)
    BY <1>6, <2>3, <2>4, Zenon DEF TunnType, SameRing
  <2>6. Aged(t, c, now)
    BY <1>7, <2>4, ZenonT(30) DEF Aged, SameHandshake, SameRing
  <2> QED
    BY <1>6, <1>8, <2>5, <2>6 DEF x, a, c
<1> QED
  BY <1>9, <1>10

(* An endpoint that gave up: its handshakes have expired, the ring and the *)
(* queue are empty.                                                        *)
GaveUp(a, r, now) ==
  LET u == r.tunn IN
  /\ r.kind = "ConnectionExpired"
  /\ u.me = a.me /\ u.static = a.static /\ u.fresh = a.fresh
  /\ u.next_index = a.next_index
  /\ u.state = HsExpired /\ u.previous = HsExpired
  /\ u.packet_queue = <<>>
  /\ \A i \in Slots : u.sessions[i] = NoSession
  /\ u.session_timers = a.session_timers
  /\ u.write_cookie = a.write_cookie
  /\ \A n \in TimerNames : u.timers[n] = now

(* set_expired followed by clear_all leaves an empty connection. *)
LEMMA Expires ==
  ASSUME NEW P, NEW a, TunnType(a, P), NEW now \in Nat
  PROVE  LET r == Err(clear_all(set_expired(a), now), "ConnectionExpired") IN
         TunnType(r.tunn, P) /\ GaveUp(a, r, now)
<1> DEFINE x == set_expired(a)
           y == [x EXCEPT !.sessions = [i \in Slots |-> NoSession], !.packet_queue = <<>>]
           u == clear(y, now)
<1>1. a \in Tunnels(P) /\ HsExpired \in HandshakeStateType
  BY DEF TunnType, HandshakeStateType
<1>2. x \in Tunnels(P)
  BY <1>1, Zenon DEF Tunnels, set_expired
<1>3. /\ x.me = a.me /\ x.static = a.static /\ x.fresh = a.fresh
      /\ x.next_index = a.next_index /\ x.state = HsExpired /\ x.previous = HsExpired
      /\ x.session_timers = a.session_timers /\ x.write_cookie = a.write_cookie
  BY <1>1 DEF Tunnels, set_expired
<1> HIDE DEF x
<1>4. <<>> \in Seq(P) /\ Len(<<>>) <= MAX_QUEUE_DEPTH
  BY TunnAssumption
<1>5. y \in Tunnels(P)
  BY <1>2, <1>4, Zenon DEF Tunnels
<1>6. /\ SameHandshake(x, y) /\ y.packet_queue = <<>>
      /\ \A i \in Slots : y.sessions[i] = NoSession
      /\ y.session_timers = x.session_timers /\ y.write_cookie = x.write_cookie
  BY <1>2 DEF Tunnels, SameHandshake
<1> HIDE DEF y
<1>7. TunnType(y, P)
  BY <1>4, <1>5, <1>6 DEF TunnType
<1>8. /\ TunnType(u, P) /\ SameHandshake(y, u) /\ SameRing(y, u)
      /\ u.packet_queue = y.packet_queue /\ u.write_cookie = y.write_cookie
      /\ \A n \in TimerNames : u.timers[n] = now
  BY <1>7, Clear
<1>9. clear_all(set_expired(a), now) = u
  BY DEF clear_all, x, y
<1> HIDE DEF u
<1>10. LET r == Err(u, "ConnectionExpired") IN r.tunn = u /\ r.kind = "ConnectionExpired"
  BY DEF Err, Result
<1> QED
  BY <1>3, <1>6, <1>8, <1>9, <1>10 DEF GaveUp, SameHandshake, SameRing

(* The tunnels that update_idle hands on differ from its argument in their *)
(* wishes and perhaps in the timer of the persistent keepalive.            *)
LEMMA Idle ==
  ASSUME NEW P, NEW t, TunnType(t, P), NEW now \in Nat
  PROVE  \E a : /\ TunnType(a, P) /\ SameHandshake(t, a) /\ SameRing(t, a)
                /\ a.packet_queue = t.packet_queue /\ TimersKept(t, a)
                /\ update_idle(t, now) \in {format_handshake_initiation(a, TRUE, now),
                                            encapsulate(a, Empty, now), Done(a)}
<1> DEFINE t1 == [t EXCEPT !.want_handshake = @ /\ ~NoAnswer(t, now)]
           t2 == [t1 EXCEPT !.want_keepalive = @ /\ ~KeepaliveDue(t, now)]
           t3 == IF PersistentDue(t, now) THEN timer_tick(t2, "TimePersistentKeepalive") ELSE t2
           Like(a) == /\ TunnType(a, P) /\ SameHandshake(t, a) /\ SameRing(t, a)
                      /\ a.packet_queue = t.packet_queue /\ TimersKept(t, a)
<1>1. t \in Tunnels(P)
  BY DEF TunnType
<1>2. ASSUME NEW x \in Tunnels(P), NEW y, NEW b \in BOOLEAN,
             \/ y = [x EXCEPT !.want_handshake = b]
             \/ y = [x EXCEPT !.want_keepalive = b]
      PROVE  /\ y \in Tunnels(P) /\ SameHandshake(x, y) /\ SameRing(x, y)
             /\ y.packet_queue = x.packet_queue /\ y.timers = x.timers
             /\ y.write_cookie = x.write_cookie
  <2>1. y \in Tunnels(P)
    BY <1>2, ZenonT(30) DEF Tunnels
  <2> QED
    BY <1>2, <2>1, ZenonT(30) DEF Tunnels, SameHandshake, SameRing
<1>3. PICK b \in BOOLEAN : t1 = [t EXCEPT !.want_handshake = b]
  BY Zenon
<1>4. PICK d \in BOOLEAN : t2 = [t1 EXCEPT !.want_keepalive = d]
  BY Zenon
<1>5. Like(t1)
  BY <1>1, <1>2, <1>3 DEF TunnType, SameRing, TimersKept
<1>6. Like(t2)
  <2>1. t1 \in Tunnels(P)
    BY <1>5 DEF TunnType
  <2> HIDE DEF t1
  <2>2. /\ t2 \in Tunnels(P) /\ SameHandshake(t1, t2) /\ SameRing(t1, t2)
        /\ t2.packet_queue = t1.packet_queue /\ t2.timers = t1.timers
        /\ t2.write_cookie = t1.write_cookie
    BY <1>2, <1>4, <2>1
  <2> HIDE DEF t2
  <2> QED
    BY <1>5, <2>2 DEF TunnType, SameHandshake, SameRing, TimersKept
<1> HIDE DEF t1, t2
<1>7. Like(t3)
  <2>1. CASE PersistentDue(t, now)
    <3>1. /\ TunnType(t3, P) /\ SameHandshake(t2, t3) /\ SameRing(t2, t3)
          /\ t3.packet_queue = t2.packet_queue /\ TimersKept(t2, t3)
      BY <1>6, <2>1, TimerTick, Zenon DEF TimerNames
    <3> QED
      BY <1>6, <3>1, TimersKeptTwice DEF SameHandshake, SameRing
  <2>2. CASE ~PersistentDue(t, now)
    BY <1>6, <2>2
  <2> QED
    BY <2>1, <2>2
<1>8. \/ update_idle(t, now) = format_handshake_initiation(t1, TRUE, now)
      \/ update_idle(t, now) \in {encapsulate(t3, Empty, now), Done(t3)}
  BY Zenon DEF update_idle, t1, t2
<1> HIDE DEF t3
<1> QED
  BY <1>5, <1>7, <1>8, Zenon

(* What update_timers does with a tunnel that has aged. *)
Decides(a, r, now) ==
  \/ is_expired(a) /\ r = Err(a, "ConnectionExpired")
  \/ ~is_expired(a) /\ GaveUp(a, r, now)
  \/ ~is_expired(a) /\ r = format_handshake_initiation(a, TRUE, now)
  \/ ~is_expired(a) /\ a.state.tag # "InitSent" /\ r = encapsulate(a, Empty, now)
  \/ ~is_expired(a) /\ r = Done(a)

(* update_timers ages the sessions and the cookie, and then makes one      *)
(* decision.                                                               *)
LEMMA TimersUpdated ==
  ASSUME NEW P, NEW t, TunnType(t, P), Empty \in P, NEW now \in Nat
  PROVE  /\ TunnType(update_timers(t, now).tunn, P)
         /\ \E a : TunnType(a, P) /\ Aged(t, a, now) /\ Decides(a, update_timers(t, now), now)
<1> DEFINE r == update_timers(t, now)
           b == update_session_timers([t EXCEPT !.timers["TimeCurrent"] = now], now)
           c == clear_cookie(b, now)
<1>1. /\ TunnType(b, P) /\ (is_expired(t) => Aged(t, b, now))
      /\ TunnType(c, P) /\ Aged(t, c, now)
  BY SessionsAge
<1>2. \/ is_expired(b) /\ r = Err(b, "ConnectionExpired")
      \/ ~is_expired(b) /\ r = Err(clear_all(set_expired(c), now), "ConnectionExpired")
      \/ ~is_expired(b) /\ c.state.tag # "InitSent" /\ r = update_idle(c, now)
      \/ ~is_expired(b) /\ r = format_handshake_initiation(c, TRUE, now)
      \/ ~is_expired(b) /\ r = Done(c)
  BY Zenon DEF update_timers
<1>3. is_expired(b) <=> is_expired(t)
  <2>1. t \in Tunnels(P)
    BY DEF TunnType
  <2> QED
    BY <2>1 DEF update_session_timers, is_expired, Tunnels
<1>4. is_expired(c) <=> is_expired(t)
  BY <1>1 DEF Aged, SameHandshake, is_expired
<1> HIDE DEF r, b, c
<1>5. \E a : TunnType(a, P) /\ Aged(t, a, now) /\ Decides(a, r, now)
  <2>1. CASE is_expired(b) /\ r = Err(b, "ConnectionExpired")
    BY <1>1, <1>3, <2>1, Zenon DEF Decides
  <2>2. CASE ~is_expired(b) /\ r = Err(clear_all(set_expired(c), now), "ConnectionExpired")
    <3>1. GaveUp(c, r, now)
      BY <1>1, <2>2, Expires
    <3> QED
      BY <1>1, <1>3, <1>4, <2>2, <3>1, Zenon DEF Decides
  <2>3. CASE ~is_expired(b) /\ c.state.tag # "InitSent" /\ r = update_idle(c, now)
    <3>1. PICK a : /\ TunnType(a, P) /\ SameHandshake(c, a) /\ SameRing(c, a)
                   /\ a.packet_queue = c.packet_queue /\ TimersKept(c, a)
                   /\ r \in {format_handshake_initiation(a, TRUE, now),
                             encapsulate(a, Empty, now), Done(a)}
      BY <1>1, <2>3, Idle, ZenonT(30)
    <3>2. \A n \in TimerNames : a.timers[n] \in {t.timers[n], now}
      BY <1>1, <3>1 DEF Aged, TimersKept
    <3>3. Aged(t, a, now)
      <4>1. SameHandshake(t, a)
        BY <1>1, <3>1, Zenon DEF Aged, SameHandshake
      <4>2. a.timers["TimeCurrent"] = now
        BY <1>1, <3>1 DEF Aged, TimersKept, TimerNames
      <4> QED
        BY <1>1, <3>1, <3>2, <4>1, <4>2, ZenonT(30) DEF Aged, SameRing, TimersKept
    <3>4. ~is_expired(a) /\ a.state.tag # "InitSent"
      BY <1>3, <1>4, <2>3, <3>1 DEF SameHandshake, is_expired
    <3> QED
      BY <3>1, <3>3, <3>4, Zenon DEF Decides
  <2>4. CASE ~is_expired(b) /\ r = format_handshake_initiation(c, TRUE, now)
    BY <1>1, <1>3, <1>4, <2>4, Zenon DEF Decides
  <2>5. CASE ~is_expired(b) /\ r = Done(c)
    BY <1>1, <1>3, <1>4, <2>5, Zenon DEF Decides
  <2> QED
    BY <1>2, <2>1, <2>2, <2>3, <2>4, <2>5, Zenon
<1>6. TunnType(r.tunn, P)
  <2>1. CASE is_expired(b) /\ r = Err(b, "ConnectionExpired")
    BY <1>1, <2>1 DEF Err, Result
  <2>2. CASE ~is_expired(b) /\ r = Err(clear_all(set_expired(c), now), "ConnectionExpired")
    BY <1>1, <2>2, Expires
  <2>3. CASE ~is_expired(b) /\ c.state.tag # "InitSent" /\ r = update_idle(c, now)
    <3>1. PICK a : /\ TunnType(a, P)
                   /\ r \in {format_handshake_initiation(a, TRUE, now),
                             encapsulate(a, Empty, now), Done(a)}
      BY <1>1, <2>3, Idle, Zenon
    <3>2. Done(a).tunn = a
      BY DEF Done, Result
    <3>3. /\ TunnType(format_handshake_initiation(a, TRUE, now).tunn, P)
          /\ TunnType(encapsulate(a, Empty, now).tunn, P)
      BY <3>1, FormatInitiation, Encapsulates, Zenon
    <3> QED
      BY <3>1, <3>2, <3>3, Zenon
  <2>4. CASE ~is_expired(b) /\ r = format_handshake_initiation(c, TRUE, now)
    BY <1>1, <2>4, FormatInitiation, Zenon
  <2>5. CASE ~is_expired(b) /\ r = Done(c)
    BY <1>1, <2>5 DEF Done, Result
  <2> QED
    BY <1>2, <2>1, <2>2, <2>3, <2>4, <2>5, Zenon
<1> QED
  BY <1>5, <1>6 DEF r

-----------------------------------------------------------------------------
(* Tunn::new *)
LEMMA NewTunnel ==
  ASSUME NEW P, NEW e \in Endpoints, NEW keepalive \in Nat
  PROVE  LET t == NewTunn(e, keepalive) IN
         /\ TunnType(t, P)
         /\ t.me = e /\ t.fresh = 0 /\ t.state = HsNone /\ t.previous = HsNone
         /\ t.packet_queue = <<>> /\ t.write_cookie = NoCookie
         /\ \A i \in Slots : t.sessions[i] = NoSession /\ t.session_timers[i] = 0
         /\ \A n \in TimerNames : t.timers[n] = 0
<1> DEFINE t == NewTunn(e, keepalive)
<1>1. /\ 0 \in Indices /\ HsNone \in HandshakeStateType /\ ConfiguredKey \in Nat
      /\ NoCookie \in Nat
      /\ <<>> \in Seq(P) /\ Len(<<>>) <= MAX_QUEUE_DEPTH
  BY TunnAssumption DEF Indices, HandshakeStateType, ConfiguredKey, NoCookie
<1>2. t \in Tunnels(P)
  BY <1>1, Zenon DEF Tunnels, NewTunn
<1>3. /\ t.me = e /\ t.fresh = 0 /\ t.state = HsNone /\ t.previous = HsNone
      /\ t.packet_queue = <<>> /\ t.write_cookie = NoCookie
      /\ \A i \in Slots : t.sessions[i] = NoSession /\ t.session_timers[i] = 0
      /\ \A n \in TimerNames : t.timers[n] = 0
  BY DEF NewTunn
<1> HIDE DEF t
<1> QED
  BY <1>1, <1>2, <1>3 DEF TunnType, t

-----------------------------------------------------------------------------
(* Keys of an endpoint *)

(* An endpoint `burns' a session key when it can never derive it again: the *)
(* ephemeral of its own that the key contains is one it has drawn, and no   *)
(* initiation with that ephemeral is outstanding.  Burnt keys stay burnt.   *)

Keys == [initiator : Endpoints, init : Nat, resp : Nat]

(* An initiation with ephemeral e is outstanding. *)
Open(t, e) == \E hs \in {t.state, t.previous} : hs.tag = "InitSent" /\ hs.eph = e

(* The endpoint can not derive key k again. *)
Burnt(t, k) ==
  IF k.initiator = t.me THEN k.init <= t.fresh /\ ~Open(t, k.init) ELSE k.resp <= t.fresh

Holds(t, i, k) == t.sessions[i] # NoSession /\ t.sessions[i].key = k

(* Outstanding initiations are ones it made, and differ. *)
OpenSound(t) ==
  /\ \A e \in Nat : Open(t, e) => e <= t.fresh
  /\ (t.state.tag = "InitSent" /\ t.previous.tag = "InitSent") => t.state.eph # t.previous.eph

(* Keys in the ring are burnt, and differ. *)
RingSound(t) ==
  /\ \A i \in Slots, k \in Keys : Holds(t, i, k) => Burnt(t, k)
  /\ \A i, j \in Slots, k \in Keys : Holds(t, i, k) /\ Holds(t, j, k) => i = j

Sound(t) == OpenSound(t) /\ RingSound(t)

(* A connection that expired is empty. *)
Blank(t) ==
  is_expired(t) => /\ t.packet_queue = <<>> /\ t.previous = HsExpired
                   /\ \A i \in Slots : t.sessions[i] = NoSession

(* The response that a session of endpoint e was made from. *)
Matches(e, s, m) ==
  /\ m.type = "resp" /\ m.initEph = s.key.init /\ m.eph = s.key.resp
  /\ IF s.key.initiator = e
     THEN m.from # e /\ m.receiver_idx = s.receiving_index /\ m.sender_idx = s.sending_index
     ELSE m.from = e /\ m.sender_idx = s.receiving_index /\ m.receiver_idx = s.sending_index

(* What has been delivered can not be opened again. *)
Spent(t, m) ==
  /\ Burnt(t, m.key)
  /\ \A i \in Slots : Holds(t, i, m.key) => m.counter \in t.sessions[i].received

(* Session s2 is session s, later. *)
Continues(s, s2) ==
  /\ s # NoSession /\ s2.key = s.key
  /\ s2.receiving_index = s.receiving_index /\ s2.sending_index = s.sending_index
  /\ s.sending_key_counter <= s2.sending_key_counter /\ s.received \subseteq s2.received

(* Session s is made from a response among ms, under a key not used before. *)
Introduced(t, s, ms) == ~Burnt(t, s.key) /\ \E m \in ms : Matches(t.me, s, m)

(* Ephemerals are drawn in order, and an initiation is new or was there. *)
HsLater(t, u) ==
  /\ u.me = t.me /\ t.fresh <= u.fresh
  /\ \A e \in Nat : Open(u, e) => Open(t, e) \/ t.fresh < e

Later(t, u, ms) ==
  /\ u.me = t.me /\ t.fresh <= u.fresh
  /\ \A k \in Keys : Burnt(t, k) => Burnt(u, k)
  /\ \A i \in Slots :
       u.sessions[i] # NoSession => \/ Continues(t.sessions[i], u.sessions[i])
                                    \/ Introduced(t, u.sessions[i], ms)

(* A message an endpoint writes: a response has a new ephemeral, and data  *)
(* the next counter of a session or the first of a new one.                *)
Seal(t, u, m) ==
  /\ Burnt(u, m.key)
  /\ \A i \in Slots : Holds(u, i, m.key) => m.counter < u.sessions[i].sending_key_counter
  /\ \/ ~Burnt(t, m.key)
     \/ \E i \in Slots : Holds(t, i, m.key) /\ m.counter = t.sessions[i].sending_key_counter

Writes(t, u, m) ==
  /\ m.from = t.me
  /\ m.type = "resp" => t.fresh < m.eph /\ m.eph <= u.fresh
  /\ m.type = "data" => Seal(t, u, m)

(* The fields of a tunnel that the lemmas below are about. *)
LEMMA PairTyped ==
  ASSUME NEW P, NEW t, TunnType(t, P)
  PROVE  /\ t.me \in Endpoints /\ t.fresh \in Nat
         /\ t.state \in HandshakeStateType /\ t.previous \in HandshakeStateType
         /\ \A i \in Slots : /\ t.sessions[i] \in SessionType \cup {NoSession}
                             /\ t.sessions[i] # NoSession =>
                                  /\ t.sessions[i].key \in Keys
                                  /\ t.sessions[i].sending_key_counter \in Nat
         /\ t.packet_queue \in Seq(P) /\ Len(t.packet_queue) <= MAX_QUEUE_DEPTH
         /\ t.sessions \in [Slots -> SessionType \cup {NoSession}]
         /\ t.write_cookie \in Nat /\ t.static \in Nat /\ t.next_index \in Indices
BY Zenon DEF TunnType, Tunnels, SessionType, Keys

(* Burnt keys stay burnt. *)
LEMMA BurntStays ==
  ASSUME NEW P, NEW t, TunnType(t, P), NEW u, TunnType(u, P), HsLater(t, u),
         NEW k \in Keys, Burnt(t, k)
  PROVE  Burnt(u, k)
<1>1. /\ t.fresh \in Nat /\ u.fresh \in Nat
      /\ k.init \in Nat /\ k.resp \in Nat
  BY PairTyped DEF Keys
<1> QED
  BY <1>1 DEF HsLater, Burnt

(* A ring whose sessions all continue stays sound. *)
LEMMA RingContinues ==
  ASSUME NEW P, NEW t, TunnType(t, P), NEW u, TunnType(u, P), HsLater(t, u), RingSound(t),
         \A i \in Slots : u.sessions[i] # NoSession => Continues(t.sessions[i], u.sessions[i])
  PROVE  RingSound(u) /\ Later(t, u, {})
<1>1. \A i \in Slots, k \in Keys : Holds(u, i, k) => Holds(t, i, k)
  BY DEF Holds, Continues
<1>2. \A k \in Keys : Burnt(t, k) => Burnt(u, k)
  BY BurntStays
<1> QED
  BY <1>1, <1>2 DEF RingSound, Later, HsLater

(* So does one that receives a session with a key that was not burnt. *)
LEMMA RingReceives ==
  ASSUME NEW P, NEW t, TunnType(t, P), NEW u, TunnType(u, P), HsLater(t, u), RingSound(t),
         NEW s \in SessionType, NEW ms, Introduced(t, s, ms), Burnt(u, s.key),
         NEW j \in Slots, u.sessions = [t.sessions EXCEPT ![j] = s]
  PROVE  RingSound(u) /\ Later(t, u, ms)
<1>1. s.key \in Keys /\ s # NoSession
  BY Kinds DEF SessionType, Keys
<1>2. \A k \in Keys : Burnt(t, k) => Burnt(u, k)
  BY BurntStays, Zenon
<1>3. /\ u.sessions[j] = s
      /\ \A i \in Slots : i # j => u.sessions[i] = t.sessions[i]
  BY PairTyped, Zenon
<1>4. \A i \in Slots : t.sessions[i] # NoSession => Continues(t.sessions[i], t.sessions[i])
  <2>1. \A x \in Nat : x <= x
    OBVIOUS
  <2> QED
    BY <2>1, PairTyped, Zenon DEF Continues
<1>5. \A i \in Slots : ~Holds(t, i, s.key)
  BY <1>1, Zenon DEF Introduced, RingSound
<1>6. RingSound(u)
  BY <1>1, <1>2, <1>3, <1>5 DEF RingSound, Holds
<1>7. Later(t, u, ms)
  BY <1>2, <1>3, <1>4 DEF Later, HsLater
<1> QED
  BY <1>6, <1>7

(* A call that leaves the handshake alone and at most drops sessions (the  *)
(* first half of update_timers, the queue operations) changes nothing of   *)
(* this, and may precede another.                                          *)
Thinned(t, a) ==
  SameHandshake(t, a) /\ \A i \in Slots : a.sessions[i] \in {t.sessions[i], NoSession}

(* Such a call keeps the endpoint sound, and what follows it follows the   *)
(* call.                                                                   *)
LEMMA Thins ==
  ASSUME NEW P, NEW t, TunnType(t, P), NEW a, TunnType(a, P), Thinned(t, a), Sound(t)
  PROVE  /\ Sound(a) /\ Later(t, a, {})
         /\ \A u, ms : Later(a, u, ms) => Later(t, u, ms)
         /\ \A u, m : Writes(a, u, m) => Writes(t, u, m)
<1>1. /\ a.me = t.me /\ a.fresh = t.fresh /\ t.fresh <= a.fresh
      /\ \A e : Open(a, e) <=> Open(t, e)
      /\ a.state = t.state /\ a.previous = t.previous
  BY PairTyped DEF Thinned, SameHandshake, Open
<1>2. \A k : Burnt(a, k) <=> Burnt(t, k)
  BY <1>1 DEF Burnt
<1>3. \A i \in Slots : \A k : Holds(a, i, k) => Holds(t, i, k) /\ a.sessions[i] = t.sessions[i]
  BY DEF Thinned, Holds
<1>4. HsLater(t, a)
  BY <1>1, Zenon DEF HsLater
<1>5. \A i \in Slots : a.sessions[i] # NoSession => Continues(t.sessions[i], a.sessions[i])
  <2>1. \A x \in Nat : x <= x
    OBVIOUS
  <2> QED
    BY <2>1, PairTyped DEF Continues, Thinned
<1>6. Sound(a) /\ Later(t, a, {})
  BY <1>1, <1>4, <1>5, RingContinues DEF Sound, OpenSound
<1>7. ASSUME NEW u, NEW ms, Later(a, u, ms)
      PROVE  Later(t, u, ms)
  <2>1. \A i \in Slots : \A s : Continues(a.sessions[i], s) => Continues(t.sessions[i], s)
    BY Zenon DEF Thinned, Continues
  <2>2. \A s : Introduced(a, s, ms) => Introduced(t, s, ms)
    BY <1>1, <1>2, Zenon DEF Introduced
  <2> QED
    BY <1>1, <1>2, <1>7, <2>1, <2>2, Zenon DEF Later
<1>8. ASSUME NEW u, NEW m, Writes(a, u, m)
      PROVE  Writes(t, u, m)
  BY <1>1, <1>2, <1>3, <1>8, Zenon DEF Writes, Seal
<1> QED
  BY <1>6, <1>7, <1>8, Zenon

(* A new initiation burns no key and frees none. *)
LEMMA BeginsSound ==
  ASSUME NEW P, NEW t, TunnType(t, P), NEW r, TunnType(r.tunn, P), NEW time,
         Begins(t, r, time), Sound(t)
  PROVE  Sound(r.tunn) /\ Later(t, r.tunn, {}) /\ Writes(t, r.tunn, r.msg)
<1> DEFINE u == r.tunn
<1>1. /\ t.fresh \in Nat /\ u.fresh = t.fresh + 1 /\ u.me = t.me
      /\ u.previous = t.state
      /\ u.state.tag = "InitSent" /\ u.state.eph = t.fresh + 1
      /\ u.sessions = t.sessions /\ r.msg = Initiation(u)
  BY PairTyped DEF Begins, Initiates, SameRing
<1> HIDE DEF u
<1>2. \A e \in Nat : Open(u, e) => Open(t, e) \/ e = t.fresh + 1
  BY <1>1 DEF Open
<1>3. \A e \in Nat : Open(t, e) => e <= t.fresh
  BY DEF Sound, OpenSound
<1>4. HsLater(t, u)
  BY <1>1, <1>2 DEF HsLater
<1>5. OpenSound(u)
  <2>1. \A e \in Nat : Open(u, e) => e <= u.fresh
    BY <1>1, <1>2, <1>3
  <2>2. t.state.tag = "InitSent" => t.state.eph \in Nat /\ Open(t, t.state.eph)
    BY PairTyped, Kinds DEF Open
  <2> QED
    BY <1>1, <1>3, <2>1, <2>2 DEF OpenSound
<1>6. \A i \in Slots : u.sessions[i] # NoSession => Continues(t.sessions[i], u.sessions[i])
  <2>1. \A x \in Nat : x <= x
    OBVIOUS
  <2> QED
    BY <1>1, <2>1, PairTyped DEF Continues
<1>7. RingSound(u) /\ Later(t, u, {})
  BY <1>4, <1>6, RingContinues, Zenon DEF Sound, u
<1>8. Writes(t, u, r.msg)
  BY <1>1 DEF Writes, Initiation
<1> QED
  BY <1>5, <1>7, <1>8, ZenonT(30) DEF Sound, u

(* A packet sealed by the current session takes the session's counter,     *)
(* which moves on.                                                         *)
LEMMA SealsSound ==
  ASSUME NEW P, NEW t, TunnType(t, P), NEW r, TunnType(r.tunn, P), NEW src,
         Seals(t, r, src), Sound(t)
  PROVE  Sound(r.tunn) /\ Later(t, r.tunn, {}) /\ Writes(t, r.tunn, r.msg)
<1> DEFINE u == r.tunn
           i == t.current % N_SESSIONS
           s == CurrentSession(t)
<1>1. /\ SameHandshake(t, u) /\ u.sessions = [t.sessions EXCEPT ![i] = CountSent(s)]
      /\ s \in SessionType /\ s = t.sessions[i] /\ r.msg = DataPacket(t, s, src)
  BY Zenon DEF Seals, CurrentSession
<1>2. /\ i \in Slots /\ s # NoSession /\ s.key \in Keys /\ s.sending_key_counter \in Nat
      /\ s.received \subseteq Nat
  BY <1>1, CurrentSlot, Kinds, Zenon DEF SessionType, Keys
<1> HIDE DEF u, i, s
<1>3. /\ u.sessions[i] = CountSent(s)
      /\ \A j \in Slots : j # i => u.sessions[j] = t.sessions[j]
  BY <1>1, <1>2, PairTyped, ZenonT(30)
<1>4. /\ CountSent(s).key = s.key /\ CountSent(s).sending_key_counter = s.sending_key_counter + 1
      /\ Continues(s, CountSent(s))
  BY <1>1, <1>2, CountedOne DEF Continues
<1>5. \A j \in Slots : u.sessions[j] # NoSession => Continues(t.sessions[j], u.sessions[j])
  <2>1. \A x \in Nat : x <= x
    OBVIOUS
  <2>2. ASSUME NEW j \in Slots, j # i, u.sessions[j] # NoSession
        PROVE  Continues(t.sessions[j], u.sessions[j])
    BY <1>3, <2>1, <2>2, PairTyped, Zenon DEF Continues
  <2> QED
    BY <1>1, <1>3, <1>4, <2>2, Zenon
<1>6. /\ u.me = t.me /\ u.fresh = t.fresh /\ u.state = t.state /\ u.previous = t.previous
      /\ t.fresh <= u.fresh
      /\ \A e : Open(u, e) <=> Open(t, e)
  BY <1>1, PairTyped DEF SameHandshake, Open
<1>7. HsLater(t, u) /\ OpenSound(u)
  BY <1>6, Zenon DEF HsLater, Sound, OpenSound
<1>8. RingSound(u) /\ Later(t, u, {})
  BY <1>5, <1>7, RingContinues, Zenon DEF Sound, u
<1>9. Writes(t, u, r.msg)
  <2>1. /\ r.msg.from = t.me /\ r.msg.type = "data" /\ r.msg.key = s.key
        /\ r.msg.counter = s.sending_key_counter
    BY <1>1 DEF DataPacket
  <2>2. Holds(t, i, s.key) /\ Burnt(t, s.key)
    BY <1>1, <1>2, Zenon DEF Holds, Sound, RingSound
  <2>3. Burnt(u, s.key)
    BY <1>2, <1>8, <2>2, Zenon DEF Later
  <2>4. \A j \in Slots : Holds(u, j, s.key) => j = i
    <3>1. Holds(u, i, s.key)
      BY <1>3, <1>4, <1>1, <1>2, CountedOne, Kinds, Zenon DEF Holds
    <3> QED
      BY <1>2, <1>8, <3>1, Zenon DEF RingSound
  <2>5. s.sending_key_counter < CountSent(s).sending_key_counter
    BY <1>2, <1>4
  <2> QED
    BY <1>1, <1>2, <1>3, <2>1, <2>2, <2>3, <2>4, <2>5, Zenon DEF Writes, Seal
<1> QED
  BY <1>7, <1>8, <1>9, Zenon DEF Sound, u

(* A data message that is accepted is marked in its session. *)
LEMMA AcceptsSound ==
  ASSUME NEW P, NEW t, TunnType(t, P), NEW r, TunnType(r.tunn, P), NEW m, m.counter \in Nat,
         m.receiver_idx \in Indices, Accepts(t, r, m), Sound(t)
  PROVE  /\ Sound(r.tunn) /\ Later(t, r.tunn, {})
         /\ Spent(r.tunn, m) /\ ~Spent(t, m)
<1> DEFINE u == r.tunn
           i == m.receiver_idx % N_SESSIONS
           s == t.sessions[i]
           s2 == Marked(s, m.counter)
<1>1. /\ SameHandshake(t, u) /\ u.sessions = [t.sessions EXCEPT ![i] = s2]
      /\ s \in SessionType /\ s.key = m.key /\ m.counter \notin s.received
  BY Zenon DEF Accepts
<1>2. /\ i \in Slots /\ s # NoSession /\ s.key \in Keys /\ s.sending_key_counter \in Nat
  BY <1>1, IndexRange, Kinds, Zenon DEF SessionType, Keys
<1>3. /\ s2.key = s.key /\ m.counter \in s2.received /\ Continues(s, s2) /\ s2 # NoSession
  <2>1. \A x \in Nat : x <= x
    OBVIOUS
  <2> HIDE DEF s
  <2>2. /\ s2 \in SessionType /\ s2.key = s.key /\ s2.received = s.received \cup {m.counter}
        /\ s2.receiving_index = s.receiving_index /\ s2.sending_index = s.sending_index
        /\ s2.sending_key_counter = s.sending_key_counter
    BY <1>1, MarkedOne, Zenon
  <2> HIDE DEF s2
  <2> QED
    BY <1>2, <2>1, <2>2, Kinds, Zenon DEF Continues
<1>4. t.sessions[i] = s
  OBVIOUS
<1> HIDE DEF u, i, s, s2
<1>5. /\ u.sessions[i] = s2
      /\ \A j \in Slots : j # i => u.sessions[j] = t.sessions[j]
  BY <1>1, <1>2, PairTyped, Zenon
<1>6. \A j \in Slots : u.sessions[j] # NoSession => Continues(t.sessions[j], u.sessions[j])
  <2>1. \A x \in Nat : x <= x
    OBVIOUS
  <2>2. ASSUME NEW j \in Slots, j # i, u.sessions[j] # NoSession
        PROVE  Continues(t.sessions[j], u.sessions[j])
    BY <1>5, <2>1, <2>2, PairTyped, Zenon DEF Continues
  <2> QED
    BY <1>3, <1>4, <1>5, <2>2
<1>7. /\ u.me = t.me /\ u.fresh = t.fresh /\ u.state = t.state /\ u.previous = t.previous
      /\ t.fresh <= u.fresh
      /\ \A e : Open(u, e) <=> Open(t, e)
  BY <1>1, PairTyped DEF SameHandshake, Open
<1>8. HsLater(t, u) /\ OpenSound(u)
  BY <1>7, Zenon DEF HsLater, Sound, OpenSound
<1>9. RingSound(u) /\ Later(t, u, {})
  BY <1>6, <1>8, RingContinues DEF Sound, u
<1>10. Holds(t, i, m.key) /\ Holds(u, i, m.key)
  BY <1>1, <1>2, <1>3, <1>4, <1>5, Zenon DEF Holds
<1>11. Burnt(u, m.key) /\ \A j \in Slots : Holds(u, j, m.key) => j = i
  BY <1>1, <1>2, <1>9, <1>10, ZenonT(30) DEF RingSound
<1>12. Spent(u, m) /\ ~Spent(t, m)
  BY <1>1, <1>2, <1>3, <1>4, <1>5, <1>10, <1>11 DEF Spent
<1> QED
  BY <1>8, <1>9, <1>12, Zenon DEF Sound, u

=============================================================================
