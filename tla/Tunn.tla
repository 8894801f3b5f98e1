-------------------------------- MODULE Tunn --------------------------------
(***************************************************************************)
(* One WireGuard tunnel endpoint: struct Tunn with its Handshake, its ring *)
(* of Sessions, its packet queue and its Timers (noise/mod.rs,             *)
(* noise/handshake.rs, noise/timers.rs).  The methods of Tunn take         *)
(* `&mut self' and run one at a time, so each is an operator from a tunnel *)
(* (a record, `t' below) to a Result: the new tunnel, what the call        *)
(* returned and the message it wrote.  Modules that EXTEND this one give   *)
(* the tunnels an environment.                                             *)
(*                                                                         *)
(* Cryptography is symbolic.  Ephemeral keys and TAI64N stamps of an       *)
(* endpoint are drawn from one increasing counter (`fresh'); a session key *)
(* is the pair of ephemerals it was derived from; opening a message        *)
(* succeeds exactly when both sides derived the same key.  Buffers are as  *)
(* large as the methods' documentation asks for.                           *)
(***************************************************************************)
EXTENDS Integers, Sequences

CONSTANTS
  N_SESSIONS,              \* slots of the session ring (8)
  INDEX_SPACE,             \* cyclic session indices of a tunnel (256)
  MAX_QUEUE_DEPTH,         \* packets that wait for a session (256)
  WINDOW,                  \* N_BITS of the anti-replay window (1024)
  REKEY_AFTER_TIME, REJECT_AFTER_TIME, REKEY_ATTEMPT_TIME, REKEY_TIMEOUT,
  KEEPALIVE_TIMEOUT, COOKIE_EXPIRATION_TIME,
  Endpoints,               \* names of tunnel endpoints
  BadPackets               \* payloads that are not a well-formed IP packet

ASSUME TunnAssumption ==
  /\ N_SESSIONS \in Nat \ {0} /\ INDEX_SPACE \in Nat \ {0}
  /\ INDEX_SPACE % N_SESSIONS = 0
  /\ MAX_QUEUE_DEPTH \in Nat \ {0} /\ WINDOW \in Nat \ {0}
  /\ {REKEY_AFTER_TIME, REJECT_AFTER_TIME, REKEY_ATTEMPT_TIME, REKEY_TIMEOUT,
      KEEPALIVE_TIMEOUT, COOKIE_EXPIRATION_TIME} \subseteq Nat \ {0}
  /\ REJECT_AFTER_TIME >= KEEPALIVE_TIMEOUT + REKEY_TIMEOUT

Slots == 0..(N_SESSIONS - 1)
Indices == 0..(INDEX_SPACE - 1)
Empty == [n |-> 0]       \* the empty payload

TimerNames ==
  {"TimeCurrent", "TimeSessionEstablished", "TimeLastHandshakeStarted",
   "TimeLastPacketReceived", "TimeLastPacketSent",
   "TimeLastDataPacketReceived", "TimeLastDataPacketSent",
   "TimeCookieReceived", "TimePersistentKeepalive"}

NoMsg == [type |-> "none"]
NoSession == [receiving_index |-> -1]
NoCookie == 0
ConfiguredKey == 0       \* the public key each side has configured for its peer
HsNone == [tag |-> "None"]
HsExpired == [tag |-> "Expired"]

Result(t, kind, msg) == [tunn |-> t, kind |-> kind, msg |-> msg]
Done(t) == Result(t, "Done", NoMsg)
Err(t, e) == Result(t, e, NoMsg)

-----------------------------------------------------------------------------
(* Tunn::new, Handshake::new, Timers::new: `me' is the local endpoint,     *)
(* `keepalive' the persistent keepalive interval (0 for none).             *)
NewTunn(me, keepalive) ==
  [me |-> me,
   static |-> ConfiguredKey,     \* which private key: set_static_private
   fresh |-> 0,                  \* ephemerals and stamps drawn so far
   next_index |-> 0,
   previous |-> HsNone,
   state |-> HsNone,
   last_handshake_timestamp |-> 0,
   cookie_index |-> 0, last_mac1 |-> 0, write_cookie |-> NoCookie,
   sessions |-> [i \in Slots |-> NoSession],
   current |-> 0,
   packet_queue |-> <<>>,
   timers |-> [n \in TimerNames |-> 0],
   session_timers |-> [i \in Slots |-> 0],
   is_initiator |-> FALSE,
   want_keepalive |-> FALSE,
   want_handshake |-> FALSE,
   persistent_keepalive |-> keepalive]

(* The values a tunnel may take: a session sits in the slot its index names. *)
SessionType ==
  [receiving_index : Indices, sending_index : Indices,
   key : [initiator : Endpoints, init : Nat, resp : Nat],
   sending_key_counter : Nat, received : SUBSET Nat, created : Nat]

HandshakeStateType ==
  {HsNone, HsExpired} \cup
  [tag : {"InitSent"}, local_index : Indices, eph : Nat, static : Nat, time_sent : Nat]

Tunnels(payloads) ==
  [me : Endpoints, static : Nat, fresh : Nat, next_index : Indices,
   previous : HandshakeStateType, state : HandshakeStateType,
   last_handshake_timestamp : Nat,
   cookie_index : Indices, last_mac1 : Nat, write_cookie : Nat,
   sessions : [Slots -> SessionType \cup {NoSession}], current : Indices,
   packet_queue : Seq(payloads),
   timers : [TimerNames -> Nat], session_timers : [Slots -> Nat],
   is_initiator : BOOLEAN, want_keepalive : BOOLEAN, want_handshake : BOOLEAN,
   persistent_keepalive : Nat]

TunnType(t, payloads) ==
  /\ t \in Tunnels(payloads)
  /\ \A i \in Slots :
       t.sessions[i] # NoSession => t.sessions[i].receiving_index % N_SESSIONS = i
  /\ Len(t.packet_queue) <= MAX_QUEUE_DEPTH

CurrentSession(t) == t.sessions[t.current % N_SESSIONS]

-----------------------------------------------------------------------------
(* Timers *)

timer_tick(t, name) ==
  [t EXCEPT !.timers[name] = t.timers["TimeCurrent"],
            !.want_keepalive = \/ name = "TimeLastPacketReceived"
                               \/ @ /\ name # "TimeLastPacketSent",
            !.want_handshake = \/ name = "TimeLastPacketSent"
                               \/ @ /\ name # "TimeLastPacketReceived"]

timer_tick_session_established(t, isInitiator, idx) ==
  [timer_tick(t, "TimeSessionEstablished") EXCEPT
     !.session_timers[idx % N_SESSIONS] = t.timers["TimeCurrent"],
     !.is_initiator = isInitiator]

(* Mutant: TimeCurrent is not moved with the others. *)
clear_KeepsCurrent(t, now) ==
  [t EXCEPT !.timers = [n \in TimerNames |-> IF n = "TimeCurrent" THEN @[n] ELSE now],
            !.want_handshake = FALSE,
            !.want_keepalive = FALSE]

(* Timers::clear: every timer, TimeCurrent included, is set to now. *)
clear(t, now) ==
  [t EXCEPT !.timers = [n \in TimerNames |-> now],
            !.want_handshake = FALSE,
            !.want_keepalive = FALSE]

(* Mutant: expiry leaves the packet queue. *)
clear_all_KeepsQueue(t, now) == clear([t EXCEPT !.sessions = [i \in Slots |-> NoSession]], now)

clear_all(t, now) ==
  clear([t EXCEPT !.sessions = [i \in Slots |-> NoSession],
                  !.packet_queue = <<>>], now)

-----------------------------------------------------------------------------
(* Handshake *)

is_expired(t) == t.state = HsExpired

is_in_progress(t) == t.state \notin {HsNone, HsExpired}
set_expired(t) == [t EXCEPT !.previous = HsExpired, !.state = HsExpired]

(* Mutant: the session index runs into the peer index. *)
inc_index_NoWrap(t) == t.next_index + 1

inc_index(t) == (t.next_index + 1) % INDEX_SPACE

(* append_mac1_and_mac2: remember the message for a cookie reply. *)
append_macs(t, idx, eph) == [t EXCEPT !.cookie_index = idx, !.last_mac1 = eph]

(* Handshake::format_handshake_initiation *)
InitiationSent(t, now) ==
  LET idx == inc_index(t)
      eph == t.fresh + 1 IN
  append_macs([t EXCEPT
    !.fresh = eph,
    !.next_index = idx,
    !.previous = t.state,
    !.state = [tag |-> "InitSent", local_index |-> idx, eph |-> eph,
               static |-> t.static, time_sent |-> now]], idx, eph)

Initiation(t) ==
  [type |-> "init", from |-> t.me, sender_idx |-> t.next_index, eph |-> t.fresh,
   static |-> t.static, mac2 |-> t.write_cookie]

(* Tunn::format_handshake_initiation *)
format_handshake_initiation(t, force_resend, now) ==
  IF is_in_progress(t) /\ ~force_resend THEN Done(t)
  ELSE LET t1 == IF is_expired(t) THEN clear(t, now) ELSE t
           t2 == InitiationSent(t1, now)
           t3 == IF is_in_progress(t) THEN t2
                 ELSE timer_tick(t2, "TimeLastHandshakeStarted") IN
       Result(timer_tick(t3, "TimeLastPacketSent"), "WriteToNetwork", Initiation(t2))

Key(initiator, initEph, respEph) ==
  [initiator |-> initiator, init |-> initEph, resp |-> respEph]

NewSession(local, peer, key, now) ==
  [receiving_index |-> local, sending_index |-> peer, key |-> key,
   sending_key_counter |-> 0, received |-> {}, created |-> now]

(* Store a session in its slot of the ring. *)
StoreSession(t, s) == [t EXCEPT !.sessions[s.receiving_index % N_SESSIONS] = s]

-----------------------------------------------------------------------------
(* Sessions and data packets *)

(* Session::format_packet_data *)
DataPacket(t, s, src) ==
  [type |-> "data", from |-> t.me, receiver_idx |-> s.sending_index,
   key |-> s.key, counter |-> s.sending_key_counter, payload |-> src]

(* Mutant: the counter does not advance. *)
CountSent_None(s) == s

CountSent(s) == [s EXCEPT !.sending_key_counter = @ + 1]

(* Mutant: only the window is checked, not the bitmap. *)
will_accept_NoBitmap(s, counter) == \A c \in s.received : c < counter + WINDOW

(* The anti-replay filter: ReplayWindow implements it. *)
will_accept(s, counter) ==
  /\ counter \notin s.received
  /\ \A c \in s.received : c < counter + WINDOW

(* Session::receive_packet_data: "Ok", or the error it returns. *)
receive_packet_data(s, m) ==
  CASE s.receiving_index # m.receiver_idx -> "WrongIndex"
    [] s.receiving_index = m.receiver_idx /\ ~will_accept(s, m.counter) -> "InvalidCounter"
    [] OTHER -> IF s.key = m.key THEN "Ok" ELSE "InvalidAeadTag"

set_current_session(t, idx) ==
  LET cur == t.current % N_SESSIONS IN
  IF \/ t.sessions[cur] = NoSession
     \/ t.session_timers[idx % N_SESSIONS] >= t.session_timers[cur]
  THEN [t EXCEPT !.current = idx]
  ELSE t

queue_packet(t, src) ==
  IF Len(t.packet_queue) < MAX_QUEUE_DEPTH
  THEN [t EXCEPT !.packet_queue = Append(@, src)]
  ELSE t

encapsulate(t, src, now) ==
  LET s == CurrentSession(t)
      sent == timer_tick([t EXCEPT !.sessions[t.current % N_SESSIONS] = CountSent(s)],
                         "TimeLastPacketSent") IN
  IF s = NoSession
  THEN format_handshake_initiation(queue_packet(t, src), FALSE, now)
  ELSE Result(IF src = Empty THEN sent ELSE timer_tick(sent, "TimeLastDataPacketSent"),
              "WriteToNetwork", DataPacket(t, s, src))

(* Mutant: the packet is read from the queue but not removed. *)
send_queued_packet_Peek(t, now) ==
  IF t.packet_queue = <<>> THEN Done(t) ELSE encapsulate(t, Head(t.packet_queue), now)

(* decapsulate of an empty datagram.  With buffers of the documented size  *)
(* encapsulate returns no error, so no packet goes back to the front.      *)
send_queued_packet(t, now) ==
  IF t.packet_queue = <<>> THEN Done(t)
  ELSE encapsulate([t EXCEPT !.packet_queue = Tail(@)], Head(t.packet_queue), now)

validate_decapsulated_packet(t, m) ==
  CASE m.payload = Empty -> Done(t)
    [] m.payload \in BadPackets -> Err(t, "InvalidPacket")
    [] OTHER -> Result(timer_tick(t, "TimeLastDataPacketReceived"), "WriteToTunnel", m)

handle_data(t, m) ==
  LET slot == m.receiver_idx % N_SESSIONS
      s == t.sessions[slot]
      seen == [t EXCEPT !.sessions[slot].received = @ \cup {m.counter}] IN
  IF s = NoSession THEN Err(t, "NoCurrentSession")
  ELSE IF receive_packet_data(s, m) # "Ok" THEN Err(t, receive_packet_data(s, m))
  ELSE validate_decapsulated_packet(
         timer_tick(set_current_session(seen, m.receiver_idx), "TimeLastPacketReceived"), m)

-----------------------------------------------------------------------------
(* Handshake messages *)

(* Handshake::format_handshake_response.  The state InitReceived lives     *)
(* only inside the call that receives an initiation: it is None again.     *)
format_handshake_response(t) ==
  LET idx == inc_index(t)
      eph == t.fresh + 1 IN
  append_macs([t EXCEPT !.state = HsNone, !.fresh = eph, !.next_index = idx], idx, eph)

Response(t, m) ==
  [type |-> "resp", from |-> t.me, sender_idx |-> t.next_index,
   receiver_idx |-> m.sender_idx, initEph |-> m.eph, eph |-> t.fresh,
   mac2 |-> t.write_cookie]

(* An initiation opens under the private key the peer has configured, and  *)
(* must name the configured peer and carry a newer stamp than the last.    *)
receive_handshake_initialization(t, m) ==
  LET t1 == format_handshake_response(
              [t EXCEPT !.last_handshake_timestamp = m.eph, !.previous = t.state]) IN
  IF t.static # ConfiguredKey THEN Err(t, "InvalidAeadTag")
  ELSE IF m.static # ConfiguredKey THEN Err(t, "WrongKey")
  ELSE IF m.eph <= t.last_handshake_timestamp THEN Err(t, "WrongTai64nTimestamp")
  ELSE Result(t1, "Ok", Response(t1, m))

handle_handshake_init(t, m, now) ==
  LET r == receive_handshake_initialization(t, m)
      idx == r.tunn.next_index
      s == NewSession(idx, m.sender_idx, Key(m.from, m.eph, r.tunn.fresh), now)
      t1 == timer_tick(StoreSession(r.tunn, s), "TimeLastPacketReceived")
      t2 == timer_tick(t1, "TimeLastPacketSent") IN
  IF r.kind # "Ok" THEN r
  ELSE Result(timer_tick_session_established(t2, FALSE, idx), "WriteToNetwork", r.msg)

Awaits(hs, m) == hs.tag = "InitSent" /\ hs.local_index = m.receiver_idx

(* Mutant: the session takes the newest index, not that of its initiation. *)
receive_handshake_response_NewestIndex(t, m, now) ==
  LET isPrevious == ~Awaits(t.state, m)
      hs == IF isPrevious THEN t.previous ELSE t.state IN
  IF ~Awaits(hs, m) THEN Err(t, "UnexpectedPacket")
  ELSE IF hs.eph # m.initEph \/ hs.static # t.static THEN Err(t, "InvalidAeadTag")
  ELSE Result(IF isPrevious THEN [t EXCEPT !.previous = HsNone] ELSE [t EXCEPT !.state = HsNone],
              "Ok", NewSession(t.next_index, m.sender_idx, Key(t.me, m.initEph, m.eph), now))

(* Answers either outstanding initiation.  The response opens only with    *)
(* the private key that the initiation was made with.                      *)
receive_handshake_response(t, m, now) ==
  LET isPrevious == ~Awaits(t.state, m)
      hs == IF isPrevious THEN t.previous ELSE t.state IN
  IF ~Awaits(hs, m) THEN Err(t, "UnexpectedPacket")
  ELSE IF hs.eph # m.initEph \/ hs.static # t.static THEN Err(t, "InvalidAeadTag")
  ELSE Result(IF isPrevious THEN [t EXCEPT !.previous = HsNone] ELSE [t EXCEPT !.state = HsNone],
              "Ok", NewSession(hs.local_index, m.sender_idx, Key(t.me, m.initEph, m.eph), now))

(* The session is stored after it has sealed the keepalive that confirms it. *)
handle_handshake_response(t, m, now) ==
  LET r == receive_handshake_response(t, m, now)
      s == r.msg
      idx == s.receiving_index
      t1 == timer_tick(StoreSession(r.tunn, CountSent(s)), "TimeLastPacketReceived") IN
  IF r.kind # "Ok" THEN r
  ELSE Result(set_current_session(timer_tick_session_established(t1, TRUE, idx), idx),
              "WriteToNetwork", DataPacket(t, s, Empty))

receive_cookie_reply(t, m) ==
  CASE t.last_mac1 = 0 -> Err(t, "UnexpectedPacket")
    [] t.last_mac1 # 0 /\ m.receiver_idx # t.cookie_index -> Err(t, "WrongIndex")
    [] OTHER -> IF m.mac1 # t.last_mac1 THEN Err(t, "InvalidAeadTag")
                ELSE Result([t EXCEPT !.write_cookie = m.cookie], "Ok", NoMsg)

handle_cookie_reply(t, m) ==
  LET r == receive_cookie_reply(t, m) IN
  IF r.kind # "Ok" THEN r
  ELSE Done(timer_tick(timer_tick(r.tunn, "TimeLastPacketReceived"), "TimeCookieReceived"))

handle_verified_packet(t, m, now) ==
  CASE m.type = "init" -> handle_handshake_init(t, m, now)
    [] m.type = "resp" -> handle_handshake_response(t, m, now)
    [] m.type = "cookie" -> handle_cookie_reply(t, m)
    [] m.type = "data" -> handle_data(t, m)

(* Mutant: a new key also abandons the handshake under way. *)
set_static_private_Abandons(t, key) ==
  [t EXCEPT !.static = key, !.sessions = [i \in Slots |-> NoSession], !.state = HsNone]

set_static_private(t, key) ==
  [t EXCEPT !.static = key, !.sessions = [i \in Slots |-> NoSession]]

-----------------------------------------------------------------------------
(* Timers: the periodic call *)

(* Mutant: only the current session grows old. *)
update_session_timers_OnlyCurrent(t, now) ==
  LET old(i) == /\ i = t.current % N_SESSIONS
                /\ now - t.session_timers[i] > REJECT_AFTER_TIME IN
  [t EXCEPT
     !.sessions = [i \in Slots |-> IF old(i) THEN NoSession ELSE @[i]],
     !.session_timers = [i \in Slots |-> IF old(i) THEN now ELSE @[i]]]

update_session_timers(t, now) ==
  LET old(i) == now - t.session_timers[i] > REJECT_AFTER_TIME IN
  [t EXCEPT
     !.sessions = [i \in Slots |-> IF old(i) THEN NoSession ELSE @[i]],
     !.session_timers = [i \in Slots |-> IF old(i) THEN now ELSE @[i]]]

(* The guards of update_timers, on the timers as loaded at its start. *)
Age(t, name, now) == now - t.timers[name]

GivesUp(t, now) ==
  \/ Age(t, "TimeSessionEstablished", now) >= 3 * REJECT_AFTER_TIME
  \/ /\ t.state.tag = "InitSent"
     /\ Age(t, "TimeLastHandshakeStarted", now) >= REKEY_ATTEMPT_TIME

RekeyDue(t, now) ==
  LET established == t.timers["TimeSessionEstablished"] IN
  /\ t.is_initiator
  /\ \/ /\ established < t.timers["TimeLastDataPacketSent"]
        /\ now - established >= REKEY_AFTER_TIME
     \/ /\ established < t.timers["TimeLastDataPacketReceived"]
        /\ now - established >= REJECT_AFTER_TIME - KEEPALIVE_TIMEOUT - REKEY_TIMEOUT

NoAnswer(t, now) ==
  /\ t.timers["TimeLastDataPacketSent"] > t.timers["TimeLastPacketReceived"]
  /\ Age(t, "TimeLastPacketReceived", now) >= KEEPALIVE_TIMEOUT + REKEY_TIMEOUT

KeepaliveDue(t, now) ==
  /\ t.timers["TimeLastDataPacketReceived"] > t.timers["TimeLastPacketSent"]
  /\ Age(t, "TimeLastPacketSent", now) >= KEEPALIVE_TIMEOUT

PersistentDue(t, now) ==
  /\ t.persistent_keepalive > 0
  /\ Age(t, "TimePersistentKeepalive", now) >= t.persistent_keepalive

(* The else branch of update_timers: no initiation of ours is awaited.     *)
update_idle(t, now) ==
  LET t1 == [t EXCEPT !.want_handshake = @ /\ ~NoAnswer(t, now)]
      t2 == [t1 EXCEPT !.want_keepalive = @ /\ ~KeepaliveDue(t, now)]
      t3 == IF PersistentDue(t, now) THEN timer_tick(t2, "TimePersistentKeepalive") ELSE t2 IN
  IF RekeyDue(t, now) \/ (NoAnswer(t, now) /\ t.want_handshake)
  THEN format_handshake_initiation(t1, TRUE, now)
  ELSE IF PersistentDue(t, now) \/ (KeepaliveDue(t, now) /\ t.want_keepalive)
  THEN encapsulate(t3, Empty, now)
  ELSE Done(t3)

(* Mutant: a cookie lives for one unit of time more. *)
clear_cookie_Late(t, now) ==
  IF Age(t, "TimeCookieReceived", now) > COOKIE_EXPIRATION_TIME
  THEN [t EXCEPT !.write_cookie = NoCookie] ELSE t

(* Handshake::clear_cookie, when the cookie is too old. *)
clear_cookie(t, now) ==
  IF Age(t, "TimeCookieReceived", now) >= COOKIE_EXPIRATION_TIME
  THEN [t EXCEPT !.write_cookie = NoCookie] ELSE t

update_timers(tunn, now) ==
  LET t1 == update_session_timers([tunn EXCEPT !.timers["TimeCurrent"] = now], now)
      t == clear_cookie(t1, now) IN
  IF is_expired(t1) THEN Err(t1, "ConnectionExpired")
  ELSE IF GivesUp(t, now) THEN Err(clear_all(set_expired(t), now), "ConnectionExpired")
  ELSE IF t.state.tag # "InitSent" THEN update_idle(t, now)
  ELSE IF now - t.state.time_sent >= REKEY_TIMEOUT
  THEN format_handshake_initiation(t, TRUE, now)
  ELSE Done(t)
=============================================================================
