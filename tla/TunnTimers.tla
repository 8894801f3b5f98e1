----------------------------- MODULE TunnTimers -----------------------------
(***************************************************************************)
(* One tunnel endpoint over a long time: its session ring, handshake       *)
(* retries, keepalives, expiry and cookie, driven by one caller as the     *)
(* device drives a peer.  Datagrams that pass authentication may arrive at *)
(* any moment; update_timers runs at least once in each unit of time       *)
(* (register_timers of the device calls it every second).                  *)
(***************************************************************************)
EXTENDS Tunn, FiniteSets

CONSTANTS
  MaxTime,         \* bound: the clock
  MaxEvents,       \* bound: packets of the application and of the peer
  Events,          \* which kinds of events the environment may produce
  Keepalive        \* persistent keepalive interval, 0 for none

AllEvents == {"packet", "response", "init", "data", "cookie", "key"}

ASSUME TimersAssumption ==
  /\ {MaxTime, MaxEvents, Keepalive} \subseteq Nat
  /\ Events \subseteq AllEvents
  /\ {"me", "peer"} \subseteq Endpoints

VARIABLES
  tunn,            \* the endpoint
  now,             \* the clock
  updated,         \* update_timers has run in this unit of time
  flush,           \* the caller owes a repeated call of decapsulate
  events,          \* events so far
  owed,            \* history: when data came in that nothing sent since answers (+1), or 0
  lapsed           \* history: it was expired at some time since its cookie came

vars == <<tunn, now, updated, flush, events, owed, lapsed>>

Init ==
  /\ tunn = NewTunn("me", Keepalive)
  /\ now = 0
  /\ updated = FALSE
  /\ flush = FALSE
  /\ events = 0
  /\ owed = 0
  /\ lapsed = FALSE

Earliest(old) == IF old = 0 THEN now + 1 ELSE old

(* A call that wrote r: whatever is sent answers what was received. *)
Send(r) ==
  /\ tunn' = r.tunn
  /\ owed' = IF r.kind = "WriteToNetwork" THEN 0 ELSE owed

(* A datagram of the peer: every kind the endpoint accepts. *)
Receive(kind, m) ==
  LET r == handle_verified_packet(tunn, m, now) IN
  /\ kind \in Events /\ events < MaxEvents /\ ~flush
  /\ tunn' = r.tunn
  /\ flush' = (r.kind = "WriteToNetwork")
  /\ owed' = IF r.kind = "WriteToNetwork" THEN 0
             ELSE IF r.kind = "WriteToTunnel" THEN Earliest(owed) ELSE owed
  /\ lapsed' = IF r.tunn.write_cookie # tunn.write_cookie THEN is_expired(r.tunn) ELSE lapsed
  /\ events' = events + 1
  /\ UNCHANGED <<now, updated>>

(* An answer to either initiation that may still be answered. *)
ReceiveResponse ==
  \E hs \in {tunn.state, tunn.previous} :
    /\ hs.tag = "InitSent" /\ hs.static = tunn.static
    /\ Receive("response",
         [type |-> "resp", receiver_idx |-> hs.local_index, initEph |-> hs.eph,
          sender_idx |-> 0, eph |-> 0])

ReceiveInit ==
  /\ tunn.static = ConfiguredKey
  /\ Receive("init", [type |-> "init", from |-> "peer", sender_idx |-> 0,
                      eph |-> tunn.last_handshake_timestamp + 1, static |-> ConfiguredKey])

(* The next packet of the peer on a session both hold: a keepalive, an IP  *)
(* packet, or bytes that are none.                                         *)
ReceiveData ==
  \E i \in Slots : \E x \in {Empty, [at |-> now]} \cup BadPackets :
    LET s == tunn.sessions[i] IN
    /\ s # NoSession
    /\ Receive("data", [type |-> "data", receiver_idx |-> s.receiving_index, key |-> s.key,
                        counter |-> Cardinality(s.received), payload |-> x])

(* A cookie reply to the last handshake message: the cookie is named by    *)
(* the moment it arrives.                                                  *)
ReceiveCookie ==
  /\ tunn.last_mac1 # 0
  /\ Receive("cookie", [type |-> "cookie", receiver_idx |-> tunn.cookie_index,
                        mac1 |-> tunn.last_mac1, cookie |-> now + 1])

(* The application's packet, named by the moment it is sent. *)
Encapsulate ==
  /\ "packet" \in Events /\ events < MaxEvents /\ ~flush
  /\ Send(encapsulate(tunn, [at |-> now], now))
  /\ events' = events + 1
  /\ UNCHANGED <<now, updated, flush, lapsed>>

SendQueued ==
  /\ flush
  /\ LET r == send_queued_packet(tunn, now) IN
     /\ Send(r)
     /\ flush' = (r.kind = "WriteToNetwork")
  /\ UNCHANGED <<now, updated, events, lapsed>>

UpdateTimers ==
  /\ ~flush
  /\ Send(update_timers(tunn, now))
  /\ updated' = TRUE
  /\ lapsed' = (tunn'.write_cookie # NoCookie /\ (lapsed \/ is_expired(tunn')))
  /\ UNCHANGED <<now, flush, events>>

SetStaticPrivate ==
  /\ "key" \in Events /\ events < MaxEvents /\ ~flush
  /\ tunn' = set_static_private(tunn, IF tunn.static = ConfiguredKey THEN 1 ELSE ConfiguredKey)
  /\ events' = events + 1
  /\ UNCHANGED <<now, updated, flush, owed, lapsed>>

Tick ==
  /\ now < MaxTime /\ updated /\ ~flush
  /\ now' = now + 1
  /\ updated' = FALSE
  /\ UNCHANGED <<tunn, flush, events, owed, lapsed>>

Next ==
  \/ ReceiveResponse \/ ReceiveInit \/ ReceiveData \/ ReceiveCookie
  \/ Encapsulate \/ SendQueued \/ UpdateTimers \/ SetStaticPrivate \/ Tick

Spec == Init /\ [][Next]_vars

-----------------------------------------------------------------------------
(* Properties *)

(* Every field has its type; a session sits in the slot its index names.   *)
TypeOK ==
  /\ TunnType(tunn, {Empty} \cup [at : Nat])
  /\ now \in 0..MaxTime /\ events \in 0..MaxEvents
  /\ {updated, flush, lapsed} \subseteq BOOLEAN
  /\ owed \in 0..(MaxTime + 1)

(* No timer is ahead of the clock: none of the checked_sub().unwrap() and  *)
(* duration_since calls of update_timers and time_since_last_handshake     *)
(* meets a later time, through expiry and Timers::clear included.          *)
TimersInPast ==
  /\ \A n \in TimerNames : tunn.timers[n] <= tunn.timers["TimeCurrent"]
  /\ \A i \in Slots : tunn.session_timers[i] <= tunn.timers["TimeCurrent"]
  /\ tunn.timers["TimeCurrent"] <= now

(* No session outlives REJECT_AFTER_TIME.  Once update_timers has run, a   *)
(* session in the ring was created at most REJECT_AFTER_TIME ago, whatever *)
(* slot it was put in and whatever was in the slot before.                 *)
SessionLifetime ==
  updated => \A i \in Slots :
    tunn.sessions[i] # NoSession => now - tunn.sessions[i].created <= REJECT_AFTER_TIME

(* An expired connection holds no key material and no packet.              *)
ExpiredIsClean ==
  is_expired(tunn) =>
    /\ tunn.previous = HsExpired
    /\ tunn.packet_queue = <<>>
    /\ \A i \in Slots : tunn.sessions[i] = NoSession

(* A cookie is not used for longer than it lives: once update_timers has   *)
(* run, the one that the next handshake message would carry came less than *)
(* COOKIE_EXPIRATION_TIME ago, unless the connection was expired at some   *)
(* time since: then update_timers returns before it looks at the cookie,   *)
(* and Timers::clear made an earlier one young again.                      *)
CookieLifetime ==
  (updated /\ tunn.write_cookie # NoCookie /\ ~lapsed)
    => now - (tunn.write_cookie - 1) < COOKIE_EXPIRATION_TIME

(* No packet is stuck.  While packets wait in the queue an initiation of   *)
(* ours is under way (its answer flushes the queue, its timeout retries or *)
(* clears it), or the caller is about to flush: the messages of the peer   *)
(* never leave the queue without anyone to empty it.                       *)
NoStuckQueue ==
  (tunn.packet_queue # <<>> /\ ~flush) => tunn.state.tag = "InitSent"

-----------------------------------------------------------------------------
(* What a comment of the code says *)

(* timers.rs: "If a packet has been received from a given peer, but we     *)
(* have not sent one back to the given peer in KEEPALIVE ms, we send an    *)
(* empty packet."                                                          *)
KeepaliveSent ==
  (updated /\ owed # 0) => now - (owed - 1) <= KEEPALIVE_TIMEOUT
=============================================================================
