-------------------------- MODULE TunnTimersProofs --------------------------
(***************************************************************************)
(* The invariants of TunnTimers, for every value of the constants.         *)
(***************************************************************************)
EXTENDS TunnTimers, TunnLemmas, FiniteSetTheorems

Payloads == {Empty} \cup [at : Nat]

-----------------------------------------------------------------------------
(* The inductive invariant, on a tunnel t at a time tm. *)

Past(t, tm) ==
  /\ \A n \in TimerNames : t.timers[n] <= t.timers["TimeCurrent"]
  /\ \A i \in Slots : t.session_timers[i] <= t.timers["TimeCurrent"]
  /\ t.timers["TimeCurrent"] <= tm

Clean(t) ==
  is_expired(t) =>
    /\ t.previous = HsExpired
    /\ t.packet_queue = <<>>
    /\ \A i \in Slots : t.sessions[i] = NoSession

(* A session is at least as young as the timer of its slot, and has seen   *)
(* finitely many counters.                                                 *)
Born(t) ==
  \A i \in Slots : t.sessions[i] # NoSession =>
    /\ t.session_timers[i] <= t.sessions[i].created
    /\ IsFiniteSet(t.sessions[i].received)

Good(t, tm) == Past(t, tm) /\ Clean(t) /\ Born(t)

(* After update_timers, until the clock moves. *)
UpToDate(t, tm) ==
  /\ t.timers["TimeCurrent"] = tm
  /\ \A i \in Slots : t.sessions[i] # NoSession => tm - t.session_timers[i] <= REJECT_AFTER_TIME

(* The cookie and its timer are left alone, but for an expired connection. *)
CookieKept(t, u) ==
  /\ u.write_cookie = t.write_cookie
  /\ is_expired(t) \/ u.timers["TimeCookieReceived"] = t.timers["TimeCookieReceived"]
  /\ is_expired(u) => is_expired(t)

(* What a call other than update_timers keeps. *)
Keeps(t, u, tm) ==
  /\ Good(u, tm)
  /\ UpToDate(t, tm) => UpToDate(u, tm)

CookieInv ==
  /\ is_expired(tunn) /\ tunn.write_cookie # NoCookie => lapsed
  /\ tunn.write_cookie # NoCookie /\ ~lapsed =>
       /\ tunn.timers["TimeCookieReceived"] <= tunn.write_cookie - 1
       /\ updated => now - tunn.timers["TimeCookieReceived"] < COOKIE_EXPIRATION_TIME

IndInv ==
  /\ TypeOK
  /\ Good(tunn, now)
  /\ updated => UpToDate(tunn, now)
  /\ CookieInv
  /\ NoStuckQueue

(* A cookie numbered after its time of arrival c has not come of age at c. *)
LEMMA Fresh ==
  ASSUME NEW n \in Nat, NEW c \in Nat, c <= n
  PROVE  c <= (n + 1) - 1 /\ (c = n => n - c < COOKIE_EXPIRATION_TIME)
BY TunnAssumption

-----------------------------------------------------------------------------
(* The types that the steps below use. *)
LEMMA Typed ==
  ASSUME NEW P, NEW t, TunnType(t, P)
  PROVE  /\ t.timers \in [TimerNames -> Nat] /\ t.session_timers \in [Slots -> Nat]
         /\ t.sessions \in [Slots -> SessionType \cup {NoSession}]
         /\ t.state \in HandshakeStateType /\ t.packet_queue \in Seq(P)
         /\ t.write_cookie \in Nat /\ t.static \in Nat
         /\ t.timers["TimeCurrent"] \in Nat /\ t.timers["TimeCookieReceived"] \in Nat
BY Zenon DEF TunnType, Tunnels, TimerNames

(* Timers that are left alone or set to TimeCurrent are not after it. *)
LEMMA PastKept ==
  ASSUME NEW P, NEW t, TunnType(t, P), NEW u, NEW tm \in Nat, Past(t, tm),
         \A n \in TimerNames : u.timers[n] \in {t.timers[n], t.timers["TimeCurrent"]},
         \A i \in Slots : u.session_timers[i] \in {t.session_timers[i], t.timers["TimeCurrent"]}
  PROVE  Past(u, tm) /\ u.timers["TimeCurrent"] = t.timers["TimeCurrent"]
<1>1. t.timers \in [TimerNames -> Nat] /\ t.timers["TimeCurrent"] \in Nat
  BY Typed
<1>2. u.timers["TimeCurrent"] = t.timers["TimeCurrent"]
  BY DEF TimerNames
<1>3. \A n \in TimerNames : u.timers[n] <= t.timers["TimeCurrent"]
  BY <1>1 DEF Past
<1>4. \A i \in Slots : u.session_timers[i] <= t.timers["TimeCurrent"]
  BY <1>1 DEF Past
<1> QED
  BY <1>2, <1>3, <1>4, Zenon DEF Past

(* A call that leaves the sessions alone, or replaces some by the same     *)
(* session with a higher counter. *)
LEMMA RingKept ==
  ASSUME NEW P, NEW t, TunnType(t, P), NEW u, NEW tm \in Nat,
         Past(t, tm), Born(t), Clean(u), TimersKept(t, u),
         u.session_timers = t.session_timers,
         \A i \in Slots : \/ u.sessions[i] = t.sessions[i]
                          \/ /\ t.sessions[i] # NoSession
                             /\ u.sessions[i].created = t.sessions[i].created
                             /\ IsFiniteSet(u.sessions[i].received)
  PROVE  Keeps(t, u, tm)
<1>1. t.session_timers \in [Slots -> Nat]
  BY Typed
<1>2. Past(u, tm) /\ u.timers["TimeCurrent"] = t.timers["TimeCurrent"]
  BY <1>1, PastKept DEF TimersKept
<1>3. Born(u)
  BY DEF Born
<1>4. UpToDate(t, tm) => UpToDate(u, tm)
  BY <1>2 DEF UpToDate
<1> QED
  BY <1>2, <1>3, <1>4, Zenon DEF Keeps, Good

(* A handshake begins. *)
LEMMA BeginsKeeps ==
  ASSUME NEW P, NEW t, TunnType(t, P), NEW tm \in Nat, NEW r, Begins(t, r, tm),
         Past(t, tm), Born(t), is_expired(t) => \A i \in Slots : t.sessions[i] = NoSession
  PROVE  /\ Keeps(t, r.tunn, tm) /\ CookieKept(t, r.tunn)
         /\ r.tunn.state.tag = "InitSent" /\ r.tunn.packet_queue = t.packet_queue
         /\ r.kind = "WriteToNetwork"
<1> DEFINE u == r.tunn
<1>1. /\ u.state.tag = "InitSent" /\ SameRing(t, u) /\ u.packet_queue = t.packet_queue
      /\ r.kind = "WriteToNetwork" /\ u.write_cookie = t.write_cookie
      /\ ~is_expired(t) => TimersKept(t, u)
      /\ is_expired(t) => \A n \in TimerNames : u.timers[n] = tm
  BY DEF Begins, Initiates
<1> HIDE DEF u
<1>2. ~is_expired(u) /\ Clean(u)
  BY <1>1 DEF is_expired, HsExpired, Clean
<1>3. CookieKept(t, u)
  BY <1>1, <1>2 DEF CookieKept, TimersKept
<1>4. Keeps(t, u, tm)
  <2>1. CASE ~is_expired(t)
    BY <1>1, <1>2, <2>1, RingKept, Zenon DEF SameRing
  <2>2. CASE is_expired(t)
    <3>1. t.session_timers \in [Slots -> Nat] /\ t.timers["TimeCurrent"] \in Nat
      BY Typed
    <3>2. u.timers["TimeCurrent"] = tm
      BY <1>1, <2>2, Zenon DEF TimerNames
    <3>3. \A i \in Slots : u.session_timers[i] <= tm /\ u.sessions[i] = NoSession
      BY <1>1, <2>2, <3>1 DEF Past, SameRing
    <3>4. Past(u, tm)
      BY <1>1, <2>2, <3>2, <3>3 DEF Past
    <3> QED
      BY <1>2, <3>2, <3>3, <3>4, Zenon DEF Keeps, Good, Born, UpToDate
  <2> QED
    BY <2>1, <2>2, Zenon
<1> QED
  BY <1>1, <1>3, <1>4, Zenon DEF u

(* encapsulate, with a current session or without. *)
LEMMA EncapsulateKeeps ==
  ASSUME NEW P, NEW t, TunnType(t, P), NEW tm \in Nat, NEW src \in P, Good(t, tm)
  PROVE  LET r == encapsulate(t, src, tm)
             u == r.tunn IN
         /\ Keeps(t, u, tm) /\ CookieKept(t, u)
         /\ \/ u.state.tag = "InitSent"
            \/ r.kind = "WriteToNetwork" /\ u.packet_queue = t.packet_queue /\ u.state = t.state
<1> DEFINE r == encapsulate(t, src, tm)
           u == r.tunn
           s == CurrentSession(t)
           q == queue_packet(t, src)
           i == t.current % N_SESSIONS
<1>0. /\ s = NoSession => r = format_handshake_initiation(q, FALSE, tm)
      /\ s # NoSession => Seals(t, r, src)
  BY Encapsulates, Zenon
<1>1. s # NoSession =>
           /\ s \in SessionType /\ r.kind = "WriteToNetwork"
           /\ SameHandshake(t, u)
           /\ u.sessions = [t.sessions EXCEPT ![i] = CountSent(s)]
           /\ u.session_timers = t.session_timers
           /\ u.packet_queue = t.packet_queue
           /\ TimersKept(t, u)
  BY <1>0 DEF Seals
<1>2. CASE s # NoSession
  <2>1. i \in Slots
    BY CurrentSlot
  <2>2. /\ CountSent(s).created = s.created /\ CountSent(s).received = s.received
    BY <1>1, <1>2, CountedOne, Zenon
  <2>3. t.sessions \in [Slots -> SessionType \cup {NoSession}]
    BY Typed
  <2>4. s = t.sessions[i]
    BY DEF CurrentSession
  <2> HIDE DEF u, r, s, i
  <2>5. Clean(u)
    BY <1>1, <1>2, <2>1, <2>4, Zenon DEF Good, Clean, SameHandshake, is_expired
  <2>6. Keeps(t, u, tm)
    <3>1. ASSUME NEW j \in Slots
          PROVE  \/ u.sessions[j] = t.sessions[j]
                 \/ /\ t.sessions[j] # NoSession
                    /\ u.sessions[j].created = t.sessions[j].created
                    /\ IsFiniteSet(u.sessions[j].received)
      BY <1>1, <1>2, <2>2, <2>3, <2>4, Zenon DEF Good, Born
    <3> QED
      BY <1>1, <1>2, <2>5, <3>1, RingKept, ZenonT(30) DEF Good
  <2>7. CookieKept(t, u)
    BY <1>1, <1>2, ZenonT(30) DEF CookieKept, TimersKept, SameHandshake, is_expired
  <2> QED
    BY <1>1, <1>2, <2>6, <2>7, Zenon DEF u, r, SameHandshake
<1>3. CASE s = NoSession
  <2>1. /\ TunnType(q, P) /\ SameHandshake(t, q) /\ SameRing(t, q)
        /\ q.timers = t.timers /\ q.write_cookie = t.write_cookie
    BY QueuePacket, Zenon
  <2>2. Past(q, tm) /\ Born(q)
    BY <2>1 DEF Good, Past, Born, SameRing
  <2>3. UpToDate(t, tm) => UpToDate(q, tm)
    BY <2>1 DEF UpToDate, SameRing
  <2> HIDE DEF u, r, q, s
  <2>4. CASE is_in_progress(q)
    <3>1. r = Done(q)
      BY <1>0, <1>3, <2>1, <2>4, FormatInitiation, Zenon
    <3>2. u = q
      BY <3>1 DEF u, Done, Result
    <3>3. q.state.tag = "InitSent" /\ ~is_expired(q)
      <4>1. q.state \in HandshakeStateType
        BY <2>1, Typed, Zenon
      <4> QED
        BY <2>4, <4>1, Kinds, Zenon DEF is_in_progress, is_expired
    <3>4. Keeps(t, q, tm)
      BY <2>2, <2>3, <3>3, Zenon DEF Keeps, Good, Clean
    <3>5. CookieKept(t, q)
      BY <2>1, <3>3, Zenon DEF CookieKept
    <3> QED
      BY <3>2, <3>3, <3>4, <3>5, Zenon DEF u, r
  <2>5. CASE ~is_in_progress(q)
    <3>1. Begins(q, r, tm)
      BY <1>0, <1>3, <2>1, <2>5, FormatInitiation, ZenonT(30)
    <3>2. is_expired(q) => \A j \in Slots : q.sessions[j] = NoSession
      BY <2>1, Zenon DEF Good, Clean, SameRing, SameHandshake, is_expired
    <3>3. Keeps(q, u, tm) /\ CookieKept(q, u) /\ u.state.tag = "InitSent"
      BY <2>1, <2>2, <3>1, <3>2, BeginsKeeps, ZenonT(30) DEF u
    <3>4. Keeps(t, u, tm)
      BY <2>3, <3>3, Zenon DEF Keeps
    <3>5. CookieKept(t, u)
      BY <2>1, <3>3, Zenon DEF CookieKept, SameHandshake, is_expired
    <3> QED
      BY <3>3, <3>4, <3>5, ZenonT(30) DEF u, r
  <2> QED
    BY <2>4, <2>5
<1> QED
  BY <1>2, <1>3

(* A data message is accepted. *)
LEMMA AcceptsKeeps ==
  ASSUME NEW P, NEW t, TunnType(t, P), NEW tm \in Nat, NEW r, NEW m, Good(t, tm),
         m.receiver_idx \in Indices, m.counter \in Nat, Accepts(t, r, m)
  PROVE  /\ Keeps(t, r.tunn, tm) /\ CookieKept(t, r.tunn)
         /\ r.tunn.packet_queue = t.packet_queue /\ r.tunn.state = t.state
<1> DEFINE u == r.tunn
           i == m.receiver_idx % N_SESSIONS
           s == t.sessions[i]
<1>1. /\ s \in SessionType /\ SameHandshake(t, u)
      /\ u.sessions = [t.sessions EXCEPT ![i] = Marked(s, m.counter)]
      /\ u.session_timers = t.session_timers /\ u.packet_queue = t.packet_queue
      /\ TimersKept(t, u)
  BY Zenon DEF Accepts
<1>2. /\ i \in Slots /\ s # NoSession
      /\ t.sessions \in [Slots -> SessionType \cup {NoSession}]
  BY <1>1, Typed, Kinds, IndexRange, Zenon
<1>3. /\ Marked(s, m.counter).created = s.created
      /\ Marked(s, m.counter).received = s.received \cup {m.counter}
  BY <1>1, MarkedOne, Zenon
<1>4. IsFiniteSet(s.received)
  BY <1>2, Zenon DEF Good, Born
<1>5. IsFiniteSet(s.received \cup {m.counter})
  BY <1>4, FS_AddElement, Zenon
<1>6. Clean(u)
  BY <1>1, <1>2, Zenon DEF Good, Clean, SameHandshake, is_expired
<1> HIDE DEF u, i
<1>7. ASSUME NEW j \in Slots
      PROVE  \/ u.sessions[j] = t.sessions[j]
             \/ /\ t.sessions[j] # NoSession
                /\ u.sessions[j].created = t.sessions[j].created
                /\ IsFiniteSet(u.sessions[j].received)
  BY <1>1, <1>2, <1>3, <1>5, ZenonT(30)
<1>8. Keeps(t, u, tm)
  BY <1>1, <1>6, <1>7, RingKept, Zenon DEF Good
<1> QED
  BY <1>1, <1>8, Zenon DEF CookieKept, TimersKept, SameHandshake, is_expired, u

(* A session is established: its slot is dated. *)
LEMMA EstablishesKeeps ==
  ASSUME NEW P, NEW t, TunnType(t, P), NEW tm \in Nat, NEW u, NEW s, Good(t, tm),
         Establishes(t, u, s), s.created = tm, IsFiniteSet(s.received), ~is_expired(u)
  PROVE  Keeps(t, u, tm) /\ CookieKept(t, u)
<1> DEFINE i == s.receiving_index % N_SESSIONS
           c == t.timers["TimeCurrent"]
<1>1. /\ s \in SessionType
      /\ u.sessions = [t.sessions EXCEPT ![i] = s]
      /\ u.session_timers = [t.session_timers EXCEPT ![i] = c]
      /\ TimersKept(t, u)
  BY Zenon DEF Establishes
<1>2. /\ i \in Slots /\ c \in Nat /\ t.session_timers \in [Slots -> Nat]
      /\ t.sessions \in [Slots -> SessionType \cup {NoSession}]
  BY <1>1, Typed, IndexRange, ZenonT(30) DEF SessionType
<1>3. c <= tm
  BY DEF Good, Past
<1> HIDE DEF i, c
<1>4. \A j \in Slots : u.session_timers[j] \in {t.session_timers[j], c}
  BY <1>1, <1>2
<1>5. Past(u, tm) /\ u.timers["TimeCurrent"] = c
  BY <1>1, <1>4, PastKept, Zenon DEF TimersKept, Good, c
<1>6. Born(u)
  BY <1>1, <1>2, <1>3, ZenonT(30) DEF Good, Born
<1>7. UpToDate(t, tm) => UpToDate(u, tm)
  <2>1. SUFFICES ASSUME UpToDate(t, tm), NEW j \in Slots, u.sessions[j] # NoSession
                 PROVE  tm - u.session_timers[j] <= REJECT_AFTER_TIME
    BY <1>5, Zenon DEF UpToDate, c
  <2>2. CASE j = i
    BY <1>1, <1>2, <2>1, <2>2, TunnAssumption DEF UpToDate, c
  <2>3. CASE j # i
    BY <1>1, <1>2, <2>1, <2>3, Zenon DEF UpToDate
  <2> QED
    BY <2>2, <2>3, Zenon
<1>8. Clean(u)
  BY DEF Clean
<1> QED
  BY <1>1, <1>5, <1>6, <1>7, <1>8 DEF Keeps, Good, CookieKept, TimersKept

(* Either handshake message of the peer. *)
LEMMA AnswersKeeps ==
  ASSUME NEW P, NEW t, TunnType(t, P), NEW tm \in Nat, NEW r, NEW m, Good(t, tm),
         Answers(t, r, m, tm)
  PROVE  Keeps(t, r.tunn, tm) /\ CookieKept(t, r.tunn) /\ r.kind = "WriteToNetwork"
<1> DEFINE s == NewSession(inc_index(t), m.sender_idx, Key(m.from, m.eph, t.fresh + 1), tm)
<1>1. Establishes(t, r.tunn, s) /\ r.tunn.state = HsNone /\ r.kind = "WriteToNetwork"
  BY DEF Answers
<1>2. s.created = tm /\ s.received = {}
  BY DEF NewSession
<1>3. IsFiniteSet({})
  BY FS_EmptySet
<1>4. ~is_expired(r.tunn)
  BY <1>1, Kinds DEF is_expired
<1> HIDE DEF s
<1> QED
  BY <1>1, <1>2, <1>3, <1>4, EstablishesKeeps, ZenonT(30)

(* A response that completes a handshake keeps the invariant. *)
LEMMA ConfirmsKeeps ==
  ASSUME NEW P, NEW t, TunnType(t, P), NEW tm \in Nat, NEW r, NEW m, Good(t, tm),
         Confirms(t, r, m, tm)
  PROVE  Keeps(t, r.tunn, tm) /\ CookieKept(t, r.tunn) /\ r.kind = "WriteToNetwork"
<1> DEFINE c == Completed(t, m, tm)
           s == CountSent(c)
<1>1. Establishes(t, r.tunn, s) /\ r.kind = "WriteToNetwork"
  BY DEF Confirms
<1>2. s.created = tm /\ s.received = {}
  BY DEF Completed, NewSession, CountSent
<1>3. IsFiniteSet({})
  BY FS_EmptySet
<1>4. ~is_expired(r.tunn)
  BY Kinds DEF Confirms, is_expired, Good, Clean, Awaits, HsExpired
<1> QED
  BY <1>1, <1>2, <1>3, <1>4, EstablishesKeeps, ZenonT(30)

(* A tunnel that has aged is up to date. *)
LEMMA AgedKeeps ==
  ASSUME NEW P, NEW t, TunnType(t, P), NEW a, TunnType(a, P), NEW tm \in Nat,
         Good(t, tm), Aged(t, a, tm)
  PROVE  Good(a, tm) /\ UpToDate(a, tm)
<1>1. /\ t.timers \in [TimerNames -> Nat] /\ t.session_timers \in [Slots -> Nat]
      /\ t.timers["TimeCurrent"] \in Nat
  BY Typed
<1>2. \A n \in TimerNames : t.timers[n] <= tm
  BY <1>1 DEF Good, Past
<1>3. \A i \in Slots : t.session_timers[i] <= tm
  BY <1>1 DEF Good, Past
<1>4. Past(a, tm)
  BY <1>2, <1>3 DEF Aged, Past
<1>5. Clean(a)
  BY DEF Good, Clean, Aged, SameHandshake, is_expired
<1>6. Born(a)
  BY DEF Good, Born, Aged
<1>7. UpToDate(a, tm)
  BY <1>1, TunnAssumption DEF UpToDate, Aged
<1> QED
  BY <1>4, <1>5, <1>6, <1>7, Zenon DEF Good

(* update_timers: the tunnel is up to date, and a cookie that the next     *)
(* handshake message would carry is young, unless the connection expired.  *)
LEMMA UpdateKeeps ==
  ASSUME NEW P, NEW t, TunnType(t, P), NEW tm \in Nat, Empty \in P, Good(t, tm),
         t.packet_queue # <<>> => t.state.tag = "InitSent"
  PROVE  LET u == update_timers(t, tm).tunn IN
         /\ Good(u, tm) /\ UpToDate(u, tm)
         /\ u.packet_queue # <<>> => u.state.tag = "InitSent"
         /\ u.write_cookie # NoCookie /\ ~is_expired(u) =>
              /\ u.write_cookie = t.write_cookie
              /\ u.timers["TimeCookieReceived"] = t.timers["TimeCookieReceived"]
              /\ tm - u.timers["TimeCookieReceived"] < COOKIE_EXPIRATION_TIME
<1> DEFINE r == update_timers(t, tm)
           u == r.tunn
           Young(v) == v.write_cookie # NoCookie =>
              /\ v.write_cookie = t.write_cookie
              /\ v.timers["TimeCookieReceived"] = t.timers["TimeCookieReceived"]
              /\ tm - v.timers["TimeCookieReceived"] < COOKIE_EXPIRATION_TIME
<1>1. PICK a : TunnType(a, P) /\ Aged(t, a, tm) /\ Decides(a, r, tm)
  BY TimersUpdated
<1>2. Good(a, tm) /\ UpToDate(a, tm)
  BY <1>1, AgedKeeps, ZenonT(30)
<1>3. a.packet_queue # <<>> => a.state.tag = "InitSent"
  BY <1>1 DEF Aged, SameHandshake
<1>4. ~is_expired(a) => Young(a)
  BY <1>1 DEF Aged, SameHandshake, is_expired
<1> HIDE DEF r
<1>5. CASE is_expired(a) /\ r = Err(a, "ConnectionExpired")
  <2>1. u = a
    BY <1>5 DEF Err, Result
  <2> QED
    BY <1>2, <1>3, <1>5, <2>1, Zenon DEF r
<1>6. CASE ~is_expired(a) /\ GaveUp(a, r, tm)
  <2>1. /\ u.state = HsExpired /\ u.previous = HsExpired /\ u.packet_queue = <<>>
        /\ \A i \in Slots : u.sessions[i] = NoSession
        /\ u.session_timers = a.session_timers
        /\ \A n \in TimerNames : u.timers[n] = tm
    BY <1>6 DEF GaveUp
  <2>2. is_expired(u)
    BY <2>1 DEF is_expired
  <2>3. /\ u.timers["TimeCurrent"] = tm
        /\ \A n \in TimerNames : u.timers[n] <= tm
    BY <2>1 DEF TimerNames
  <2>4. \A i \in Slots : u.session_timers[i] <= tm
    BY <1>2, <2>1, Zenon DEF Good, Past, UpToDate
  <2> HIDE DEF u
  <2>5. Good(u, tm) /\ UpToDate(u, tm)
    BY <2>1, <2>3, <2>4 DEF Good, Past, Clean, Born, UpToDate
  <2> QED
    BY <2>1, <2>2, <2>5, Zenon DEF u, r
<1>7. ASSUME ~is_expired(a), Keeps(a, u, tm), CookieKept(a, u),
             u.packet_queue # <<>> => u.state.tag = "InitSent"
      PROVE  /\ Good(u, tm) /\ UpToDate(u, tm)
             /\ u.packet_queue # <<>> => u.state.tag = "InitSent"
             /\ Young(u)
  BY <1>2, <1>4, <1>7, Zenon DEF Keeps, CookieKept
<1>8. CASE ~is_expired(a) /\ r = format_handshake_initiation(a, TRUE, tm)
  <2>1. Begins(a, r, tm)
    BY <1>1, <1>8, FormatInitiation, Zenon
  <2>2. Keeps(a, u, tm) /\ CookieKept(a, u) /\ u.state.tag = "InitSent"
    BY <1>1, <1>2, <1>8, <2>1, BeginsKeeps, ZenonT(30) DEF Good
  <2> QED
    BY <1>7, <1>8, <2>2, Zenon DEF r
<1>9. CASE ~is_expired(a) /\ a.state.tag # "InitSent" /\ r = encapsulate(a, Empty, tm)
  <2>1. /\ Keeps(a, u, tm) /\ CookieKept(a, u)
        /\ \/ u.state.tag = "InitSent"
           \/ u.packet_queue = a.packet_queue /\ u.state = a.state
    BY <1>1, <1>2, <1>9, EncapsulateKeeps
  <2> QED
    BY <1>3, <1>7, <1>9, <2>1, ZenonT(30) DEF r
<1>10. CASE ~is_expired(a) /\ r = Done(a)
  <2>1. u = a
    BY <1>10 DEF Done, Result
  <2> QED
    BY <1>2, <1>3, <1>4, <1>10, <2>1, ZenonT(30) DEF r
<1> QED
  BY <1>1, <1>5, <1>6, <1>8, <1>9, <1>10, ZenonT(30) DEF Decides

-----------------------------------------------------------------------------
(* The parts of a step that every call shares. *)
LEMMA StepKeeps ==
  ASSUME IndInv, TunnType(tunn', Payloads), Keeps(tunn, tunn', now), CookieKept(tunn, tunn'),
         UNCHANGED <<now, updated, lapsed>>, events' \in 0..MaxEvents, flush' \in BOOLEAN,
         owed' \in 0..(MaxTime + 1), NoStuckQueue'
  PROVE  IndInv'
<1>1. TypeOK'
  BY DEF IndInv, TypeOK, Payloads
<1>2. Good(tunn, now)' /\ (updated => UpToDate(tunn, now))'
  BY DEF IndInv, Keeps
<1>3. CookieInv'
  BY DEF IndInv, CookieInv, CookieKept
<1> QED
  BY <1>1, <1>2, <1>3, ZenonT(30) DEF IndInv

(* The types of what a step of the environment changes. *)
LEMMA Facts ==
  ASSUME IndInv
  PROVE  /\ TunnType(tunn, Payloads) /\ Good(tunn, now) /\ now \in Nat /\ Empty \in Payloads
         /\ [at |-> now] \in Payloads /\ tunn.write_cookie \in Nat
         /\ events < MaxEvents => events + 1 \in 0..MaxEvents
         /\ 0 \in 0..(MaxTime + 1) /\ owed \in 0..(MaxTime + 1)
         /\ Earliest(owed) \in 0..(MaxTime + 1)
         /\ flush \in BOOLEAN
         /\ tunn.packet_queue # <<>> /\ ~flush => tunn.state.tag = "InitSent"
<1>1. /\ TunnType(tunn, Payloads) /\ now \in 0..MaxTime /\ events \in 0..MaxEvents
      /\ owed \in 0..(MaxTime + 1) /\ flush \in BOOLEAN
  BY DEF IndInv, TypeOK, Payloads
<1>2. now \in Nat /\ 0 \in 0..(MaxTime + 1) /\ Earliest(owed) \in 0..(MaxTime + 1)
  BY <1>1, TimersAssumption DEF Earliest
<1>3. events < MaxEvents => events + 1 \in 0..MaxEvents
  BY <1>1, TimersAssumption
<1>4. Empty \in Payloads /\ [at |-> now] \in Payloads
  BY <1>2 DEF Payloads
<1>5. tunn.write_cookie \in Nat
  BY <1>1, Typed, Zenon
<1> QED
  BY <1>1, <1>2, <1>3, <1>4, <1>5, ZenonT(30) DEF IndInv, NoStuckQueue

(* A datagram of the peer that is not a cookie. *)
LEMMA ReceiveStep ==
  ASSUME IndInv, NEW kind, NEW m, Receive(kind, m),
         LET r == handle_verified_packet(tunn, m, now) IN
         /\ TunnType(r.tunn, Payloads)
         /\ \/ Refuses(tunn, r)
            \/ /\ Keeps(tunn, r.tunn, now) /\ CookieKept(tunn, r.tunn)
               /\ \/ r.kind = "WriteToNetwork"
                  \/ r.tunn.packet_queue = tunn.packet_queue /\ r.tunn.state = tunn.state
  PROVE  IndInv'
<1> DEFINE r == handle_verified_packet(tunn, m, now)
<1>1. /\ events < MaxEvents /\ ~flush
      /\ tunn' = r.tunn
      /\ flush' = (r.kind = "WriteToNetwork")
      /\ owed' \in {0, Earliest(owed), owed}
      /\ lapsed' = IF r.tunn.write_cookie # tunn.write_cookie THEN is_expired(r.tunn) ELSE lapsed
      /\ events' = events + 1
      /\ now' = now /\ updated' = updated
  BY Zenon DEF Receive
<1>2. /\ Keeps(tunn, tunn', now) /\ CookieKept(tunn, tunn')
      /\ \/ flush'
         \/ tunn'.packet_queue = tunn.packet_queue /\ tunn'.state = tunn.state
  <2>1. CASE Refuses(tunn, r)
    BY <1>1, <2>1, Zenon DEF Refuses, IndInv, Keeps, CookieKept
  <2> QED
    BY <1>1, <2>1, ZenonT(30)
<1>3. lapsed' = lapsed
  BY <1>1, <1>2, Zenon DEF CookieKept
<1>4. TunnType(tunn', Payloads)
  BY <1>1, Zenon
<1> HIDE DEF r
<1>5. NoStuckQueue'
  BY <1>1, <1>2, Facts, ZenonT(30) DEF NoStuckQueue
<1>6. events' \in 0..MaxEvents /\ owed' \in 0..(MaxTime + 1) /\ flush' \in BOOLEAN
  BY <1>1, Facts, Zenon
<1> QED
  BY <1>1, <1>2, <1>3, <1>4, <1>5, <1>6, StepKeeps, ZenonT(30)

(* A response to one of the outstanding initiations keeps the invariant. *)
LEMMA ResponseStep ==
  ASSUME IndInv, ReceiveResponse
  PROVE  IndInv'
<1>1. PICK hs \in {tunn.state, tunn.previous} :
        /\ hs.tag = "InitSent"
        /\ Receive("response",
             [type |-> "resp", receiver_idx |-> hs.local_index, initEph |-> hs.eph,
              sender_idx |-> 0, eph |-> 0])
  BY Zenon DEF ReceiveResponse
<1> DEFINE m == [type |-> "resp", receiver_idx |-> hs.local_index, initEph |-> hs.eph,
                 sender_idx |-> 0, eph |-> 0]
           r == handle_verified_packet(tunn, m, now)
<1>2. TunnType(tunn, Payloads) /\ Good(tunn, now) /\ now \in Nat
  BY Facts, Zenon
<1>3. hs.eph \in Nat
  <2>1. tunn.state \in HandshakeStateType /\ tunn.previous \in HandshakeStateType
    BY <1>2, Zenon DEF TunnType, Tunnels
  <2> QED
    BY <1>1, <2>1, Kinds, Zenon
<1>4. m.type = "resp" /\ m.sender_idx \in Indices /\ m.initEph \in Nat /\ m.eph \in Nat
  BY <1>3, TunnAssumption DEF Indices
<1> HIDE DEF m
<1>5. r = handle_handshake_response(tunn, m, now)
  BY <1>4, Zenon DEF handle_verified_packet
<1>6. TunnType(r.tunn, Payloads) /\ (Refuses(tunn, r) \/ Confirms(tunn, r, m, now))
  BY <1>2, <1>4, <1>5, HandleResponse, Zenon
<1>7. Confirms(tunn, r, m, now)
        => Keeps(tunn, r.tunn, now) /\ CookieKept(tunn, r.tunn) /\ r.kind = "WriteToNetwork"
  BY <1>2, ConfirmsKeeps, Zenon
<1>8. Receive("response", m)
  BY <1>1, Zenon DEF m
<1> QED
  BY <1>6, <1>7, <1>8, ReceiveStep, Zenon

(* The peer's initiation keeps the invariant. *)
LEMMA InitStep ==
  ASSUME IndInv, ReceiveInit
  PROVE  IndInv'
<1> DEFINE m == [type |-> "init", from |-> "peer", sender_idx |-> 0,
                 eph |-> tunn.last_handshake_timestamp + 1, static |-> ConfiguredKey]
           r == handle_verified_packet(tunn, m, now)
<1>1. Receive("init", m)
  BY DEF ReceiveInit
<1>2. TunnType(tunn, Payloads) /\ Good(tunn, now) /\ now \in Nat
  BY Facts, Zenon
<1>3. tunn.last_handshake_timestamp \in Nat
  BY <1>2, Zenon DEF TunnType, Tunnels
<1>4. m.type = "init" /\ m.from \in Endpoints /\ m.sender_idx \in Indices /\ m.eph \in Nat
  BY <1>3, TunnAssumption, TimersAssumption DEF Indices
<1> HIDE DEF m
<1>5. r = handle_handshake_init(tunn, m, now)
  BY <1>4 DEF handle_verified_packet
<1>6. TunnType(r.tunn, Payloads) /\ (Refuses(tunn, r) \/ Answers(tunn, r, m, now))
  BY <1>2, <1>4, <1>5, HandleInit, Zenon
<1>7. Answers(tunn, r, m, now)
        => Keeps(tunn, r.tunn, now) /\ CookieKept(tunn, r.tunn) /\ r.kind = "WriteToNetwork"
  BY <1>2, AnswersKeeps, Zenon
<1> QED
  BY <1>1, <1>6, <1>7, ReceiveStep, Zenon

(* A data message for any of the sessions keeps the invariant. *)
LEMMA DataStep ==
  ASSUME IndInv, ReceiveData
  PROVE  IndInv'
<1>1. PICK i \in Slots, x \in {Empty, [at |-> now]} \cup BadPackets :
        LET s == tunn.sessions[i] IN
        /\ s # NoSession
        /\ Receive("data", [type |-> "data", receiver_idx |-> s.receiving_index, key |-> s.key,
                            counter |-> Cardinality(s.received), payload |-> x])
  BY Zenon DEF ReceiveData
<1> DEFINE s == tunn.sessions[i]
           m == [type |-> "data", receiver_idx |-> s.receiving_index, key |-> s.key,
                 counter |-> Cardinality(s.received), payload |-> x]
           r == handle_verified_packet(tunn, m, now)
<1>2. TunnType(tunn, Payloads) /\ Good(tunn, now) /\ now \in Nat
  BY Facts, Zenon
<1>3. s.receiving_index \in Indices
  <2>1. s \in SessionType
    BY <1>1, <1>2, Typed, Zenon
  <2> QED
    BY <2>1, Zenon DEF SessionType
<1>4. Cardinality(s.received) \in Nat
  <2>1. IsFiniteSet(s.received)
    BY <1>1, <1>2, Zenon DEF Good, Born
  <2> QED
    BY <2>1, FS_CardinalityType, Zenon
<1>5. m.type = "data" /\ m.receiver_idx \in Indices /\ m.counter \in Nat
  BY <1>3, <1>4, Zenon
<1>6. Receive("data", m)
  BY <1>1
<1> HIDE DEF m
<1>7. r = handle_data(tunn, m)
  BY <1>5, Zenon DEF handle_verified_packet
<1>8. TunnType(r.tunn, Payloads) /\ (Refuses(tunn, r) \/ Accepts(tunn, r, m))
  BY <1>2, <1>5, <1>7, HandleData, Zenon
<1>9. Accepts(tunn, r, m) =>
        /\ Keeps(tunn, r.tunn, now) /\ CookieKept(tunn, r.tunn)
        /\ r.tunn.packet_queue = tunn.packet_queue /\ r.tunn.state = tunn.state
  BY <1>2, <1>5, AcceptsKeeps, Zenon
<1> QED
  BY <1>6, <1>8, <1>9, ReceiveStep, Zenon

(* A cookie is named by the moment it comes: its timer is not later. *)
LEMMA CookieStep ==
  ASSUME IndInv, ReceiveCookie
  PROVE  IndInv'
<1> DEFINE m == [type |-> "cookie", receiver_idx |-> tunn.cookie_index,
                 mac1 |-> tunn.last_mac1, cookie |-> now + 1]
           r == handle_verified_packet(tunn, m, now)
<1>1. Receive("cookie", m)
  BY DEF ReceiveCookie
<1>2. TunnType(tunn, Payloads) /\ Good(tunn, now) /\ now \in Nat
  BY Facts
<1>3. m.type = "cookie" /\ m.cookie = now + 1 /\ m.cookie \in Nat
  BY <1>2
<1> HIDE DEF m
<1>4. r = handle_cookie_reply(tunn, m)
  BY <1>3, Zenon DEF handle_verified_packet
<1>5. TunnType(r.tunn, Payloads) /\ (Refuses(tunn, r) \/ StoresCookie(tunn, r, m))
  BY <1>2, <1>3, <1>4, HandleCookie, Zenon
<1>6. CASE Refuses(tunn, r)
  BY <1>1, <1>5, <1>6, ReceiveStep, Zenon
<1>7. CASE StoresCookie(tunn, r, m)
  <2>1. /\ events < MaxEvents /\ ~flush
        /\ tunn' = r.tunn
        /\ flush' = (r.kind = "WriteToNetwork")
        /\ owed' \in {0, Earliest(owed), owed}
        /\ lapsed' = IF r.tunn.write_cookie # tunn.write_cookie THEN is_expired(r.tunn) ELSE lapsed
        /\ events' = events + 1
        /\ now' = now /\ updated' = updated
    BY <1>1 DEF Receive
  <2>2. /\ SameHandshake(tunn, tunn') /\ SameRing(tunn, tunn')
        /\ tunn'.packet_queue = tunn.packet_queue /\ tunn'.write_cookie = now + 1
        /\ \A n \in TimerNames : tunn'.timers[n] \in {tunn.timers[n], tunn.timers["TimeCurrent"]}
        /\ tunn'.timers["TimeCookieReceived"] = tunn.timers["TimeCurrent"]
        /\ TunnType(tunn', Payloads) /\ ~flush'
    BY <1>3, <1>5, <1>7, <2>1, ZenonT(30) DEF StoresCookie
  <2> HIDE DEF r
  <2>3. TypeOK'
    <3>1. events' \in 0..MaxEvents /\ owed' \in 0..(MaxTime + 1)
      BY <2>1, Facts, Zenon
    <3>2. lapsed' \in BOOLEAN
      BY <2>1, Zenon DEF IndInv, TypeOK, is_expired
    <3> QED
      BY <2>1, <2>2, <3>1, <3>2, Zenon DEF IndInv, TypeOK, Payloads
  <2>4. Past(tunn', now) /\ tunn'.timers["TimeCurrent"] = tunn.timers["TimeCurrent"]
    BY <1>2, <2>2, PastKept, Zenon DEF SameRing, Good
  <2>5. Good(tunn', now)
    BY <1>2, <2>2, <2>4, Zenon DEF Good, Clean, Born, SameHandshake, SameRing, is_expired
  <2>6. updated => UpToDate(tunn', now)
    BY <2>2, <2>4, Zenon DEF IndInv, UpToDate, SameRing
  <2>7. CookieInv'
    <3>1. tunn.timers["TimeCurrent"] \in Nat /\ tunn.timers["TimeCurrent"] <= now
      BY <1>2, Typed, Zenon DEF Good, Past
    <3>2. updated => tunn.timers["TimeCurrent"] = now
      BY DEF IndInv, UpToDate
    <3>3. is_expired(tunn') => lapsed'
      <4>1. tunn'.write_cookie # NoCookie
        BY <1>2, <2>2 DEF NoCookie
      <4>2. is_expired(tunn') = is_expired(tunn)
        BY <2>2, Zenon DEF is_expired, SameHandshake
      <4>3. CASE tunn'.write_cookie # tunn.write_cookie
        BY <2>1, <4>3, Zenon
      <4>4. CASE tunn'.write_cookie = tunn.write_cookie
        BY <2>1, <4>1, <4>2, <4>4, ZenonT(30) DEF IndInv, CookieInv
      <4> QED
        BY <4>3, <4>4, Zenon
    <3>4. /\ tunn'.timers["TimeCookieReceived"] <= tunn'.write_cookie - 1
          /\ updated => now - tunn'.timers["TimeCookieReceived"] < COOKIE_EXPIRATION_TIME
      BY <1>2, <2>2, <3>1, <3>2, Fresh, ZenonT(30)
    <3> QED
      BY <2>1, <3>3, <3>4, Zenon DEF CookieInv
  <2>8. NoStuckQueue'
    BY <2>1, <2>2, Facts, Zenon DEF NoStuckQueue, SameHandshake
  <2> QED
    BY <2>1, <2>3, <2>5, <2>6, <2>7, <2>8, ZenonT(30) DEF IndInv
<1> QED
  BY <1>5, <1>6, <1>7, Zenon

(* A packet given to encapsulate keeps the invariant. *)
LEMMA EncapsulateStep ==
  ASSUME IndInv, Encapsulate
  PROVE  IndInv'
<1> DEFINE x == [at |-> now]
           r == encapsulate(tunn, x, now)
<1>1. /\ events < MaxEvents /\ ~flush /\ tunn' = r.tunn /\ owed' \in {0, owed}
      /\ events' = events + 1 /\ UNCHANGED <<now, updated, flush, lapsed>>
  BY DEF Encapsulate, Send
<1>2. TunnType(tunn, Payloads) /\ Good(tunn, now) /\ now \in Nat /\ x \in Payloads
  BY Facts, Zenon
<1> HIDE DEF x
<1>3. /\ Keeps(tunn, tunn', now) /\ CookieKept(tunn, tunn')
      /\ \/ tunn'.state.tag = "InitSent"
         \/ tunn'.packet_queue = tunn.packet_queue /\ tunn'.state = tunn.state
  BY <1>1, <1>2, EncapsulateKeeps
<1>4. TunnType(tunn', Payloads)
  BY <1>1, <1>2, Encapsulates, Zenon
<1>5. NoStuckQueue'
  BY <1>1, <1>3, Facts, Zenon DEF NoStuckQueue
<1>6. events' \in 0..MaxEvents /\ owed' \in 0..(MaxTime + 1) /\ flush' \in BOOLEAN
  BY <1>1, Facts, Zenon
<1> QED
  BY <1>1, <1>3, <1>4, <1>5, <1>6, StepKeeps, Zenon

(* A packet taken from the queue keeps the invariant. *)
LEMMA SendQueuedStep ==
  ASSUME IndInv, SendQueued
  PROVE  IndInv'
<1> DEFINE r == send_queued_packet(tunn, now)
<1>1. /\ tunn' = r.tunn /\ owed' \in {0, owed} /\ flush' = (r.kind = "WriteToNetwork")
      /\ UNCHANGED <<now, updated, events, lapsed>>
  BY Zenon DEF SendQueued, Send
<1>2. TunnType(tunn, Payloads) /\ Good(tunn, now) /\ now \in Nat
  BY Facts
<1>3. events' \in 0..MaxEvents /\ owed' \in 0..(MaxTime + 1) /\ flush' \in BOOLEAN
  BY <1>1, Facts, Zenon DEF IndInv, TypeOK
<1>4. CASE tunn.packet_queue = <<>>
  <2>1. r = Done(tunn)
    BY <1>4 DEF send_queued_packet
  <2>2. tunn' = tunn
    BY <1>1, <2>1 DEF Done, Result
  <2>3. NoStuckQueue' /\ Keeps(tunn, tunn', now) /\ CookieKept(tunn, tunn')
    BY <1>4, <2>2, Zenon DEF NoStuckQueue, Keeps, CookieKept, IndInv
  <2> QED
    BY <1>1, <1>2, <1>3, <2>2, <2>3, StepKeeps, ZenonT(30)
<1>5. CASE tunn.packet_queue # <<>>
  <2> DEFINE h == [tunn EXCEPT !.packet_queue = Tail(@)]
             x == Head(tunn.packet_queue)
  <2>1. /\ TunnType(h, Payloads) /\ SameHandshake(tunn, h) /\ SameRing(tunn, h)
        /\ h.timers = tunn.timers /\ h.write_cookie = tunn.write_cookie
        /\ x \in Payloads /\ r = encapsulate(h, x, now)
    BY <1>2, <1>5, TakesHead, ZenonT(30)
  <2> HIDE DEF h, x, r
  <2>2. ~is_expired(h)
    BY <1>2, <1>5, <2>1, Zenon DEF Good, Clean, SameHandshake, is_expired
  <2>3. Good(h, now) /\ (UpToDate(tunn, now) => UpToDate(h, now))
    BY <1>2, <2>1, <2>2, Zenon DEF Good, Past, Clean, Born, UpToDate, SameRing
  <2>4. /\ Keeps(h, tunn', now) /\ CookieKept(h, tunn')
        /\ tunn'.state.tag = "InitSent" \/ r.kind = "WriteToNetwork"
    BY <1>1, <1>2, <2>1, <2>3, EncapsulateKeeps, Zenon
  <2>5. Keeps(tunn, tunn', now) /\ CookieKept(tunn, tunn')
    BY <2>1, <2>3, <2>4, Zenon DEF Keeps, CookieKept, SameHandshake, is_expired
  <2>6. TunnType(tunn', Payloads)
    BY <1>1, <1>2, <2>1, Encapsulates, Zenon
  <2>7. NoStuckQueue'
    BY <1>1, <2>4, Zenon DEF NoStuckQueue
  <2> QED
    BY <1>1, <1>3, <2>5, <2>6, <2>7, StepKeeps, Zenon
<1> QED
  BY <1>4, <1>5, Zenon

(* update_timers keeps the invariant, whichever of its exits it takes. *)
LEMMA UpdateTimersStep ==
  ASSUME IndInv, UpdateTimers
  PROVE  IndInv'
<1> DEFINE r == update_timers(tunn, now)
<1>1. /\ ~flush /\ tunn' = r.tunn /\ owed' \in {0, owed} /\ updated' = TRUE
      /\ lapsed' = (tunn'.write_cookie # NoCookie /\ (lapsed \/ is_expired(tunn')))
      /\ UNCHANGED <<now, flush, events>>
  BY Zenon DEF UpdateTimers, Send
<1>2. /\ TunnType(tunn, Payloads) /\ Good(tunn, now) /\ now \in Nat /\ Empty \in Payloads
      /\ tunn.packet_queue # <<>> => tunn.state.tag = "InitSent"
  BY <1>1, Facts, Zenon
<1>3. /\ Good(tunn', now) /\ UpToDate(tunn', now)
      /\ tunn'.packet_queue # <<>> => tunn'.state.tag = "InitSent"
      /\ tunn'.write_cookie # NoCookie /\ ~is_expired(tunn') =>
           /\ tunn'.write_cookie = tunn.write_cookie
           /\ tunn'.timers["TimeCookieReceived"] = tunn.timers["TimeCookieReceived"]
           /\ now - tunn'.timers["TimeCookieReceived"] < COOKIE_EXPIRATION_TIME
  BY <1>1, <1>2, UpdateKeeps, ZenonT(30)
<1>4. TunnType(tunn', Payloads)
  BY <1>1, <1>2, TimersUpdated, Zenon
<1> HIDE DEF r
<1>5. TypeOK'
  <2>1. owed' \in 0..(MaxTime + 1) /\ lapsed' \in BOOLEAN
    BY <1>1, Facts
  <2> QED
    BY <1>1, <1>4, <2>1, Zenon DEF IndInv, TypeOK, Payloads
<1>6. CookieInv'
  BY <1>1, <1>3, Zenon DEF IndInv, CookieInv
<1> QED
  BY <1>1, <1>3, <1>5, <1>6, Zenon DEF IndInv, NoStuckQueue

(* set_static_private keeps the invariant. *)
LEMMA KeyStep ==
  ASSUME IndInv, SetStaticPrivate
  PROVE  IndInv'
<1> DEFINE key == IF tunn.static = ConfiguredKey THEN 1 ELSE ConfiguredKey
           u == set_static_private(tunn, key)
<1>1. /\ events < MaxEvents /\ tunn' = u /\ events' = events + 1
      /\ UNCHANGED <<now, updated, flush, owed, lapsed>>
  BY DEF SetStaticPrivate
<1>2. TunnType(tunn, Payloads) /\ Good(tunn, now) /\ now \in Nat
  BY Facts
<1>3. key \in Nat
  BY DEF ConfiguredKey
<1> HIDE DEF key
<1>4. /\ TunnType(u, Payloads)
      /\ \A i \in Slots : u.sessions[i] = NoSession
      /\ u.state = tunn.state /\ u.previous = tunn.previous
      /\ u.packet_queue = tunn.packet_queue /\ u.session_timers = tunn.session_timers
      /\ u.timers = tunn.timers /\ u.write_cookie = tunn.write_cookie
  BY <1>2, <1>3, KeyReplaced, Zenon
<1> HIDE DEF u
<1>5. Keeps(tunn, tunn', now) /\ CookieKept(tunn, tunn')
  BY <1>1, <1>2, <1>4, Zenon DEF Keeps, Good, Past, Clean, Born, UpToDate, CookieKept, is_expired
<1>6. NoStuckQueue'
  BY <1>1, <1>4, Zenon DEF IndInv, NoStuckQueue
<1>7. events' \in 0..MaxEvents /\ owed' \in 0..(MaxTime + 1) /\ flush' \in BOOLEAN
  BY <1>1, Facts
<1> QED
  BY <1>1, <1>4, <1>5, <1>6, <1>7, StepKeeps, Zenon

(* Time that passes keeps the invariant. *)
LEMMA TickStep ==
  ASSUME IndInv, Tick
  PROVE  IndInv'
<1>1. /\ now < MaxTime /\ now' = now + 1 /\ updated' = FALSE
      /\ UNCHANGED <<tunn, flush, events, owed, lapsed>>
  BY DEF Tick
<1>2. TypeOK'
  <2>1. now' \in 0..MaxTime
    BY <1>1, TimersAssumption DEF IndInv, TypeOK
  <2> QED
    BY <1>1, <2>1, Zenon DEF IndInv, TypeOK
<1>3. Good(tunn', now')
  <2>1. tunn.timers["TimeCurrent"] \in Nat /\ now \in Nat
    BY Facts, Typed, Zenon
  <2>2. Past(tunn', now')
    BY <1>1, <2>1 DEF IndInv, Good, Past
  <2> QED
    BY <1>1, <2>2, Zenon DEF IndInv, Good
<1>4. CookieInv' /\ NoStuckQueue'
  BY <1>1, Zenon DEF IndInv, CookieInv, NoStuckQueue
<1> QED
  BY <1>1, <1>2, <1>3, <1>4, Zenon DEF IndInv

(* A new tunnel satisfies the invariant. *)
LEMMA InitInv ==
  ASSUME Init
  PROVE  IndInv
<1>1. /\ tunn = NewTunn("me", Keepalive) /\ now = 0 /\ updated = FALSE /\ flush = FALSE
      /\ events = 0 /\ owed = 0 /\ lapsed = FALSE
  BY DEF Init
<1>2. /\ TunnType(tunn, Payloads)
      /\ tunn.state = HsNone /\ tunn.packet_queue = <<>> /\ tunn.write_cookie = NoCookie
      /\ \A i \in Slots : tunn.sessions[i] = NoSession /\ tunn.session_timers[i] = 0
      /\ \A n \in TimerNames : tunn.timers[n] = 0
  BY <1>1, NewTunnel, TimersAssumption, ZenonT(30)
<1>3. TypeOK
  <2>1. /\ now \in 0..MaxTime /\ events \in 0..MaxEvents /\ owed \in 0..MaxTime + 1
    BY <1>1, TimersAssumption
  <2>2. {updated, flush, lapsed} \subseteq BOOLEAN
    BY <1>1, Zenon
  <2> QED
    BY <2>1, <2>2, <1>2 DEF TypeOK, Payloads
<1>4. Past(tunn, now)
  BY <1>1, <1>2 DEF Past, TimerNames
<1>5. Clean(tunn) /\ Born(tunn)
  BY <1>2, Kinds DEF Clean, Born, is_expired
<1> QED
  BY <1>1, <1>2, <1>3, <1>4, <1>5, Zenon DEF IndInv, Good, CookieInv, NoStuckQueue

-----------------------------------------------------------------------------
(* The inductive invariant holds in every reachable state: every call of a *)
(* tunnel's methods, in any order and at any time, keeps it.               *)
THEOREM TimersInvariance == Spec => []IndInv
<1>1. Init => IndInv
  BY InitInv
<1>2. IndInv /\ [Next]_vars => IndInv'
  <2>1. SUFFICES ASSUME IndInv, [Next]_vars
                 PROVE  IndInv'
    OBVIOUS
  <2>2. CASE ReceiveResponse
    BY <2>1, <2>2, ResponseStep
  <2>3. CASE ReceiveInit
    BY <2>1, <2>3, InitStep, ZenonT(30)
  <2>4. CASE ReceiveData
    BY <2>1, <2>4, DataStep
  <2>5. CASE ReceiveCookie
    BY <2>1, <2>5, CookieStep
  <2>6. CASE Encapsulate
    BY <2>1, <2>6, EncapsulateStep
  <2>7. CASE SendQueued
    BY <2>1, <2>7, SendQueuedStep
  <2>8. CASE UpdateTimers
    BY <2>1, <2>8, UpdateTimersStep
  <2>9. CASE SetStaticPrivate
    BY <2>1, <2>9, KeyStep
  <2>10. CASE Tick
    BY <2>1, <2>10, TickStep
  <2>11. CASE UNCHANGED vars
    BY <2>1, <2>11 DEF vars, IndInv, TypeOK, CookieInv, NoStuckQueue
  <2> QED
    BY <2>1, <2>2, <2>3, <2>4, <2>5, <2>6, <2>7, <2>8, <2>9, <2>10, <2>11, ZenonT(30) DEF Next
<1> QED
  BY <1>1, <1>2, PTL DEF Spec

(* Every field of a tunnel keeps its type, and a session sits in the slot  *)
(* of the ring that its index names.                                       *)
THEOREM TypeCorrect == Spec => []TypeOK
<1>1. IndInv => TypeOK
  BY Zenon DEF IndInv
<1> QED
  BY <1>1, TimersInvariance, PTL

(* No timer is ahead of the clock, so that no subtraction of update_timers *)
(* and time_since_last_handshake underflows.                               *)
THEOREM NoTimerAhead == Spec => []TimersInPast
<1>1. IndInv => TimersInPast
  BY DEF IndInv, Good, Past, TimersInPast
<1> QED
  BY <1>1, TimersInvariance, PTL

(* After update_timers no session is older than REJECT_AFTER_TIME: the     *)
(* timer of a slot is never later than the session in it, and whoever puts *)
(* a session there dates the slot.                                         *)
THEOREM SessionsExpire == Spec => []SessionLifetime
<1>1. IndInv => SessionLifetime
  <2>1. SUFFICES ASSUME IndInv, updated, NEW i \in Slots, tunn.sessions[i] # NoSession
                 PROVE  now - tunn.sessions[i].created <= REJECT_AFTER_TIME
    BY DEF SessionLifetime
  <2>2. TunnType(tunn, Payloads) /\ now \in Nat
    BY <2>1, Facts
  <2>3. tunn.session_timers[i] \in Nat /\ tunn.sessions[i].created \in Nat
    BY <2>1, <2>2, Typed, Zenon DEF SessionType
  <2>4. /\ tunn.session_timers[i] <= tunn.sessions[i].created
        /\ now - tunn.session_timers[i] <= REJECT_AFTER_TIME
    BY <2>1, Zenon DEF IndInv, Good, Born, UpToDate
  <2> QED
    BY <2>2, <2>3, <2>4, TunnAssumption
<1> QED
  BY <1>1, TimersInvariance, PTL

(* An expired connection holds no session and no packet, whatever arrives  *)
(* after it expired.                                                       *)
THEOREM ExpiredStaysClean == Spec => []ExpiredIsClean
<1>1. IndInv => ExpiredIsClean
  BY Zenon DEF IndInv, Good, Clean, ExpiredIsClean
<1> QED
  BY <1>1, TimersInvariance, PTL

(* After update_timers a cookie is younger than COOKIE_EXPIRATION_TIME,    *)
(* unless the connection was expired while it was held.                    *)
THEOREM CookiesExpire == Spec => []CookieLifetime
<1>1. IndInv => CookieLifetime
  <2>1. SUFFICES ASSUME IndInv, updated, tunn.write_cookie # NoCookie, ~lapsed
                 PROVE  now - (tunn.write_cookie - 1) < COOKIE_EXPIRATION_TIME
    BY DEF CookieLifetime
  <2>2. TunnType(tunn, Payloads) /\ now \in Nat /\ tunn.write_cookie \in Nat
    BY <2>1, Facts
  <2>3. tunn.timers["TimeCookieReceived"] \in Nat
    BY <2>2, Typed
  <2>4. /\ tunn.timers["TimeCookieReceived"] <= tunn.write_cookie - 1
        /\ now - tunn.timers["TimeCookieReceived"] < COOKIE_EXPIRATION_TIME
    BY <2>1, Zenon DEF IndInv, CookieInv
  <2> QED
    BY <2>2, <2>3, <2>4, TunnAssumption
<1> QED
  BY <1>1, TimersInvariance, PTL

(* Packets wait only while an initiation of ours is under way or the       *)
(* caller owes a flush.                                                    *)
THEOREM QueueNeverStuck == Spec => []NoStuckQueue
<1>1. IndInv => NoStuckQueue
  BY DEF IndInv
<1> QED
  BY <1>1, TimersInvariance, PTL
=============================================================================
