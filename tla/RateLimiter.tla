---------------------------- MODULE RateLimiter ----------------------------
(***************************************************************************)
(* The limiter that workers consult before they spend any asymmetric       *)
(* cryptography on a handshake message (noise/rate_limiter.rs).  The       *)
(* workers share it without a common lock: count is an atomic and only   *)
(* last_reset has a mutex, so each shared access is one step.              *)
(* A message is the address that it comes from and the cookie behind its   *)
(* mac2.  An address is its octets, of which the two families have a       *)
(* different number; a cookie is the epoch and the bytes that its MAC is   *)
(* over.                                                                   *)
(***************************************************************************)
EXTENDS Integers, FiniteSets

CONSTANTS
  Workers,         \* threads that share the limiter
  Addrs,           \* source addresses
  V4_LEN, V6_LEN,  \* octets of an address: 4 and 16 in the code
  NoAddr,          \* src_addr is None
  NoCookie,        \* mac2 made without any cookie of this limiter
  Limit,           \* limit: messages per period that need no cookie
  RESET_PERIOD,
  COOKIE_REFRESH,
  MaxTime,         \* bound on the clock
  MaxCount         \* bound on the messages counted in one period

V4Addr == [1 .. V4_LEN -> 0 .. 255]
V6Addr == [1 .. V6_LEN -> 0 .. 255]

ASSUME AddressAssumption ==
  /\ V4_LEN \in Nat \ {0} /\ V6_LEN \in Nat /\ V4_LEN < V6_LEN
  /\ Addrs \subseteq V4Addr \cup V6Addr

ASSUME LimiterAssumption ==
  /\ Limit \in Nat
  /\ RESET_PERIOD \in Nat \ {0}
  /\ COOKIE_REFRESH \in Nat \ {0}
  /\ MaxTime \in Nat
  /\ NoAddr \notin Addrs
  /\ NoCookie \notin [epoch : 0 .. MaxTime, addr : V6Addr]

VARIABLES
  now,         \* the clock; start_time is 0
  count,       \* messages counted since the last reset
  last_reset,
  work,        \* what each worker is doing
  outcome,     \* how each worker's latest verify_packet ended
  replies,     \* history: the cookie replies sent
  passed       \* history: messages let through without a cookie

vars == <<now, count, last_reset, work, outcome, replies, passed>>

Epochs == 0 .. MaxTime
CookieType == [epoch : Epochs, addr : V6Addr]
ReplyType == [to : Addrs, cookie : CookieType, made : 0 .. MaxTime]
WorkType ==
       [at : {"idle"}]
  \cup [at : {"cookie"}, addr : Addrs \cup {NoAddr}, mac2 : CookieType \cup {NoCookie}]
  \cup [at : {"reply"}, addr : Addrs, cookie : CookieType, made : 0 .. MaxTime]
  \cup [at : {"reset"}, time : 0 .. MaxTime]

Idle == [at |-> "idle"]

Init ==
  /\ now = 0
  /\ count = 0
  /\ last_reset = 0
  /\ work = [w \in Workers |-> Idle]
  /\ outcome = [w \in Workers |-> "none"]
  /\ replies = {}
  /\ passed = 0

(* The cookies that senders have been given. *)
Given == {r.cookie : r \in replies}

(* The value fetch_add returns is compared, so the first Limit messages    *)
(* after a reset pass.                                                     *)
is_under_load == count >= Limit

(* parse, mac1 and the fetch_add of is_under_load.  A message whose mac1   *)
(* is wrong is not counted.                                                *)
VerifyPacket(w, addr, mac1, mac2) ==
  /\ work[w] = Idle
  /\ count < MaxCount
  /\ mac2 \in Given \cup {NoCookie}
  /\ IF ~mac1
       THEN /\ outcome' = [outcome EXCEPT ![w] = "InvalidMac"]
            /\ UNCHANGED <<count, work, passed>>
       ELSE /\ count' = count + 1
            /\ IF is_under_load
                 THEN /\ work' = [work EXCEPT ![w] =
                                    [at |-> "cookie", addr |-> addr, mac2 |-> mac2]]
                      /\ outcome' = [outcome EXCEPT ![w] = "none"]
                      /\ UNCHANGED passed
                 ELSE /\ outcome' = [outcome EXCEPT ![w] = "Ok"]
                      /\ passed' = passed + 1
                      /\ UNCHANGED work
  /\ UNCHANGED <<now, last_reset, replies>>

(* Mutant: no more than the octets of an IPv4 address are copied. *)
addr_bytes_First(addr) == [i \in 1 .. V6_LEN |-> IF i <= V4_LEN THEN addr[i] ELSE 0]

(* The octets at the front of an array that has room for an IPv6 address   *)
(* and is zero behind them.                                                *)
addr_bytes(addr) == [i \in 1 .. V6_LEN |-> IF i \in DOMAIN addr THEN addr[i] ELSE 0]

current_cookie(addr) == [epoch |-> now \div COOKIE_REFRESH, addr |-> addr_bytes(addr)]

(* Under load: the clock is read, the cookie of the moment derived and     *)
(* compared with the one behind mac2.                                      *)
CheckCookie(w) ==
  /\ work[w].at = "cookie"
  /\ LET cookie == current_cookie(work[w].addr)
     IN  CASE work[w].addr = NoAddr ->
                /\ outcome' = [outcome EXCEPT ![w] = "UnderLoad"]
                /\ work' = [work EXCEPT ![w] = Idle]
           [] work[w].addr # NoAddr /\ work[w].mac2 = cookie ->
                /\ outcome' = [outcome EXCEPT ![w] = "Ok"]
                /\ work' = [work EXCEPT ![w] = Idle]
           [] OTHER ->
                /\ work' = [work EXCEPT ![w] =
                     [at |-> "reply", addr |-> @.addr, cookie |-> cookie, made |-> now]]
                /\ UNCHANGED outcome
  /\ UNCHANGED <<now, count, last_reset, replies, passed>>

(* The reply goes out, perhaps in a later epoch than the one its cookie    *)
(* was made in.  Its nonce, which is fresh, is left out.                   *)
format_cookie_reply(w) ==
  /\ work[w].at = "reply"
  /\ replies' = replies \cup {[to |-> work[w].addr,
                               cookie |-> work[w].cookie, made |-> work[w].made]}
  /\ outcome' = [outcome EXCEPT ![w] = "Cookie"]
  /\ work' = [work EXCEPT ![w] = Idle]
  /\ UNCHANGED <<now, count, last_reset, passed>>

(* reset_count reads the clock before it waits for the mutex.              *)
ReadClock(w) ==
  /\ work[w] = Idle
  /\ work' = [work EXCEPT ![w] = [at |-> "reset", time |-> now]]
  /\ UNCHANGED <<now, count, last_reset, outcome, replies, passed>>

(* duration_since gives zero when the other worker's reset is later.       *)
duration_since(t, earlier) == IF t >= earlier THEN t - earlier ELSE 0

(* Mutant: the time of the reset is not stored. *)
reset_count_NoStamp(w) ==
  /\ work[w].at = "reset"
  /\ IF duration_since(work[w].time, last_reset) >= RESET_PERIOD
       THEN count' = 0
       ELSE UNCHANGED count
  /\ work' = [work EXCEPT ![w] = Idle]
  /\ UNCHANGED <<now, last_reset, outcome, replies, passed>>

(* The rest of reset_count, under the mutex of last_reset.                 *)
reset_count(w) ==
  /\ work[w].at = "reset"
  /\ IF duration_since(work[w].time, last_reset) >= RESET_PERIOD
       THEN count' = 0 /\ last_reset' = work[w].time
       ELSE UNCHANGED <<count, last_reset>>
  /\ work' = [work EXCEPT ![w] = Idle]
  /\ UNCHANGED <<now, outcome, replies, passed>>

Tick ==
  /\ now < MaxTime
  /\ now' = now + 1
  /\ UNCHANGED <<count, last_reset, work, outcome, replies, passed>>

Step(w) ==
  \/ \E addr \in Addrs \cup {NoAddr}, mac1 \in BOOLEAN, mac2 \in Given \cup {NoCookie} :
       VerifyPacket(w, addr, mac1, mac2)
  \/ CheckCookie(w)
  \/ format_cookie_reply(w)
  \/ ReadClock(w)
  \/ reset_count(w)

Next == Tick \/ \E w \in Workers : Step(w)

Spec == Init /\ [][Next]_vars

----------------------------------------------------------------------------

(* Every variable has its type: a cookie is only ever derived from a real  *)
(* address, because verify_packet stops first when it was given none.      *)
TypeOK ==
  /\ now \in 0 .. MaxTime
  /\ count \in Nat
  /\ last_reset \in 0 .. MaxTime
  /\ work \in [Workers -> WorkType]
  /\ outcome \in [Workers -> {"none", "Ok", "InvalidMac", "UnderLoad", "Cookie"}]
  /\ replies \subseteq ReplyType
  /\ passed \in Nat

(* However verify_packet and reset_count interleave, with resetters that   *)
(* read the clock and then wait for each other, the messages let through   *)
(* without a cookie since start_time are at most Limit for each period     *)
(* begun.                                                                  *)
LoadBound == passed <= Limit * (1 + now \div RESET_PERIOD)

(* An IPv6 address that is an IPv4 address followed by zeros.              *)
Padded(v4, v6) ==
  /\ DOMAIN v4 = 1 .. V4_LEN /\ DOMAIN v6 = 1 .. V6_LEN
  /\ \A i \in 1 .. V4_LEN : v6[i] = v4[i]
  /\ \A i \in V4_LEN + 1 .. V6_LEN : v6[i] = 0

(* Under load verify_packet lets a message through only if the very cookie *)
(* that it carries was sent out, was made less than COOKIE_REFRESH ago and *)
(* went to the address of the message.  A cookie does not tell an IPv4     *)
(* address from the IPv6 address that continues it with zeros, which the   *)
(* one limiter of both sockets may serve; it tells all others apart.       *)
CookieProves ==
  [][\A w \in Workers :
       work[w].at = "cookie" /\ outcome'[w] = "Ok" =>
         \E r \in replies : /\ \/ r.to = work[w].addr
                               \/ Padded(r.to, work[w].addr)
                               \/ Padded(work[w].addr, r.to)
                            /\ r.cookie = work[w].mac2
                            /\ now - r.made < COOKIE_REFRESH]_vars
=============================================================================
