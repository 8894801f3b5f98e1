------------------------- MODULE RateLimiterProofs -------------------------
(***************************************************************************)
(* The limiter admits at most Limit unproven messages per period, and a    *)
(* message under load only with a fresh cookie of its own address, or of   *)
(* the one address of the other family that has the same bytes, for every  *)
(* number of workers, limit, period, length of an epoch and of addresses.  *)
(***************************************************************************)
EXTENDS RateLimiter, TLAPS

(* A quotient is a natural number and brackets the dividend.               *)
LEMMA Quotient ==
  ASSUME NEW a \in Nat, NEW b \in Nat \ {0}
  PROVE  /\ a \div b \in Nat
         /\ b * (a \div b) <= a
         /\ a < b * (a \div b) + b
  OBVIOUS

(* A larger dividend has no smaller quotient.                              *)
LEMMA QuotientMonotone ==
  ASSUME NEW a \in Nat, NEW c \in Nat, NEW b \in Nat \ {0}, a <= c
  PROVE  a \div b <= c \div b
  BY Quotient

(* A dividend larger by a period has a larger quotient.                    *)
LEMMA QuotientPeriod ==
  ASSUME NEW a \in Nat, NEW c \in Nat, NEW b \in Nat \ {0}, a + b <= c
  PROVE  a \div b + 1 <= c \div b
  BY Quotient

(* Multiplication by a natural number is monotone.                         *)
LEMMA ProductMonotone ==
  ASSUME NEW k \in Nat, NEW m \in Nat, NEW n \in Nat, m <= n
  PROVE  k * m <= k * n /\ k * (m + 1) = k * m + k /\ k * m \in Nat
  OBVIOUS

(* Two moments of one epoch are less than an epoch apart.                  *)
LEMMA SameEpoch ==
  ASSUME NEW a \in Nat, NEW c \in Nat, NEW b \in Nat \ {0}, a \div b = c \div b
  PROVE  c - a < b
  BY Quotient

----------------------------------------------------------------------------

(* What count says of the messages let through: those of the periods up to *)
(* the last reset, and at most Limit of the present one.  A resetter holds *)
(* a time that has passed, perhaps long ago.                               *)
CountInv ==
  /\ last_reset <= now
  /\ \A w \in Workers : work[w].at = "reset" => work[w].time <= now
  /\ passed <= Limit * (last_reset \div RESET_PERIOD)
                 + (IF count < Limit THEN count ELSE Limit)

(* A cookie was derived from the address it is for, in the epoch of its    *)
(* making.                                                                 *)
Derived(addr, cookie, made) ==
  /\ cookie.addr = addr_bytes(addr)
  /\ cookie.epoch = made \div COOKIE_REFRESH

(* Cookies are derived as current_cookie says, and senders use only those  *)
(* that they were given.  While a worker checks one, its call is not over. *)
CookieInv ==
  /\ \A r \in replies : Derived(r.to, r.cookie, r.made)
  /\ \A w \in Workers :
       /\ work[w].at = "reply" => Derived(work[w].addr, work[w].cookie, work[w].made)
       /\ work[w].at = "cookie" => /\ work[w].mac2 \in Given \cup {NoCookie}
                                   /\ outcome[w] = "none"

(* Padding keeps the type and the octets of an address.                    *)
LEMMA BytesTyped ==
  ASSUME NEW addr \in Addrs
  PROVE  /\ addr_bytes(addr) \in V6Addr
         /\ \A i \in DOMAIN addr : i \in 1 .. V6_LEN /\ addr_bytes(addr)[i] = addr[i]
         /\ \A i \in 1 .. V6_LEN : i \notin DOMAIN addr => addr_bytes(addr)[i] = 0
  <1>1. PICK n \in {V4_LEN, V6_LEN} : addr \in [1 .. n -> 0 .. 255]
    BY AddressAssumption DEF V4Addr, V6Addr
  <1>2. n \in Nat /\ n <= V6_LEN /\ V6_LEN \in Nat
    BY AddressAssumption
  <1>3. DOMAIN addr = 1 .. n /\ \A i \in 1 .. n : addr[i] \in 0 .. 255 /\ i \in 1 .. V6_LEN
    BY <1>1, <1>2
  <1>4. \A i \in 1 .. V6_LEN :
          addr_bytes(addr)[i] = (IF i \in 1 .. n THEN addr[i] ELSE 0)
    BY <1>3 DEF addr_bytes
  <1>5. ASSUME NEW i \in 1 .. V6_LEN
        PROVE  addr_bytes(addr)[i] \in 0 .. 255
    <2>1. CASE i \in 1 .. n
      BY <1>3, <1>4, <2>1
    <2>2. CASE i \notin 1 .. n
      <3>1. addr_bytes(addr)[i] = 0
        BY <1>4, <2>2
      <3>2. QED BY <3>1
    <2>3. QED BY <2>1, <2>2
  <1>6. addr_bytes(addr) = [i \in 1 .. V6_LEN |-> addr_bytes(addr)[i]]
    BY DEF addr_bytes
  <1>7. addr_bytes(addr) \in V6Addr
    BY <1>5, <1>6 DEF V6Addr
  <1>8. QED BY <1>3, <1>4, <1>7

(* Addresses with the same bytes are the same, or they are an IPv4 address *)
(* and the IPv6 address that continues it with zeros.                      *)
LEMMA SameBytes ==
  ASSUME NEW a \in Addrs, NEW b \in Addrs, addr_bytes(a) = addr_bytes(b)
  PROVE  a = b \/ Padded(a, b) \/ Padded(b, a)
  <1> USE AddressAssumption DEF V4Addr, V6Addr
  <1>1. /\ a \in V4Addr \/ a \in V6Addr
        /\ b \in V4Addr \/ b \in V6Addr
    OBVIOUS
  <1>2. CASE DOMAIN a = DOMAIN b
    <2>1. \A i \in DOMAIN a : a[i] = b[i]
      BY <1>2, BytesTyped
    <2>2. QED BY <1>1, <1>2, <2>1
  <1>3. ASSUME NEW c \in V4Addr, NEW d \in V6Addr,
               c \in Addrs, d \in Addrs, addr_bytes(c) = addr_bytes(d)
        PROVE  Padded(c, d)
    <2>1. \A i \in 1 .. V4_LEN : i \in 1 .. V6_LEN /\ d[i] = c[i]
      BY <1>3, BytesTyped
    <2>2. \A i \in V4_LEN + 1 .. V6_LEN : i \in 1 .. V6_LEN /\ i \notin DOMAIN c
      OBVIOUS
    <2>3. \A i \in V4_LEN + 1 .. V6_LEN : d[i] = 0
      BY <1>3, <2>2, BytesTyped
    <2>4. QED BY <2>1, <2>3 DEF Padded
  <1>4. QED BY <1>1, <1>2, <1>3

(* A cookie of the moment has its type when there is an address.           *)
LEMMA CookieTyped ==
  ASSUME now \in 0 .. MaxTime, NEW addr \in Addrs
  PROVE  current_cookie(addr) \in CookieType
  <1>1. now \in Nat /\ now \div COOKIE_REFRESH \in Nat
    BY Quotient, LimiterAssumption
  <1>2. now \div COOKIE_REFRESH <= now
    <2>1. /\ COOKIE_REFRESH * (now \div COOKIE_REFRESH) <= now
          /\ 1 <= COOKIE_REFRESH
      BY <1>1, Quotient, LimiterAssumption
    <2> DEFINE q == now \div COOKIE_REFRESH
    <2>2. q \in Nat /\ COOKIE_REFRESH \in Nat
      BY <1>1, LimiterAssumption
    <2>3. q <= COOKIE_REFRESH * q
      <3> HIDE DEF q
      <3>1. QED BY <2>2, <2>1
    <2>4. QED BY <2>1, <2>2, <2>3, <1>1
  <1>3. now \div COOKIE_REFRESH \in Epochs
    BY <1>1, <1>2, LimiterAssumption DEF Epochs
  <1>4. QED BY <1>3, BytesTyped DEF current_cookie, CookieType

(* Every step keeps the types.                                             *)
LEMMA TypeStep ==
  ASSUME TypeOK, [Next]_vars
  PROVE  TypeOK'
  <1> USE LimiterAssumption DEF TypeOK
  <1>1. CASE UNCHANGED vars
    BY <1>1 DEF vars
  <1>2. CASE Tick
    BY <1>2 DEF Tick
  <1>3. ASSUME NEW w \in Workers, NEW addr \in Addrs \cup {NoAddr},
               NEW mac1 \in BOOLEAN, NEW mac2 \in Given \cup {NoCookie},
               VerifyPacket(w, addr, mac1, mac2)
        PROVE  TypeOK'
    <2>1. mac2 \in CookieType \cup {NoCookie}
      BY <1>3 DEF Given, ReplyType
    <2>2. [at |-> "cookie", addr |-> addr, mac2 |-> mac2] \in WorkType
      BY <2>1 DEF WorkType
    <2>3. QED BY <1>3, <2>2 DEF VerifyPacket
  <1>4. ASSUME NEW w \in Workers, CheckCookie(w)
        PROVE  TypeOK'
    <2>1. Idle \in WorkType
      BY DEF WorkType, Idle
    <2>2. CASE work[w].addr \in Addrs
      <3>1. current_cookie(work[w].addr) \in CookieType
        BY <2>2, CookieTyped
      <3>2. [at |-> "reply", addr |-> work[w].addr,
             cookie |-> current_cookie(work[w].addr), made |-> now] \in WorkType
        BY <2>2, <3>1 DEF WorkType
      <3>3. QED BY <1>4, <2>1, <2>2, <3>2 DEF CheckCookie
    <2>3. CASE work[w].addr \notin Addrs
      <3>1. work[w].addr = NoAddr
        BY <1>4, <2>3 DEF CheckCookie, WorkType
      <3>2. QED BY <1>4, <2>1, <3>1 DEF CheckCookie
    <2>4. QED BY <2>2, <2>3
  <1>5. ASSUME NEW w \in Workers, format_cookie_reply(w)
        PROVE  TypeOK'
    <2>1. Idle \in WorkType
      BY DEF WorkType, Idle
    <2>2. /\ work[w].addr \in Addrs
          /\ work[w].cookie \in CookieType
          /\ work[w].made \in 0 .. MaxTime
      BY <1>5 DEF format_cookie_reply, WorkType
    <2>3. QED BY <1>5, <2>1, <2>2 DEF format_cookie_reply, ReplyType
  <1>6. ASSUME NEW w \in Workers, ReadClock(w)
        PROVE  TypeOK'
    <2>1. [at |-> "reset", time |-> now] \in WorkType
      BY DEF WorkType
    <2>2. QED BY <1>6, <2>1 DEF ReadClock
  <1>7. ASSUME NEW w \in Workers, reset_count(w)
        PROVE  TypeOK'
    <2>1. Idle \in WorkType
      BY DEF WorkType, Idle
    <2>2. work[w].time \in 0 .. MaxTime
      BY <1>7 DEF reset_count, WorkType
    <2>3. QED BY <1>7, <2>1, <2>2 DEF reset_count
  <1>8. QED BY <1>1, <1>2, <1>3, <1>4, <1>5, <1>6, <1>7 DEF Next, Step

(* Every step keeps the account of the messages let through; the reset is  *)
(* the one that needs a whole period to have gone by.                      *)
LEMMA CountStep ==
  ASSUME TypeOK, CountInv, [Next]_vars
  PROVE  CountInv'
  <1> USE LimiterAssumption DEF TypeOK, CountInv
  <1>0. /\ now \in Nat /\ last_reset \in Nat /\ count \in Nat /\ passed \in Nat
        /\ last_reset \div RESET_PERIOD \in Nat
        /\ Limit * (last_reset \div RESET_PERIOD) \in Nat
    BY Quotient, ProductMonotone
  <1>1. CASE UNCHANGED vars
    BY <1>1 DEF vars
  <1>2. CASE Tick
    <2>1. \A w \in Workers : work[w].at = "reset" => work[w].time \in Nat
      BY DEF WorkType
    <2>2. QED BY <1>0, <1>2, <2>1 DEF Tick
  <1>3. ASSUME NEW w \in Workers, NEW addr \in Addrs \cup {NoAddr},
               NEW mac1 \in BOOLEAN, NEW mac2 \in Given \cup {NoCookie},
               VerifyPacket(w, addr, mac1, mac2)
        PROVE  CountInv'
    <2> DEFINE b == Limit * (last_reset \div RESET_PERIOD)
    <2>1. /\ UNCHANGED <<now, last_reset>>
          /\ \A v \in Workers : work'[v].at = "reset" => work'[v] = work[v]
      BY <1>3 DEF VerifyPacket
    <2>2. \/ count' = count /\ passed' = passed
          \/ count' = count + 1 /\ count >= Limit /\ passed' = passed
          \/ count' = count + 1 /\ count < Limit /\ passed' = passed + 1
      BY <1>0, <1>3 DEF VerifyPacket, is_under_load
    <2>3. b \in Nat /\ b' = b
      BY <1>0, <2>1
    <2>4. passed <= b + (IF count < Limit THEN count ELSE Limit)
      OBVIOUS
    <2>5. passed' <= b + (IF count' < Limit THEN count' ELSE Limit)
      <3> HIDE DEF b
      <3>1. QED BY <1>0, <2>2, <2>3, <2>4
    <2>6. QED BY <2>1, <2>3, <2>5
  <1>4. ASSUME NEW w \in Workers, CheckCookie(w)
        PROVE  CountInv'
    <2>1. \A v \in Workers : work'[v].at = "reset" => work'[v] = work[v]
      BY <1>4 DEF CheckCookie, Idle
    <2>2. QED BY <1>4, <2>1 DEF CheckCookie
  <1>5. ASSUME NEW w \in Workers, format_cookie_reply(w)
        PROVE  CountInv'
    <2>1. \A v \in Workers : work'[v].at = "reset" => work'[v] = work[v]
      BY <1>5 DEF format_cookie_reply, Idle
    <2>2. QED BY <1>5, <2>1 DEF format_cookie_reply
  <1>6. ASSUME NEW w \in Workers, ReadClock(w)
        PROVE  CountInv'
    BY <1>0, <1>6 DEF ReadClock
  <1>7. ASSUME NEW w \in Workers, reset_count(w)
        PROVE  CountInv'
    <2>1. \A v \in Workers : work'[v].at = "reset" => work'[v] = work[v]
      BY <1>7 DEF reset_count, Idle
    <2>2. CASE duration_since(work[w].time, last_reset) < RESET_PERIOD
      BY <1>0, <1>7, <2>1, <2>2 DEF reset_count, duration_since, WorkType
    <2>3. CASE duration_since(work[w].time, last_reset) >= RESET_PERIOD
      <3> DEFINE p == last_reset \div RESET_PERIOD
                 q == work[w].time \div RESET_PERIOD
      <3>1. work[w].time \in Nat /\ work[w].time <= now
        BY <1>7 DEF reset_count, WorkType
      <3>2. last_reset + RESET_PERIOD <= work[w].time
        BY <1>0, <2>3, <3>1 DEF duration_since
      <3>3. p \in Nat /\ q \in Nat /\ p + 1 <= q
        BY <1>0, <3>1, <3>2, Quotient, QuotientPeriod
      <3>4. count' = 0 /\ last_reset' = work[w].time /\ UNCHANGED <<now, passed>>
        BY <1>7, <2>3 DEF reset_count
      <3>5. passed <= Limit * p + Limit
        <4>1. Limit * p \in Nat
          BY <1>0
        <4>2. passed <= Limit * p + (IF count < Limit THEN count ELSE Limit)
          OBVIOUS
        <4> HIDE DEF p
        <4>3. QED BY <1>0, <4>1, <4>2
      <3>6. passed <= Limit * q
        <4> HIDE DEF p, q
        <4>1. Limit * (p + 1) <= Limit * q /\ Limit * (p + 1) = Limit * p + Limit
          BY <3>3, ProductMonotone
        <4>2. Limit * p \in Nat /\ Limit * q \in Nat
          BY <3>3, ProductMonotone
        <4>3. QED BY <1>0, <3>5, <4>1, <4>2
      <3>7. passed' <= Limit * (last_reset' \div RESET_PERIOD)
                         + (IF count' < Limit THEN count' ELSE Limit)
        <4>1. Limit * q \in Nat /\ passed' <= Limit * q /\ last_reset' \div RESET_PERIOD = q
          BY <3>3, <3>4, <3>6, ProductMonotone
        <4>2. (IF count' < Limit THEN count' ELSE Limit) = 0
          BY <3>4
        <4> HIDE DEF q
        <4>3. QED BY <4>1, <4>2, <1>0, <3>4
      <3>8. QED BY <2>1, <3>1, <3>4, <3>7
    <2>4. QED BY <2>2, <2>3, <1>0, <1>7 DEF duration_since, reset_count, WorkType
  <1>8. QED BY <1>1, <1>2, <1>3, <1>4, <1>5, <1>6, <1>7 DEF Next, Step

(* Every step keeps the account of the cookies: replies only grow, so what *)
(* a sender was given stays given.                                         *)
LEMMA CookieStep ==
  ASSUME TypeOK, CookieInv, [Next]_vars
  PROVE  CookieInv'
  <1> USE DEF TypeOK, CookieInv
  <1>1. CASE UNCHANGED vars
    BY <1>1 DEF vars, Given
  <1>2. CASE Tick
    BY <1>2 DEF Tick, Given
  <1>3. ASSUME NEW w \in Workers, NEW addr \in Addrs \cup {NoAddr},
               NEW mac1 \in BOOLEAN, NEW mac2 \in Given \cup {NoCookie},
               VerifyPacket(w, addr, mac1, mac2)
        PROVE  CookieInv'
    <2>1. Given' = Given /\ replies' = replies
      BY <1>3 DEF VerifyPacket, Given
    <2>2. ASSUME NEW v \in Workers
          PROVE  \/ work'[v] = work[v] /\ (work[v] = Idle \/ outcome'[v] = outcome[v])
                 \/ /\ work'[v] = [at |-> "cookie", addr |-> addr, mac2 |-> mac2]
                    /\ outcome'[v] = "none"
      BY <1>3 DEF VerifyPacket
    <2>3. QED BY <2>1, <2>2 DEF Idle
  <1>4. ASSUME NEW w \in Workers, CheckCookie(w)
        PROVE  CookieInv'
    <2> DEFINE c == current_cookie(work[w].addr)
               n == [at |-> "reply", addr |-> work[w].addr, cookie |-> c, made |-> now]
    <2>1. Given' = Given /\ replies' = replies
      BY <1>4 DEF CheckCookie, Given
    <2>2. Derived(n.addr, n.cookie, n.made)
      BY DEF Derived, current_cookie
    <2>3. ASSUME NEW v \in Workers
          PROVE  \/ work'[v] = work[v] /\ outcome'[v] = outcome[v]
                 \/ work'[v] = Idle \/ work'[v] = n
      BY <1>4 DEF CheckCookie
    <2>4. n.at = "reply" /\ Idle.at = "idle"
      BY DEF Idle
    <2> HIDE DEF n
    <2>5. QED BY <2>1, <2>2, <2>3, <2>4
  <1>5. ASSUME NEW w \in Workers, format_cookie_reply(w)
        PROVE  CookieInv'
    <2> DEFINE r0 == [to |-> work[w].addr, cookie |-> work[w].cookie, made |-> work[w].made]
    <2>1. replies' = replies \cup {r0}
      BY <1>5 DEF format_cookie_reply
    <2>2. Derived(r0.to, r0.cookie, r0.made)
      BY <1>5 DEF format_cookie_reply
    <2>3. Given \subseteq Given'
      BY <2>1 DEF Given
    <2>4. \A v \in Workers : \/ work'[v] = work[v] /\ outcome'[v] = outcome[v]
                             \/ work'[v] = Idle
      BY <1>5 DEF format_cookie_reply
    <2>5. Idle.at = "idle"
      BY DEF Idle
    <2> HIDE DEF r0
    <2>6. \A r \in replies' : Derived(r.to, r.cookie, r.made)
      BY <2>1, <2>2
    <2>7. QED BY <2>3, <2>4, <2>5, <2>6
  <1>6. ASSUME NEW w \in Workers, ReadClock(w)
        PROVE  CookieInv'
    BY <1>6 DEF ReadClock, Given
  <1>7. ASSUME NEW w \in Workers, reset_count(w)
        PROVE  CookieInv'
    BY <1>7 DEF reset_count, Given, Idle
  <1>8. QED BY <1>1, <1>2, <1>3, <1>4, <1>5, <1>6, <1>7 DEF Next, Step

LimiterInv == TypeOK /\ CountInv /\ CookieInv

(* The inductive invariant holds in every reachable state of the limiter.  *)
THEOREM LimiterInvariance == Spec => []LimiterInv
  <1>1. Init => LimiterInv
    <2> SUFFICES ASSUME Init PROVE LimiterInv
      OBVIOUS
    <2>1. TypeOK
      BY LimiterAssumption DEF Init, TypeOK, WorkType, Idle
    <2>2. CountInv
      <3>1. 0 \div RESET_PERIOD \in Nat /\ Limit * (0 \div RESET_PERIOD) \in Nat
        BY Quotient, ProductMonotone, LimiterAssumption
      <3>2. QED BY <3>1, LimiterAssumption DEF Init, CountInv, Idle
    <2>3. CookieInv
      BY DEF Init, CookieInv, Idle
    <2>4. QED BY <2>1, <2>2, <2>3 DEF LimiterInv
  <1>2. LimiterInv /\ [Next]_vars => LimiterInv'
    BY TypeStep, CountStep, CookieStep DEF LimiterInv
  <1>3. QED BY <1>1, <1>2, PTL DEF Spec

(* The variables of the limiter keep their types.                          *)
THEOREM LimiterTypeCorrect == Spec => []TypeOK
  <1>1. LimiterInv => TypeOK
    BY DEF LimiterInv
  <1>2. QED BY <1>1, LimiterInvariance, PTL

(* At most Limit messages for each period begun pass without a cookie,     *)
(* for every number of workers that verify and reset concurrently.         *)
THEOREM LoadBounded == Spec => []LoadBound
  <1>1. LimiterInv => LoadBound
    <2> SUFFICES ASSUME LimiterInv PROVE LoadBound
      OBVIOUS
    <2> USE LimiterAssumption DEF LimiterInv, TypeOK, CountInv
    <2> DEFINE p == last_reset \div RESET_PERIOD
               q == now \div RESET_PERIOD
    <2>1. now \in Nat /\ last_reset \in Nat /\ last_reset <= now
      OBVIOUS
    <2>2. p \in Nat /\ q \in Nat /\ p <= q
      BY <2>1, Quotient, QuotientMonotone
    <2>3. passed <= Limit * p + (IF count < Limit THEN count ELSE Limit)
      OBVIOUS
    <2>4. passed <= Limit * (1 + q)
      <3> HIDE DEF p, q
      <3>1. Limit * p <= Limit * q /\ Limit * p \in Nat
        BY <2>2, ProductMonotone
      <3>2. Limit * (q + 1) = Limit * q + Limit /\ Limit * q \in Nat
        BY <2>2, ProductMonotone
      <3>3. q + 1 = 1 + q
        BY <2>2
      <3>4. QED BY <2>3, <3>1, <3>2, <3>3
    <2>5. QED BY <2>4 DEF LoadBound
  <1>2. QED BY <1>1, LimiterInvariance, PTL

(* A message that passes under load carries a cookie made less than        *)
(* COOKIE_REFRESH before and sent to its address, or to the one of the     *)
(* other family that current_cookie pads to the same bytes.                *)
THEOREM CookieProof == Spec => CookieProves
  <1>1. LimiterInv /\ [Next]_vars =>
          [\A w \in Workers :
             work[w].at = "cookie" /\ outcome'[w] = "Ok" =>
               \E r \in replies : /\ \/ r.to = work[w].addr
                                     \/ Padded(r.to, work[w].addr)
                                     \/ Padded(work[w].addr, r.to)
                                  /\ r.cookie = work[w].mac2
                                  /\ now - r.made < COOKIE_REFRESH]_vars
    <2> SUFFICES ASSUME LimiterInv, Next, NEW w \in Workers,
                        work[w].at = "cookie", outcome'[w] = "Ok"
                 PROVE  \E r \in replies : /\ \/ r.to = work[w].addr
                                              \/ Padded(r.to, work[w].addr)
                                              \/ Padded(work[w].addr, r.to)
                                           /\ r.cookie = work[w].mac2
                                           /\ now - r.made < COOKIE_REFRESH
      OBVIOUS
    <2> USE DEF LimiterInv, TypeOK
    <2>1. outcome[w] = "none" /\ work[w].mac2 \in Given \cup {NoCookie}
      BY DEF CookieInv
    <2>2. CheckCookie(w)
      BY <2>1 DEF Next, Step, Tick, VerifyPacket, CheckCookie,
                  format_cookie_reply, ReadClock, reset_count, Idle
    <2>3. /\ work[w].addr # NoAddr
          /\ work[w].mac2 = current_cookie(work[w].addr)
      BY <2>1, <2>2 DEF CheckCookie
    <2>4. work[w].addr \in Addrs
      BY <2>3 DEF WorkType
    <2>5. work[w].mac2 # NoCookie
      BY <2>3, <2>4, CookieTyped, LimiterAssumption DEF CookieType, Epochs
    <2>6. PICK r \in replies : r.cookie = work[w].mac2
      BY <2>1, <2>5 DEF Given
    <2>7. /\ addr_bytes(r.to) = addr_bytes(work[w].addr)
          /\ r.made \div COOKIE_REFRESH = now \div COOKIE_REFRESH
      BY <2>3, <2>6 DEF CookieInv, Derived, current_cookie
    <2>8. r.made \in Nat /\ now \in Nat /\ r.to \in Addrs
      BY DEF ReplyType
    <2>9. now - r.made < COOKIE_REFRESH
      BY <2>7, <2>8, SameEpoch, LimiterAssumption
    <2>10. r.to = work[w].addr \/ Padded(r.to, work[w].addr) \/ Padded(work[w].addr, r.to)
      BY <2>4, <2>7, <2>8, SameBytes
    <2>11. QED BY <2>6, <2>9, <2>10
  <1>2. QED BY <1>1, LimiterInvariance, PTL DEF Spec, CookieProves
=============================================================================
