------------------------- MODULE ReplayWindowProofs -------------------------
EXTENDS ReplayWindow, FiniteSetTheorems, TLAPS

(* Quotient and remainder exist ... *)
LEMMA DivModExist ==
  ASSUME NEW a \in Int, NEW n \in Nat \ {0}
  PROVE  /\ a \div n \in Int
         /\ a % n \in 0..(n - 1)
         /\ a = n * (a \div n) + (a % n)
  OBVIOUS

(* ... and are unique. *)
LEMMA QuotientUnique ==
  ASSUME NEW n \in Nat \ {0}, NEW q \in Int, NEW p \in Int,
         NEW r \in 0..(n - 1), NEW s \in 0..(n - 1),
         n * q + r = n * p + s
  PROVE  q = p /\ r = s
  <1>1. ~(q > p)
    <2> SUFFICES ASSUME q > p PROVE FALSE
      OBVIOUS
    <2>1. q - p - 1 \in Nat
      OBVIOUS
    <2>2. n * (q - p - 1) >= 0
      BY <2>1
    <2>3. n * q - n * p >= n
      BY <2>2
    <2> QED BY <2>3
  <1>2. ~(p > q)
    <2> SUFFICES ASSUME p > q PROVE FALSE
      OBVIOUS
    <2>1. p - q - 1 \in Nat
      OBVIOUS
    <2>2. n * (p - q - 1) >= 0
      BY <2>1
    <2>3. n * p - n * q >= n
      BY <2>2
    <2> QED BY <2>3
  <1> QED BY <1>1, <1>2

(* Quotient and remainder are the only ones of their kind. *)
LEMMA DivModUnique ==
  ASSUME NEW a \in Int, NEW n \in Nat \ {0}, NEW q \in Int,
         NEW r \in 0..(n - 1), a = n * q + r
  PROVE  a \div n = q /\ a % n = r
  BY DivModExist, QuotientUnique

(* Numbers less than n apart have different remainders. *)
LEMMA ModDistinct ==
  ASSUME NEW n \in Nat \ {0}, NEW a \in Int, NEW b \in Int,
         a < b, b - a < n
  PROVE  a % n # b % n
  <1> SUFFICES ASSUME a % n = b % n PROVE FALSE
    OBVIOUS
  <1> DEFINE q == b \div n
             p == a \div n
             r == a % n
  <1>1. q \in Int /\ p \in Int /\ r \in Int /\ a = n * p + r /\ b = n * q + r
    BY DivModExist
  <1> HIDE DEF q, p, r
  <1>2. b - a = n * q - n * p
    BY <1>1
  <1>3. CASE q <= p
    <2>1. p - q \in Nat
      BY <1>1, <1>3
    <2>2. n * (p - q) >= 0
      BY <2>1
    <2> QED BY <1>1, <1>2, <2>2
  <1>4. CASE q > p
    <2>1. q - p - 1 \in Nat
      BY <1>1, <1>4
    <2>2. n * (q - p - 1) >= 0
      BY <2>1
    <2>3. n * q - n * p >= n
      BY <1>1, <2>2
    <2> QED BY <1>1, <1>2, <2>3
  <1> QED BY <1>1, <1>3, <1>4

-----------------------------------------------------------------------------
(* Where a counter lands in the bitmap *)

(* The bitmap has at least one word of bits. *)
LEMMA NBits == N_BITS \in Nat \ {0} /\ N_BITS >= WORD_SIZE
  <1>1. WORD_SIZE * (N_WORDS - 1) >= 0
    BY SizeAssumption
  <1> QED BY <1>1, SizeAssumption DEF N_BITS

(* A counter is a word number and a bit number. *)
LEMMA WordSplit ==
  ASSUME NEW x \in Nat
  PROVE  /\ x \div WORD_SIZE \in Int
         /\ x % WORD_SIZE \in 0..(WORD_SIZE - 1)
         /\ x = WORD_SIZE * (x \div WORD_SIZE) + (x % WORD_SIZE)
  BY DivModExist, SizeAssumption

(* The word of a counter is its word number modulo N_WORDS. *)
LEMMA WordOfQuotient ==
  ASSUME NEW x \in Nat
  PROVE  /\ WordOf(x) = (x \div WORD_SIZE) % N_WORDS
         /\ WordOf(x) \in 0..(N_WORDS - 1)
         /\ BitOf(x) \in 0..(WORD_SIZE - 1)
  <1> DEFINE k == x \div WORD_SIZE
             d == x % WORD_SIZE
             a == k \div N_WORDS
             b == k % N_WORDS
  <1>1. k \in Int /\ d \in 0..(WORD_SIZE - 1) /\ x = WORD_SIZE * k + d
    BY WordSplit
  <1>2. a \in Int /\ b \in 0..(N_WORDS - 1) /\ k = N_WORDS * a + b
    BY <1>1, DivModExist, SizeAssumption
  <1> HIDE DEF k, d, a, b
  <1>3. x = N_BITS * a + (WORD_SIZE * b + d)
    BY <1>1, <1>2, SizeAssumption DEF N_BITS
  <1>4. WORD_SIZE * b + d \in 0..(N_BITS - 1)
    <2>1. WORD_SIZE * b >= 0 /\ WORD_SIZE * (N_WORDS - 1 - b) >= 0
      BY <1>2, SizeAssumption
    <2>2. WORD_SIZE * (N_WORDS - 1 - b) = N_BITS - WORD_SIZE - WORD_SIZE * b
      BY <1>2, SizeAssumption DEF N_BITS
    <2> QED BY <1>1, <1>2, <2>1, <2>2, NBits, SizeAssumption
  <1>5. x % N_BITS = WORD_SIZE * b + d
    BY <1>2, <1>3, <1>4, NBits, DivModUnique
  <1>6. (x % N_BITS) \div WORD_SIZE = b /\ (x % N_BITS) % WORD_SIZE = d
    BY <1>1, <1>2, <1>4, <1>5, SizeAssumption, NBits, DivModUnique
  <1> QED BY <1>1, <1>2, <1>6 DEF WordOf, BitOf, b, k

(* A number is its quotient by the word size, and the rest. *)
LEMMA WordSum ==
  ASSUME NEW y \in Int
  PROVE  y = WORD_SIZE * (y \div WORD_SIZE) + (y % WORD_SIZE)
  <1>1. WORD_SIZE \in Nat \ {0}
    BY SizeAssumption
  <1> QED BY <1>1, DivModExist, Zenon

(* The bit of a counter is where its remainder says. *)
LEMMA SlotPosition ==
  ASSUME NEW x \in Nat
  PROVE  x % N_BITS = WORD_SIZE * WordOf(x) + BitOf(x)
  <1>1. x % N_BITS \in Int
    BY NBits, DivModExist
  <1> QED BY <1>1, WordSum, Zenon DEF WordOf, BitOf

(* Counters less than a window apart have different bits. *)
LEMMA SlotDistinct ==
  ASSUME NEW x \in Nat, NEW y \in Nat, x < y, y - x < N_BITS
  PROVE  Slot(x) # Slot(y)
  <1> SUFFICES ASSUME Slot(x) = Slot(y) PROVE FALSE
    OBVIOUS
  <1>2. x % N_BITS = WORD_SIZE * WordOf(x) + BitOf(x)
    BY SlotPosition
  <1>3. y % N_BITS = WORD_SIZE * WordOf(y) + BitOf(y)
    BY SlotPosition
  <1>4. WordOf(x) = WordOf(y) /\ BitOf(x) = BitOf(y)
    BY DEF Slot
  <1>5. x % N_BITS = y % N_BITS
    BY <1>2, <1>3, <1>4
  <1> QED BY <1>5, NBits, ModDistinct

(* The word that starts at an aligned j holds j .. j + WORD_SIZE - 1 ... *)
LEMMA WordCovers ==
  ASSUME NEW j \in Nat, j % WORD_SIZE = 0,
         NEW y \in j..(j + WORD_SIZE - 1)
  PROVE  WordOf(y) = WordOf(j)
  <1> DEFINE k == j \div WORD_SIZE
             d == y - j
  <1>1. k \in Int /\ j = WORD_SIZE * k
    BY WordSplit, SizeAssumption
  <1>2. d \in 0..(WORD_SIZE - 1) /\ y = j + d /\ y \in Int
    BY SizeAssumption
  <1> HIDE DEF k, d
  <1>3. y \div WORD_SIZE = k
    <2>1. y = WORD_SIZE * k + d
      BY <1>1, <1>2
    <2> QED BY <2>1, <1>1, <1>2, SizeAssumption, DivModUnique
  <1>4. y \in Nat
    BY <1>2, SizeAssumption
  <1> USE DEF k
  <1> QED BY <1>3, <1>4, WordOfQuotient

(* ... and no counter before j that a packet after that word leaves in the *)
(* window.                                                                 *)
LEMMA WordDisjoint ==
  ASSUME NEW j \in Nat, j % WORD_SIZE = 0,
         NEW x \in Nat, x < j, j + WORD_SIZE < x + N_BITS
  PROVE  WordOf(x) # WordOf(j)
  <1> DEFINE k == j \div WORD_SIZE
             h == x \div WORD_SIZE
             d == x % WORD_SIZE
  <1>1. k \in Int /\ j = WORD_SIZE * k
    BY WordSplit, SizeAssumption
  <1>2. h \in Int /\ d \in 0..(WORD_SIZE - 1) /\ x = WORD_SIZE * h + d
    BY WordSplit
  <1>3. WordOf(x) = h % N_WORDS /\ WordOf(j) = k % N_WORDS
    BY WordOfQuotient
  <1> HIDE DEF k, h, d
  <1>4. h < k
    <2> SUFFICES ASSUME h >= k PROVE FALSE
      BY <1>1, <1>2
    <2>1. WORD_SIZE * (h - k) >= 0
      BY <1>1, <1>2, SizeAssumption
    <2> QED BY <1>1, <1>2, <2>1, SizeAssumption
  <1>5. k - h < N_WORDS
    <2> SUFFICES ASSUME k - h >= N_WORDS PROVE FALSE
      BY <1>1, <1>2, SizeAssumption
    <2>1. WORD_SIZE * (k - h - N_WORDS) >= 0
      BY <1>1, <1>2, SizeAssumption
    <2>2. j - x + d >= N_BITS
      BY <1>1, <1>2, <2>1, SizeAssumption DEF N_BITS
    <2> QED BY <1>2, <2>2, SizeAssumption, NBits
  <1> QED BY <1>1, <1>2, <1>3, <1>4, <1>5, SizeAssumption, ModDistinct

-----------------------------------------------------------------------------
(* The inductive invariant *)

Loops == {"bits", "words", "rest"}

(* The mutex is held exactly inside the clearing loops, a call is pending  *)
(* exactly while its caller is busy, and only what decrypted gets marked.  *)
CallInv ==
  /\ \A r \in Receivers :
       /\ pc[r] \in Loops <=> lock = r
       /\ pc[r] = "idle" <=> result[r] # "pending"
       /\ pc[r] \in {"mark"} \cup Loops => packet[r].authentic

(* The highest delivered counter is next - 1. *)
NextInv ==
  /\ \A c \in Counters : c >= next => delivered[c] = 0
  /\ next > 0 => delivered[next - 1] > 0

(* While a caller clears the gap up to its counter c, the bits from next   *)
(* to i - 1 are clear and the counters that stay in the window once next   *)
(* is c + 1 still have exact bits; a word is only cleared from its start.  *)
LoopInv ==
  \A r \in Receivers :
    lock = r =>
      LET c == packet[r].counter IN
      /\ next < c /\ c - next < N_BITS
      /\ next <= i /\ i <= c
      /\ pc[r] = "words" => i = c \/ i % WORD_SIZE = 0
      /\ \A x \in next..(i - 1) : ~check_bit(bitmap, x)
      /\ \A x \in Counters :
            x < next /\ c < x + N_BITS =>
              (check_bit(bitmap, x) <=> delivered[x] > 0)

IInv == TypeOK /\ CallInv /\ NoReplay /\ NextInv /\ WindowExact /\ LoopInv

(* Every counter has a place in the bitmap. *)
LEMMA SlotType ==
  ASSUME NEW x \in Nat
  PROVE  Slot(x) \in (0..(N_WORDS - 1)) \X (0..(WORD_SIZE - 1))
  BY WordOfQuotient DEF Slot

(* A new validator satisfies the invariant. *)
LEMMA InitInv == Init => IInv
  <1> SUFFICES ASSUME Init PROVE IInv
    OBVIOUS
  <1>1. TypeOK
    BY SizeAssumption DEF Init, TypeOK, Counters, Packets, PCs, Results
  <1>2. CallInv
    BY ReceiverAssumption DEF Init, CallInv, Loops
  <1>3. NoReplay /\ NextInv /\ WindowExact
    BY DEF Init, NoReplay, NextInv, WindowExact, Counters
  <1>4. LoopInv
    BY ReceiverAssumption DEF Init, LoopInv
  <1> QED BY <1>1, <1>2, <1>3, <1>4 DEF IInv

(* The steps of a caller that leave the validator alone. *)
LEMMA CallStep ==
  ASSUME NEW r \in Receivers, IInv,
         \/ \E p \in Packets : Call(r, p)
         \/ receiving_counter_quick_check(r)
         \/ Open(r)
  PROVE  IInv'
  <1> USE DEF Call, receiving_counter_quick_check, Open, Goto, Return, validator
  <1>1. TypeOK'
    BY DEF IInv, TypeOK, PCs, Results
  <1>2. CallInv'
    BY DEF IInv, TypeOK, CallInv, Loops, Packets
  <1>3. NoReplay' /\ NextInv' /\ WindowExact'
    BY DEF IInv, NoReplay, NextInv, WindowExact, TooFarBack, check_bit
  <1>4. LoopInv'
    <2> SUFFICES ASSUME NEW s \in Receivers, lock' = s
                 PROVE  packet'[s] = packet[s] /\ pc'[s] = pc[s]
      BY DEF IInv, LoopInv, check_bit
    <2>1. lock = s /\ s # r
      BY DEF IInv, CallInv, Loops
    <2> QED BY <2>1 DEF IInv, TypeOK
  <1> QED BY <1>1, <1>2, <1>3, <1>4 DEF IInv

(* Delivering a packet that was not delivered before keeps the invariant   *)
(* if the new bitmap is exact for the new window.                          *)
LEMMA MarkOkStep ==
  ASSUME NEW r \in Receivers, NEW nn \in Nat, NEW bm, IInv,
         MarkOk(r, nn, bm),
         lock = NoReceiver \/ lock = r,
         pc[r] \in {"mark"} \cup Loops,
         delivered[packet[r].counter] = 0,
         \/ nn = next /\ packet[r].counter < next
         \/ nn = packet[r].counter + 1 /\ packet[r].counter >= next,
         bm \subseteq (0..(N_WORDS - 1)) \X (0..(WORD_SIZE - 1)),
         \A x \in Counters :
            x < nn /\ ~(x + N_BITS < nn) =>
              (Slot(x) \in bm <=> delivered[x] > 0 \/ x = packet[r].counter)
  PROVE  IInv'
  <1> DEFINE c == packet[r].counter
  <1>1. c \in Counters /\ c \in Nat /\ next \in Nat /\ packet[r].authentic
    BY SizeAssumption DEF IInv, TypeOK, CallInv, Packets, Counters
  <1>2. /\ next' = nn /\ bitmap' = bm /\ lock' = NoReceiver /\ i' = 0
        /\ delivered' = [delivered EXCEPT ![c] = 1]
        /\ packet' = packet
        /\ pc' = [pc EXCEPT ![r] = "idle"]
        /\ result' = [result EXCEPT ![r] = "ok"]
    BY <1>1 DEF MarkOk, Goto, Return, IInv, TypeOK
  <1>3. TypeOK'
    BY <1>1, <1>2, SizeAssumption, SMTT(30)
    DEF IInv, TypeOK, PCs, Results, MarkOk, Counters
  <1>4. CallInv'
    BY <1>2, ReceiverAssumption DEF IInv, TypeOK, CallInv, Loops
  <1>5. NoReplay'
    BY <1>1, <1>2 DEF IInv, NoReplay, TypeOK
  <1>6. NextInv'
    <2>1. ASSUME NEW x \in Counters, x >= nn
          PROVE  delivered'[x] = 0
      BY <1>1, <1>2, <2>1 DEF IInv, NextInv, TypeOK, Counters
    <2>2. ASSUME nn > 0
          PROVE  delivered'[nn - 1] > 0
      <3>1. CASE nn = next /\ c < next
        <4>1. nn - 1 \in Counters
          BY <1>1, <3>1, SizeAssumption DEF IInv, TypeOK, Counters
        <4> QED BY <1>1, <1>2, <2>2, <3>1, <4>1 DEF IInv, NextInv, TypeOK
      <3>2. CASE nn = c + 1
        BY <1>1, <1>2, <3>2 DEF IInv, TypeOK
      <3> QED BY <3>1, <3>2
    <2> QED BY <1>2, <2>1, <2>2 DEF NextInv
  <1>7. WindowExact'
    <2>1. ASSUME NEW x \in Counters, x < nn, ~(x + N_BITS < nn)
          PROVE  Slot(x) \in bm <=> delivered'[x] > 0
      BY <1>1, <1>2, <2>1 DEF IInv, TypeOK
    <2> QED BY <1>2, <1>6, <2>1 DEF WindowExact, check_bit, TooFarBack, NextInv
  <1>8. LoopInv'
    BY <1>2, ReceiverAssumption DEF LoopInv
  <1> QED BY <1>3, <1>4, <1>5, <1>6, <1>7, <1>8 DEF IInv

(* What the invariant says of the packet a caller is marking. *)
LEMMA CallerFacts ==
  ASSUME NEW r \in Receivers, IInv
  PROVE  /\ packet[r].counter \in Counters /\ packet[r].counter \in Nat
         /\ next \in Nat /\ i \in Nat
         /\ bitmap \subseteq (0..(N_WORDS - 1)) \X (0..(WORD_SIZE - 1))
         /\ Counters \subseteq Nat
         /\ N_BITS \in Nat /\ N_BITS > 0
  BY SizeAssumption, NBits DEF IInv, TypeOK, Packets, Counters

(* Counters less than a window apart do not share a bit. *)
LEMMA SlotNeq ==
  ASSUME NEW x \in Nat, NEW y \in Nat, x # y, x - y < N_BITS, y - x < N_BITS
  PROVE  Slot(x) # Slot(y)
  BY SlotDistinct, NBits

(* mark_did_receive of a counter inside or just past the window keeps the  *)
(* invariant.                                                              *)
LEMMA MarkStep ==
  ASSUME NEW r \in Receivers, IInv, Mark(r)
  PROVE  IInv'
  <1> DEFINE c == packet[r].counter
  <1>1. /\ c \in Counters /\ c \in Nat /\ next \in Nat /\ i \in Nat
        /\ Counters \subseteq Nat /\ N_BITS \in Nat /\ N_BITS > 0
        /\ bitmap \subseteq (0..(N_WORDS - 1)) \X (0..(WORD_SIZE - 1))
    BY CallerFacts
  <1>2. pc[r] = "mark" /\ lock = NoReceiver
    BY DEF Mark
  <1>3. /\ \A x \in Counters : x >= next => delivered[x] = 0
        /\ \A x \in Counters : x < next /\ ~(x + N_BITS < next) =>
             (Slot(x) \in bitmap <=> delivered[x] > 0)
    BY <1>2, SMTT(30) DEF IInv, NextInv, WindowExact, check_bit, TooFarBack
  <1>4. Slot(c) \in (0..(N_WORDS - 1)) \X (0..(WORD_SIZE - 1))
    BY <1>1, SlotType
  <1>5. CASE MarkErr(r)
    <2> USE <1>5 DEF MarkErr, Return, Goto, validator
    <2>1. TypeOK' /\ CallInv'
      BY <1>2, ReceiverAssumption DEF IInv, TypeOK, PCs, Results, CallInv, Loops
    <2>2. NoReplay' /\ NextInv' /\ WindowExact' /\ LoopInv'
      BY <1>2, ReceiverAssumption
      DEF IInv, NoReplay, NextInv, WindowExact, TooFarBack, check_bit, LoopInv
    <2> QED BY <2>1, <2>2 DEF IInv
  <1>6. CASE c = next /\ MarkOk(r, c + 1, set_bit(bitmap, c))
    <2>1. ASSUME NEW x \in Counters, x < c + 1, ~(x + N_BITS < c + 1)
          PROVE  Slot(x) \in set_bit(bitmap, c) <=> delivered[x] > 0 \/ x = c
      BY <1>1, <1>3, <1>6, <2>1, SlotNeq DEF set_bit
    <2>2. delivered[c] = 0 /\ c >= next /\ c + 1 \in Nat
      BY <1>1, <1>3, <1>6
    <2>3. set_bit(bitmap, c) \subseteq (0..(N_WORDS - 1)) \X (0..(WORD_SIZE - 1))
      BY <1>1, <1>4 DEF set_bit
    <2> HIDE DEF c
    <2> QED BY <1>2, <1>6, <2>1, <2>2, <2>3, MarkOkStep DEF c
  <1>7. CASE /\ c < next /\ ~TooFarBack(c) /\ ~check_bit(bitmap, c)
             /\ MarkOk(r, next, set_bit(bitmap, c))
    <2>1. delivered[c] = 0
      BY <1>1, <1>3, <1>7 DEF TooFarBack, check_bit, IInv, TypeOK
    <2>2. ASSUME NEW x \in Counters, x < next, ~(x + N_BITS < next)
          PROVE  Slot(x) \in set_bit(bitmap, c) <=> delivered[x] > 0 \/ x = c
      BY <1>1, <1>3, <1>7, <2>2, SlotNeq DEF set_bit, TooFarBack
    <2> QED BY <1>1, <1>2, <1>4, <1>7, <2>1, <2>2, MarkOkStep DEF set_bit
  <1>8. CASE c > next /\ c - next >= N_BITS /\ MarkOk(r, c + 1, set_bit({}, c))
    <2>1. ASSUME NEW x \in Counters, x < c + 1, ~(x + N_BITS < c + 1)
          PROVE  Slot(x) \in set_bit({}, c) <=> delivered[x] > 0 \/ x = c
      BY <1>1, <1>3, <1>8, <2>1, SlotNeq, SMTT(30) DEF set_bit
    <2> QED BY <1>1, <1>2, <1>3, <1>4, <1>8, <2>1, MarkOkStep DEF set_bit
  <1>9. CASE /\ c > next /\ c - next < N_BITS
             /\ lock' = r /\ i' = next /\ Goto(r, "bits")
             /\ UNCHANGED <<validator, packet, result, delivered>>
    <2> USE <1>9 DEF Goto, validator
    <2>1. TypeOK' /\ CallInv'
      BY <1>1, <1>2, ReceiverAssumption DEF IInv, TypeOK, PCs, CallInv, Loops
    <2>2. NoReplay' /\ NextInv' /\ WindowExact'
      BY ReceiverAssumption
      DEF IInv, NoReplay, NextInv, WindowExact, TooFarBack, check_bit
    <2>3. LoopInv'
      BY <1>1, <1>3 DEF LoopInv, check_bit, IInv, TypeOK
    <2> QED BY <2>1, <2>2, <2>3 DEF IInv
  <1> QED BY <1>5, <1>6, <1>7, <1>8, <1>9 DEF Mark

(* What a caller in a clearing loop knows. *)
LEMMA LoopFacts ==
  ASSUME NEW r \in Receivers, IInv, pc[r] \in Loops
  PROVE  /\ lock = r
         /\ next < packet[r].counter /\ packet[r].counter - next < N_BITS
         /\ next <= i /\ i <= packet[r].counter
         /\ pc[r] = "words" => i = packet[r].counter \/ i % WORD_SIZE = 0
         /\ \A x \in next..(i - 1) : Slot(x) \notin bitmap
         /\ \A x \in Counters :
              x < next /\ packet[r].counter < x + N_BITS =>
                (Slot(x) \in bitmap <=> delivered[x] > 0)
  BY DEF IInv, CallInv, LoopInv, check_bit

(* An interval is cut in two anywhere. *)
LEMMA IntervalSplit ==
  ASSUME NEW a \in Int, NEW b \in Int, NEW d \in Int, NEW x \in a..d
  PROVE  x \in a..(b - 1) \/ x \in b..d
  OBVIOUS

(* An iteration that clears bits of the gap only, up to a new i. *)
LEMMA IterationStep ==
  ASSUME NEW r \in Receivers, IInv, pc[r] \in Loops,
         UNCHANGED <<next, receive_cnt, lock, packet, result, delivered>>,
         pc' = [pc EXCEPT ![r] = pc'[r]], pc'[r] \in Loops,
         i' \in i..packet[r].counter,
         pc'[r] = "words" => i' = packet[r].counter \/ i' % WORD_SIZE = 0,
         bitmap' \subseteq bitmap,
         \A x \in i..(i' - 1) : Slot(x) \notin bitmap',
         \A x \in Counters :
            x < next /\ packet[r].counter < x + N_BITS =>
              (Slot(x) \in bitmap <=> Slot(x) \in bitmap')
  PROVE  IInv'
  <1>0. /\ packet[r].counter \in Nat /\ next \in Nat /\ i \in Nat
        /\ lock = r /\ next <= i /\ r # NoReceiver
    BY CallerFacts, LoopFacts, ReceiverAssumption
  <1>1. TypeOK' /\ CallInv'
    BY <1>0 DEF IInv, TypeOK, CallInv, PCs, Loops
  <1>2. NoReplay' /\ NextInv' /\ WindowExact'
    BY <1>0 DEF IInv, NoReplay, NextInv, WindowExact
  <1>3. LoopInv'
    <2>1. \A x \in next..(i' - 1) : Slot(x) \notin bitmap'
      <3> TAKE x \in next..(i' - 1)
      <3>1. \A y \in next..(i - 1) : Slot(y) \notin bitmap
        BY LoopFacts
      <3>2. next \in Int /\ i \in Int /\ i' - 1 \in Int
        BY <1>0
      <3>3. x \in next..(i - 1) \/ x \in i..(i' - 1)
        BY <3>2, IntervalSplit
      <3> QED BY <3>1, <3>3
    <2>2. next < packet[r].counter /\ packet[r].counter - next < N_BITS
      BY LoopFacts
    <2>3. \A x \in Counters : x < next /\ packet[r].counter < x + N_BITS =>
            (Slot(x) \in bitmap' <=> delivered[x] > 0)
      BY LoopFacts
    <2>4. next <= i' /\ i' <= packet[r].counter
      BY <1>0
    <2> SUFFICES ASSUME NEW s \in Receivers, lock' = s
                 PROVE  LET c == packet'[s].counter IN
                        /\ next' < c /\ c - next' < N_BITS
                        /\ next' <= i' /\ i' <= c
                        /\ pc'[s] = "words" => i' = c \/ i' % WORD_SIZE = 0
                        /\ \A x \in next'..(i' - 1) : ~check_bit(bitmap', x)
                        /\ \A x \in Counters : x < next' /\ c < x + N_BITS =>
                             (check_bit(bitmap', x) <=> delivered'[x] > 0)
      BY DEF LoopInv, check_bit
    <2>5. s = r
      BY <1>0
    <2> QED BY <2>1, <2>2, <2>3, <2>4, <2>5 DEF check_bit
  <1> QED BY <1>1, <1>2, <1>3 DEF IInv

(* Each pass of the three clearing loops of mark_did_receive keeps the     *)
(* invariant.                                                              *)
LEMMA ClearStep ==
  ASSUME NEW r \in Receivers, IInv, ClearBits(r) \/ ClearWords(r) \/ ClearRest(r)
  PROVE  IInv'
  <1> DEFINE c == packet[r].counter
  <1>1. /\ c \in Counters /\ c \in Nat /\ next \in Nat /\ i \in Nat
        /\ Counters \subseteq Nat /\ N_BITS \in Nat /\ N_BITS > 0
        /\ bitmap \subseteq (0..(N_WORDS - 1)) \X (0..(WORD_SIZE - 1))
    BY CallerFacts
  <1>2. /\ pc[r] \in Loops
        /\ pc \in [Receivers -> PCs]
    BY SMTT(30) DEF ClearBits, ClearWords, ClearRest, Loop, Loops, IInv, TypeOK
  <1>3. /\ lock = r /\ next < c /\ c - next < N_BITS /\ next <= i /\ i <= c
        /\ pc[r] = "words" => i = c \/ i % WORD_SIZE = 0
        /\ \A x \in next..(i - 1) : Slot(x) \notin bitmap
        /\ \A x \in Counters : x < next /\ c < x + N_BITS =>
             (Slot(x) \in bitmap <=> delivered[x] > 0)
    BY <1>2, LoopFacts
  <1>4. ASSUME i < c, bitmap' = clear_bit(bitmap, i), i' = i + 1,
               pc[r] # "words", UNCHANGED pc,
               UNCHANGED <<next, receive_cnt, lock, packet, result, delivered>>
        PROVE  IInv'
    <2>1. \A x \in Counters : x < next /\ c < x + N_BITS =>
            (Slot(x) \in bitmap <=> Slot(x) \in bitmap')
      BY <1>1, <1>3, <1>4, SlotNeq, SMTT(30) DEF clear_bit
    <2> QED BY <1>1, <1>2, <1>4, <2>1, IterationStep DEF clear_bit
  <1>5. ASSUME ClearBits(r), ~(i % WORD_SIZE # 0 /\ i < c)
        PROVE  IInv'
    BY <1>1, <1>2, <1>3, <1>5, IterationStep, SMTT(30) DEF ClearBits, Loop, Goto, Loops
  <1>6. ASSUME ClearWords(r), ~(i + WORD_SIZE < c)
        PROVE  IInv'
    BY <1>1, <1>2, <1>3, <1>6, IterationStep, SMTT(30) DEF ClearWords, Loop, Goto, Loops
  <1>7. ASSUME ClearWords(r), i + WORD_SIZE < c
        PROVE  IInv'
    <2>1. /\ pc[r] = "words" /\ UNCHANGED pc
          /\ bitmap' = clear_word(bitmap, i)
          /\ i' = ((i + WORD_SIZE) \div WORD_SIZE) * WORD_SIZE
          /\ UNCHANGED <<next, receive_cnt, lock, packet, result, delivered>>
      BY <1>7 DEF ClearWords, Loop
    <2>2. i % WORD_SIZE = 0
      BY <1>1, <1>3, <1>7, <2>1, SizeAssumption
    <2>3. i' = i + WORD_SIZE /\ i' % WORD_SIZE = 0
      <3> DEFINE k == i \div WORD_SIZE
      <3>1. k \in Int /\ i = WORD_SIZE * k
        BY <1>1, <2>2, WordSplit, SizeAssumption
      <3> HIDE DEF k
      <3>2. i + WORD_SIZE = WORD_SIZE * (k + 1) + 0
        BY <3>1, SizeAssumption
      <3>3. (i + WORD_SIZE) \div WORD_SIZE = k + 1 /\ (i + WORD_SIZE) % WORD_SIZE = 0
        <4>1. i + WORD_SIZE \in Int /\ k + 1 \in Int /\ 0 \in 0..(WORD_SIZE - 1)
          BY <1>1, <3>1, SizeAssumption
        <4> HIDE DEF c
        <4> QED BY ONLY <3>2, <4>1, SizeAssumption, DivModUnique
      <3> QED BY <2>1, <3>1, <3>2, <3>3, SizeAssumption
    <2>4. \A x \in i..(i' - 1) : Slot(x) \notin bitmap'
      BY <1>1, <2>1, <2>2, <2>3, WordCovers, SizeAssumption DEF clear_word, Slot
    <2>5. ASSUME NEW x \in Counters, x < next, c < x + N_BITS
          PROVE  Slot(x) \in bitmap <=> Slot(x) \in bitmap'
      <3>1. WordOf(x) # WordOf(i)
        BY <1>1, <1>3, <1>7, <2>2, <2>5, WordDisjoint, SizeAssumption
      <3> QED BY <2>1, <3>1 DEF clear_word, Slot
    <2>6. bitmap' \subseteq bitmap /\ i' \in i..c
      BY <1>1, <1>7, <2>1, <2>3, SizeAssumption, SMTT(30) DEF clear_word
    <2> QED BY <1>2, <2>1, <2>3, <2>4, <2>5, <2>6, IterationStep
  <1>8. ASSUME pc[r] = "rest", i >= c, MarkOk(r, c + 1, set_bit(bitmap, c))
        PROVE  IInv'
    <2>1. i = c
      BY <1>1, <1>3, <1>8
    <2>2. ASSUME NEW x \in Counters, x < c + 1, ~(x + N_BITS < c + 1)
          PROVE  Slot(x) \in set_bit(bitmap, c) <=> delivered[x] > 0 \/ x = c
      <3>1. CASE x = c
        BY <3>1 DEF set_bit
      <3>2. CASE x < c
        <4>1. Slot(x) # Slot(c)
          BY <1>1, <2>2, <3>2, SlotNeq
        <4>2. CASE x < next
          BY <1>1, <1>3, <2>2, <4>1, <4>2, SMTT(30) DEF set_bit
        <4>3. CASE x >= next
          <5>1. delivered[x] = 0
            BY <4>3 DEF IInv, NextInv
          <5>2. Slot(x) \notin bitmap
            BY <1>1, <1>3, <2>1, <3>2, <4>3
          <5> QED BY <3>2, <4>1, <5>1, <5>2, <1>1 DEF set_bit
        <4> QED BY <1>1, <4>2, <4>3
      <3> QED BY <1>1, <2>2, <3>1, <3>2
    <2>3. delivered[c] = 0 /\ c >= next /\ c + 1 \in Nat
      BY <1>1, <1>3 DEF IInv, NextInv
    <2>4. set_bit(bitmap, c) \subseteq (0..(N_WORDS - 1)) \X (0..(WORD_SIZE - 1))
      BY <1>1, SlotType DEF set_bit
    <2> HIDE DEF c
    <2> QED BY <1>2, <1>3, <1>8, <2>2, <2>3, <2>4, MarkOkStep, SMTT(30) DEF c
  <1> QED BY <1>4, <1>5, <1>6, <1>7, <1>8
          DEF ClearBits, ClearWords, ClearRest, Loop

-----------------------------------------------------------------------------
(* Theorems *)

(* Every step keeps the invariant. *)
LEMMA NextInvariant == IInv /\ [Next]_vars => IInv'
  <1> SUFFICES ASSUME IInv, [Next]_vars PROVE IInv'
    OBVIOUS
  <1>1. CASE UNCHANGED vars
    BY <1>1 DEF vars, IInv, TypeOK, CallInv, NoReplay, NextInv, WindowExact,
                LoopInv, check_bit, TooFarBack
  <1>2. CASE Next
    BY <1>2, CallStep, MarkStep, ClearStep DEF Next
  <1> QED BY <1>1, <1>2

(* The invariant holds in every reachable state. *)
THEOREM Invariance == Spec => []IInv
  BY InitInv, NextInvariant, PTL DEF Spec

(* The validator, its callers and the history keep their types, for every  *)
(* word size, number of words, counter bound and set of callers.           *)
THEOREM TypeCorrect == Spec => []TypeOK
  <1>1. IInv => TypeOK
    BY DEF IInv
  <1> QED BY <1>1, Invariance, PTL

(* No counter is delivered twice by receive_packet_data, for every         *)
(* interleaving of any number of callers.                                  *)
THEOREM ReplayProtection == Spec => []NoReplay
  <1>1. IInv => NoReplay
    BY DEF IInv
  <1> QED BY <1>1, Invariance, PTL

(* Inside the window the bitmap records exactly the delivered counters.    *)
THEOREM BitmapExact == Spec => []WindowExact
  <1>1. IInv => WindowExact
    BY DEF IInv
  <1> QED BY <1>1, Invariance, PTL

(* The ways Mark ends: with an error, with a counter at or above next,     *)
(* with a counter inside the window, or in the clearing loops.             *)
LEMMA MarkCases ==
  ASSUME NEW r \in Receivers, IInv, Mark(r)
  PROVE  LET c == packet[r].counter IN
         \/ /\ MarkErr(r)
            /\ TooFarBack(c) \/ (c < next /\ ~TooFarBack(c) /\ check_bit(bitmap, c))
         \/ \E nn, bm : MarkOk(r, nn, bm) /\ c >= next
         \/ /\ c < next /\ ~TooFarBack(c) /\ ~check_bit(bitmap, c)
            /\ MarkOk(r, next, set_bit(bitmap, c))
         \/ UNCHANGED <<validator, packet, result, delivered>>
  <1> DEFINE c == packet[r].counter
  <1>1. c \in Nat /\ next \in Nat
    BY CallerFacts
  <1>2. c = next \/ c > next => c >= next
    BY <1>1
  <1>3. \/ TooFarBack(c) /\ MarkErr(r)
        \/ c = next /\ MarkOk(r, c + 1, set_bit(bitmap, c))
        \/ c < next /\ ~TooFarBack(c) /\ check_bit(bitmap, c) /\ MarkErr(r)
        \/ /\ c < next /\ ~TooFarBack(c) /\ ~check_bit(bitmap, c)
           /\ MarkOk(r, next, set_bit(bitmap, c))
        \/ c > next /\ MarkOk(r, c + 1, set_bit({}, c))
        \/ UNCHANGED <<validator, packet, result, delivered>>
    BY Zenon DEF Mark
  <1> QED BY <1>2, <1>3, Zenon

(* The validator implements the abstract filter: mark_did_receive and      *)
(* will_accept deliver exactly the fresh packets of the window.            *)
THEOREM FilterImplemented == Spec => FilterRefinement
  <1> DEFINE call == [r \in Receivers |->
                        [packet |-> packet[r], result |-> result[r]]]
  <1>1. Init => Filter!FilterInit
    BY DEF Init, Filter!FilterInit, Filter!Idle
  <1>2. ASSUME IInv, [Next]_vars
        PROVE  [Filter!FilterNext]_(Filter!filterVars)
    <2>1. CASE UNCHANGED vars
      BY <2>1 DEF vars, Filter!filterVars
    <2>2. CASE Next
      <3>0. PICK r \in Receivers :
                  \/ \E p \in Packets : Call(r, p)
                  \/ receiving_counter_quick_check(r)
                  \/ Open(r)
                  \/ Mark(r)
                  \/ ClearBits(r) \/ ClearWords(r) \/ ClearRest(r)
        BY <2>2 DEF Next
      <3> DEFINE c == packet[r].counter
      <3>1. /\ c \in Counters /\ c \in Nat /\ next \in Nat /\ N_BITS \in Nat
            /\ Counters \subseteq Nat
        BY <1>2, CallerFacts
      <3>2. TooFarBack(c) => Filter!TooOld(c)
        <4> SUFFICES ASSUME TooFarBack(c) PROVE Filter!TooOld(c)
          OBVIOUS
        <4>1. next - 1 \in Counters /\ delivered[next - 1] > 0
          BY <1>2, <3>1, SizeAssumption DEF TooFarBack, IInv, NextInv, TypeOK, Counters
        <4> QED BY <3>1, <4>1 DEF TooFarBack, Filter!TooOld
      <3>3. ~TooFarBack(c) => ~Filter!TooOld(c)
        BY <1>2, <3>1 DEF TooFarBack, Filter!TooOld, IInv, NextInv
      <3>4. \A s \in Receivers : Filter!Idle(s) <=> result[s] # "pending"
        BY DEF Filter!Idle
      <3>5. ASSUME Return(r, "error"), UNCHANGED <<packet, delivered>>,
                   pc[r] # "idle",
                   delivered[c] > 0 \/ TooFarBack(c) \/ ~packet[r].authentic
            PROVE  Filter!Refuse(r)
        BY <1>2, <3>2, <3>4, <3>5
        DEF Filter!Refuse, Return, Goto, IInv, CallInv, TypeOK
      <3>6. ASSUME NEW nn, NEW bm, MarkOk(r, nn, bm), delivered[c] = 0,
                   ~TooFarBack(c), pc[r] \in {"mark"} \cup Loops
            PROVE  Filter!Accept(r)
        <4>1. /\ delivered' = [delivered EXCEPT ![c] = 1]
              /\ result' = [result EXCEPT ![r] = "ok"]
              /\ packet' = packet
          BY <1>2, <3>1, <3>6 DEF MarkOk, Return, IInv, TypeOK
        <4>2. result[r] = "pending" /\ packet[r].authentic
          BY <1>2, <3>6 DEF IInv, CallInv, Loops
        <4>3. call' = [call EXCEPT ![r].result = "ok"]
          BY <1>2, <4>1 DEF IInv, TypeOK
        <4> QED BY <3>3, <3>4, <3>6, <4>1, <4>2, <4>3 DEF Filter!Accept
      <3>12. c >= next => delivered[c] = 0 /\ ~TooFarBack(c)
        <4>1. c >= next => delivered[c] = 0
          BY <1>2, <3>1 DEF IInv, NextInv
        <4>2. N_BITS > 0
          BY <1>2, CallerFacts
        <4>3. c >= next => ~TooFarBack(c)
          BY <3>1, <4>2 DEF TooFarBack
        <4> QED BY <4>1, <4>3
      <3>13. Filter!Refuse(r) \/ Filter!Accept(r) => Filter!FilterNext
        BY Zenon DEF Filter!FilterNext
      <3>7. ASSUME NEW p \in Packets, Call(r, p)
            PROVE  Filter!Call(r, p)
        BY <1>2, <3>4, <3>7 DEF Call, Filter!Call, IInv, CallInv, TypeOK
      <3>8. CASE receiving_counter_quick_check(r)
        <4>1. CASE will_accept(c)
          BY <3>8, <4>1 DEF receiving_counter_quick_check, Filter!filterVars
        <4>2. CASE ~will_accept(c)
          <5>0. lock = NoReceiver
            BY <3>8 DEF receiving_counter_quick_check
          <5>a. TooFarBack(c) \/ (c < next /\ check_bit(bitmap, c))
            BY <3>1, <4>2 DEF will_accept
          <5>b. c < next /\ ~TooFarBack(c) => (check_bit(bitmap, c) <=> delivered[c] > 0)
            BY <1>2, <3>1, <5>0 DEF IInv, WindowExact
          <5>1. delivered[c] > 0 \/ TooFarBack(c)
            BY <5>a, <5>b, SMTT(30)
          <5>2. /\ Return(r, "error") /\ pc[r] # "idle"
                /\ UNCHANGED <<packet, delivered>>
            BY <3>8, <4>2 DEF receiving_counter_quick_check
          <5> QED BY <3>5, <3>13, <5>1, <5>2, Zenon
        <4> QED BY <4>1, <4>2
      <3>9. CASE Open(r)
        <4>1. CASE packet[r].authentic
          BY <3>9, <4>1 DEF Open, Filter!filterVars
        <4>2. CASE ~packet[r].authentic
          <5>1. /\ Return(r, "error") /\ pc[r] # "idle"
                /\ UNCHANGED <<packet, delivered>>
            BY <3>9, <4>2 DEF Open
          <5> QED BY <3>5, <3>13, <4>2, <5>1, Zenon
        <4> QED BY <4>1, <4>2, Zenon
      <3>10. CASE Mark(r)
        <4>0. lock = NoReceiver /\ pc[r] = "mark"
          BY <3>10 DEF Mark
        <4>1. CASE MarkErr(r) /\ (TooFarBack(c) \/ (c < next /\ ~TooFarBack(c) /\ check_bit(bitmap, c)))
          <5>1. c < next /\ ~TooFarBack(c) => (check_bit(bitmap, c) <=> delivered[c] > 0)
            BY <1>2, <3>1, <4>0 DEF IInv, WindowExact
          <5>2. delivered[c] > 0 \/ TooFarBack(c)
            BY <4>1, <5>1, Zenon
          <5>3. /\ Return(r, "error") /\ pc[r] # "idle"
                /\ UNCHANGED <<packet, delivered>>
            BY <4>0, <4>1 DEF MarkErr
          <5> QED BY <3>5, <3>13, <5>2, <5>3, Zenon
        <4>2. CASE \E nn, bm : MarkOk(r, nn, bm) /\ c >= next
          <5>1. c >= next
            BY <4>2
          <5>2. delivered[c] = 0 /\ ~TooFarBack(c)
            BY <3>12, <5>1
          <5>3. Filter!Accept(r)
            BY <3>6, <4>0, <4>2, <5>2
          <5> QED BY <3>13, <5>3, Zenon
        <4>3. CASE /\ c < next /\ ~TooFarBack(c) /\ ~check_bit(bitmap, c)
                   /\ MarkOk(r, next, set_bit(bitmap, c))
          <5>1. c < next /\ ~TooFarBack(c) => (check_bit(bitmap, c) <=> delivered[c] > 0)
            BY <1>2, <3>1, <4>0 DEF IInv, WindowExact
          <5>2. delivered[c] \in Nat
            BY <1>2, <3>1 DEF IInv, TypeOK
          <5>3. delivered[c] = 0
            BY <4>3, <5>1, <5>2
          <5>4. Filter!Accept(r)
            BY <3>6, <4>0, <4>3, <5>3
          <5> QED BY <3>13, <5>4, Zenon
        <4>4. CASE UNCHANGED <<validator, packet, result, delivered>>
          BY <4>4 DEF Filter!filterVars
        <4> QED BY <1>2, <3>10, <4>1, <4>2, <4>3, <4>4, MarkCases, Zenon
      <3>11. CASE ClearBits(r) \/ ClearWords(r) \/ ClearRest(r)
        <4>1. CASE UNCHANGED <<packet, result, delivered>>
          BY <4>1 DEF Filter!filterVars
        <4>2. CASE pc[r] = "rest" /\ MarkOk(r, c + 1, set_bit(bitmap, c))
          <5>1. next < c
            BY <1>2, <4>2, LoopFacts DEF Loops
          <5>2. delivered[c] = 0 /\ ~TooFarBack(c)
            BY <3>1, <3>12, <5>1
          <5>3. Filter!Accept(r)
            BY <3>6, <4>2, <5>2 DEF Loops
          <5> QED BY <3>13, <5>3, Zenon
        <4> QED BY <3>11, <4>1, <4>2 DEF ClearBits, ClearWords, ClearRest, Loop
      <3> QED BY <3>0, <3>7, <3>8, <3>9, <3>10, <3>11
              DEF Filter!FilterNext, Packets, Filter!Packets
    <2> QED BY <1>2, <2>1, <2>2
  <1> QED BY <1>1, <1>2, Invariance, PTL DEF Spec, Filter!FilterSpec, FilterRefinement

(* The counters delivered so far. *)
Seen == {c \in Counters : delivered[c] > 0}

(* receive_cnt counts the delivered counters, each once. *)
CountInv == IsFiniteSet(Seen) /\ receive_cnt = Cardinality(Seen)

(* Accepting a packet counts one counter that had not been delivered. *)
LEMMA MarkOkCounts ==
  ASSUME NEW r \in Receivers, NEW nn, NEW bm, IInv, IInv', CountInv,
         MarkOk(r, nn, bm)
  PROVE  CountInv'
  <1> DEFINE c == packet[r].counter
  <1>1. c \in Counters /\ delivered \in [Counters -> Nat]
    BY CallerFacts DEF IInv, TypeOK
  <1>2. delivered' = [delivered EXCEPT ![c] = @ + 1]
        /\ receive_cnt' = receive_cnt + 1
    BY DEF MarkOk
  <1>3. delivered[c] = 0
    BY <1>1, <1>2 DEF IInv, NoReplay
  <1>4. c \notin Seen /\ Seen' = Seen \cup {c}
    BY <1>1, <1>2, <1>3 DEF Seen
  <1> QED BY <1>2, <1>4, FS_AddElement DEF CountInv

(* receive_cnt never exceeds next, so estimate_loss is never negative.     *)
THEOREM LossEstimate == Spec => []LossEstimateSound
  <1>1. Init => CountInv
    <2> SUFFICES ASSUME Init PROVE CountInv
      OBVIOUS
    <2>1. Seen = {} /\ receive_cnt = 0
      BY SMTT(30) DEF Init, Seen
    <2> QED BY <2>1, FS_EmptySet DEF CountInv
  <1>2. ASSUME IInv, IInv', CountInv, [Next]_vars
        PROVE  CountInv'
    <2>1. CASE UNCHANGED <<receive_cnt, delivered>>
      BY <1>2, <2>1 DEF CountInv, Seen
    <2>2. CASE \E r \in Receivers : \E nn, bm : MarkOk(r, nn, bm)
      BY <1>2, <2>2, MarkOkCounts
    <2> QED BY <1>2, <2>1, <2>2
            DEF Next, vars, validator, Call, receiving_counter_quick_check, Open,
                Mark, MarkErr, ClearBits, ClearWords, ClearRest, Loop
  <1>3. ASSUME IInv, CountInv
        PROVE  LossEstimateSound
    <2>1. next \in Nat /\ Seen \subseteq 0..(next - 1)
      BY <1>3, SizeAssumption DEF Seen, IInv, NextInv, TypeOK, Counters
    <2>2. /\ IsFiniteSet(0..(next - 1))
          /\ Cardinality(0..(next - 1)) = next
      BY <2>1, FS_Interval
    <2>3. Cardinality(Seen) <= next
      <3> DEFINE S == 0..(next - 1)
      <3>1. IsFiniteSet(S) /\ Cardinality(S) = next /\ Seen \in SUBSET S
        BY <2>1, <2>2
      <3> HIDE DEF S
      <3>2. Cardinality(Seen) <= Cardinality(S)
        BY <3>1, FS_Subset, Zenon
      <3> QED BY <3>1, <3>2
    <2>4. receive_cnt = Cardinality(Seen)
      BY <1>3 DEF CountInv
    <2> QED BY <2>3, <2>4 DEF LossEstimateSound
  <1> QED BY <1>1, <1>2, <1>3, Invariance, PTL DEF Spec
=============================================================================
