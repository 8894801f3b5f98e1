---------------------------- MODULE ReplayWindow ----------------------------
(***************************************************************************)
(* The anti-replay window of a session: ReceivingKeyCounterValidator and   *)
(* the receiving half of Session in noise/session.rs.                      *)
(*                                                                         *)
(* receive_packet_data takes the validator's mutex twice, once for the     *)
(* quick check and once, after decryption, to mark the counter.  Its &self *)
(* and the mutex would let callers interleave between the two, and the     *)
(* model does; the one caller there is, Tunn, has the session to itself,   *)
(* so this allows more than can happen.  The marking itself runs under the *)
(* mutex; its three clearing loops are modelled one iteration at a time.   *)
(*                                                                         *)
(* A counter is a u64 that the peer's session counts up from 0, so the     *)
(* code's `counter + N_BITS' and `counter + 1' do not wrap before the      *)
(* peer has sent 2^64 - 1024 packets; MaxCounter names that bound and the  *)
(* arithmetic below is over the naturals.                                  *)
(***************************************************************************)
EXTENDS Integers, FiniteSets

CONSTANTS
  Receivers,    \* concurrent callers of receive_packet_data
  WORD_SIZE,    \* 64 in the code
  N_WORDS,      \* 16 in the code
  MaxCounter,   \* the largest counter a packet carries
  NoReceiver    \* the validator's mutex is free

ASSUME SizeAssumption ==
  /\ WORD_SIZE \in Nat \ {0}
  /\ N_WORDS \in Nat \ {0}
  /\ MaxCounter \in Nat
ASSUME ReceiverAssumption == NoReceiver \notin Receivers

N_BITS == WORD_SIZE * N_WORDS
Counters == 0..MaxCounter
Packets == [counter : Counters, authentic : BOOLEAN]
PCs == {"idle", "check", "open", "mark", "bits", "words", "rest"}
Results == {"none", "pending", "ok", "error"}

VARIABLES
  next, bitmap, receive_cnt,   \* ReceivingKeyCounterValidator
  lock,                        \* who holds receiving_key_counter's mutex
  pc, packet, result,          \* per caller of receive_packet_data
  i,                           \* the loop variable of mark_did_receive
  delivered                    \* history: how often each counter got Ok

validator == <<next, bitmap, receive_cnt>>
vars == <<next, bitmap, receive_cnt, lock, pc, packet, result, i, delivered>>

-----------------------------------------------------------------------------
(* The bitmap is the set of the bits that are set, each a <<word, bit>>. *)

WordOf(idx) == (idx % N_BITS) \div WORD_SIZE
BitOf(idx) == (idx % N_BITS) % WORD_SIZE
Slot(idx) == <<WordOf(idx), BitOf(idx)>>

set_bit(bm, idx) == bm \cup {Slot(idx)}
clear_bit(bm, idx) == bm \ {Slot(idx)}
clear_word(bm, idx) == {s \in bm : s[1] # WordOf(idx)}
check_bit(bm, idx) == Slot(idx) \in bm

TooFarBack(c) == c + N_BITS < next

will_accept(c) ==
  \/ c >= next
  \/ ~TooFarBack(c) /\ ~check_bit(bitmap, c)

-----------------------------------------------------------------------------
Init ==
  /\ next = 0 /\ bitmap = {} /\ receive_cnt = 0
  /\ lock = NoReceiver
  /\ pc = [r \in Receivers |-> "idle"]
  /\ packet = [r \in Receivers |-> [counter |-> 0, authentic |-> FALSE]]
  /\ result = [r \in Receivers |-> "none"]
  /\ i = 0
  /\ delivered = [c \in Counters |-> 0]

Goto(r, to) == pc' = [pc EXCEPT ![r] = to]
Return(r, res) == Goto(r, "idle") /\ result' = [result EXCEPT ![r] = res]

(* receive_packet_data is called with a packet of this session. *)
Call(r, p) ==
  /\ pc[r] = "idle"
  /\ packet' = [packet EXCEPT ![r] = p]
  /\ result' = [result EXCEPT ![r] = "pending"]
  /\ Goto(r, "check")
  /\ UNCHANGED <<validator, lock, i, delivered>>

(* Mutant: the packet is counted before it is authenticated. *)
quick_check_Counts(r) ==
  /\ pc[r] = "check"
  /\ lock = NoReceiver
  /\ \/ /\ will_accept(packet[r].counter)
        /\ Goto(r, "open")
        /\ receive_cnt' = receive_cnt + 1
        /\ UNCHANGED result
     \/ /\ ~will_accept(packet[r].counter)
        /\ Return(r, "error")
        /\ UNCHANGED receive_cnt
  /\ UNCHANGED <<next, bitmap, lock, packet, i, delivered>>

receiving_counter_quick_check(r) ==
  /\ pc[r] = "check"
  /\ lock = NoReceiver
  /\ \/ /\ will_accept(packet[r].counter)
        /\ Goto(r, "open")
        /\ UNCHANGED result
     \/ /\ ~will_accept(packet[r].counter)
        /\ Return(r, "error")
  /\ UNCHANGED <<validator, lock, packet, i, delivered>>

(* open_in_place succeeds exactly on what the peer's session sealed. *)
Open(r) ==
  /\ pc[r] = "open"
  /\ \/ packet[r].authentic /\ Goto(r, "mark") /\ UNCHANGED result
     \/ ~packet[r].authentic /\ Return(r, "error")
  /\ UNCHANGED <<validator, lock, packet, i, delivered>>

(* mark_did_receive returns Ok with these new fields, and                  *)
(* receiving_counter_mark counts the packet.                               *)
MarkOk(r, newNext, newBitmap) ==
  /\ next' = newNext
  /\ bitmap' = newBitmap
  /\ receive_cnt' = receive_cnt + 1
  /\ delivered' = [delivered EXCEPT ![packet[r].counter] = @ + 1]
  /\ lock' = NoReceiver
  /\ i' = 0
  /\ Return(r, "ok")
  /\ UNCHANGED packet

MarkErr(r) ==
  /\ Return(r, "error")
  /\ UNCHANGED <<validator, lock, packet, i, delivered>>

(* Mutant: the bit is not tested again after decryption. *)
Mark_NoRecheck(r) ==
  LET c == packet[r].counter IN
  /\ pc[r] = "mark"
  /\ lock = NoReceiver
  /\ \/ TooFarBack(c) /\ MarkErr(r)
     \/ c = next /\ MarkOk(r, c + 1, set_bit(bitmap, c))
     \/ c < next /\ ~TooFarBack(c) /\ MarkOk(r, next, set_bit(bitmap, c))
     \/ c > next /\ MarkOk(r, c + 1, set_bit({}, c))

(* receiving_counter_mark up to its clearing loops: every path but the     *)
(* last one runs to the end of mark_did_receive.                           *)
Mark(r) ==
  LET c == packet[r].counter IN
  /\ pc[r] = "mark"
  /\ lock = NoReceiver
  /\ \/ TooFarBack(c) /\ MarkErr(r)
     \/ c = next /\ MarkOk(r, c + 1, set_bit(bitmap, c))
     \/ /\ c < next /\ ~TooFarBack(c)
        /\ \/ check_bit(bitmap, c) /\ MarkErr(r)
           \/ ~check_bit(bitmap, c) /\ MarkOk(r, next, set_bit(bitmap, c))
     \/ c > next /\ c - next >= N_BITS /\ MarkOk(r, c + 1, set_bit({}, c))
     \/ /\ c > next /\ c - next < N_BITS
        /\ lock' = r
        /\ i' = next
        /\ Goto(r, "bits")
        /\ UNCHANGED <<validator, packet, result, delivered>>

(* One iteration of a clearing loop, or its exit to the next loop. *)
Loop(r, here, guard, newBitmap, newI, exit) ==
  /\ pc[r] = here
  /\ \/ guard /\ bitmap' = newBitmap /\ i' = newI /\ UNCHANGED pc
     \/ ~guard /\ Goto(r, exit) /\ UNCHANGED <<bitmap, i>>
  /\ UNCHANGED <<next, receive_cnt, lock, packet, result, delivered>>

(* Clear until i aligned to word size. *)
ClearBits(r) ==
  Loop(r, "bits", i % WORD_SIZE # 0 /\ i < packet[r].counter,
       clear_bit(bitmap, i), i + 1, "words")

(* Mutant: the last word is cleared whole, past the new counter. *)
ClearWords_Overrun(r) ==
  Loop(r, "words", i < packet[r].counter,
       clear_word(bitmap, i), ((i + WORD_SIZE) \div WORD_SIZE) * WORD_SIZE, "rest")

(* Clear whole word at a time. *)
ClearWords(r) ==
  Loop(r, "words", i + WORD_SIZE < packet[r].counter,
       clear_word(bitmap, i), ((i + WORD_SIZE) \div WORD_SIZE) * WORD_SIZE, "rest")

(* Mutant: the loop stops one bit early. *)
ClearRest_OffByOne(r) ==
  LET c == packet[r].counter IN
  /\ pc[r] = "rest"
  /\ \/ /\ i + 1 < c
        /\ bitmap' = clear_bit(bitmap, i)
        /\ i' = i + 1
        /\ UNCHANGED <<next, receive_cnt, lock, pc, packet, result, delivered>>
     \/ i + 1 >= c /\ MarkOk(r, c + 1, set_bit(bitmap, c))

(* Clear any remaining bits; then set the packet's bit and advance next. *)
ClearRest(r) ==
  LET c == packet[r].counter IN
  /\ pc[r] = "rest"
  /\ \/ /\ i < c
        /\ bitmap' = clear_bit(bitmap, i)
        /\ i' = i + 1
        /\ UNCHANGED <<next, receive_cnt, lock, pc, packet, result, delivered>>
     \/ i >= c /\ MarkOk(r, c + 1, set_bit(bitmap, c))

Next ==
  \E r \in Receivers :
    \/ \E p \in Packets : Call(r, p)
    \/ receiving_counter_quick_check(r)
    \/ Open(r)
    \/ Mark(r)
    \/ ClearBits(r)
    \/ ClearWords(r)
    \/ ClearRest(r)

Spec == Init /\ [][Next]_vars

-----------------------------------------------------------------------------
(* Properties *)

(* Every variable has its type; the mutex is held exactly by the caller    *)
(* that is inside the clearing loops of mark_did_receive.                  *)
TypeOK ==
  /\ next \in 0..(MaxCounter + 1)
  /\ bitmap \subseteq (0..(N_WORDS - 1)) \X (0..(WORD_SIZE - 1))
  /\ receive_cnt \in Nat
  /\ lock \in Receivers \cup {NoReceiver}
  /\ pc \in [Receivers -> PCs]
  /\ packet \in [Receivers -> Packets]
  /\ result \in [Receivers -> Results]
  /\ i \in Nat
  /\ delivered \in [Counters -> Nat]

(* Replay protection: no counter is ever delivered twice, however packets  *)
(* are duplicated or reordered and however the callers interleave between  *)
(* the quick check and the mark.                                           *)
NoReplay == \A c \in Counters : delivered[c] <= 1

(* estimate_loss computes 1 - receive_cnt / next: the packets counted as   *)
(* received never outnumber the counters up to the highest one.            *)
LossEstimateSound == receive_cnt <= next

(* Exactness of the bitmap: whenever the mutex is free, a counter inside   *)
(* the window has its bit set if and only if it was delivered, so whole    *)
(* words are cleared without forgetting a counter that can still arrive    *)
(* and without leaving a stale bit that would refuse a fresh packet.       *)
WindowExact ==
  lock = NoReceiver =>
    \A c \in Counters :
      /\ c >= next => delivered[c] = 0
      /\ c < next /\ ~TooFarBack(c) =>
            (check_bit(bitmap, c) <=> delivered[c] > 0)

(* The window implements the abstract filter: exactly the fresh, in-window *)
(* authentic packets are delivered and only the others are refused.        *)
Filter == INSTANCE ReplayFilter WITH
            WindowSize <- N_BITS,
            call <- [r \in Receivers |->
                       [packet |-> packet[r], result |-> result[r]]]
FilterRefinement == Filter!FilterSpec
=============================================================================
