---------------------------- MODULE ReplayFilter ----------------------------
(***************************************************************************)
(* What the receiving half of a session promises, with no bitmap: an       *)
(* authentic packet is delivered exactly when its counter was not          *)
(* delivered before and is not more than WindowSize behind the highest     *)
(* delivered one; nothing else is ever delivered, and no other packet is   *)
(* ever refused.                                                           *)
(***************************************************************************)
EXTENDS Integers

CONSTANTS
  Receivers,   \* the concurrent callers of receive_packet_data
  Counters,    \* the counters a packet may carry
  WindowSize   \* how far behind the highest counter a packet may arrive

VARIABLES
  delivered,   \* how often each counter was delivered
  call         \* what each receiver is doing: its packet and the outcome

filterVars == <<delivered, call>>

Packets == [counter : Counters, authentic : BOOLEAN]

(* Too far behind some counter that was delivered already. *)
TooOld(c) == \E d \in Counters : delivered[d] > 0 /\ c + WindowSize <= d

Idle(r) == call[r].result # "pending"

FilterInit ==
  /\ delivered = [c \in Counters |-> 0]
  /\ \A r \in Receivers : Idle(r)

Call(r, p) ==
  /\ Idle(r)
  /\ call' = [call EXCEPT ![r] = [packet |-> p, result |-> "pending"]]
  /\ UNCHANGED delivered

Accept(r) ==
  LET c == call[r].packet.counter IN
  /\ ~Idle(r)
  /\ call[r].packet.authentic
  /\ delivered[c] = 0 /\ ~TooOld(c)
  /\ delivered' = [delivered EXCEPT ![c] = 1]
  /\ call' = [call EXCEPT ![r].result = "ok"]

Refuse(r) ==
  LET c == call[r].packet.counter IN
  /\ ~Idle(r)
  /\ delivered[c] > 0 \/ TooOld(c) \/ ~call[r].packet.authentic
  /\ call' = [call EXCEPT ![r].result = "error"]
  /\ UNCHANGED delivered

FilterNext ==
  \E r \in Receivers :
    \/ \E p \in Packets : Call(r, p)
    \/ Accept(r)
    \/ Refuse(r)

FilterSpec == FilterInit /\ [][FilterNext]_filterVars
=============================================================================
