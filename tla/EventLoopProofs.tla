--------------------------- MODULE EventLoopProofs ---------------------------
(***************************************************************************)
(* The safety invariants of the worker threads at the event poll, on both  *)
(* implementations, for every number of threads, peers, descriptors and    *)
(* addresses.                                                              *)
(*                                                                         *)
(* The argument is about owners.  Every descriptor that is open and in use *)
(* has one owner: the boxed event whose handler reads from it, the         *)
(* endpoint of a peer, the device for its listening socket, or a thread    *)
(* that is about to register or to close it.  So no descriptor of an event *)
(* is closed but by dropping the event, and the descriptors that are given *)
(* out again belong to no event.  A registration of the kernel either      *)
(* belongs to the live event it names, or names memory that was given back *)
(* and is disabled, and then its file is not the one that its descriptor   *)
(* refers to now, so no call can enable or delete it by mistake.           *)
(***************************************************************************)
EXTENDS EventLoop, TLAPS

YieldAddress == 4
YieldFile == 4

Handlers == {"udp", "timer", "api", "yield", "conn"}

EventType == [fd : Fds, handler : Handlers, oneshot : BOOLEAN, notifier : BOOLEAN]

Registrations ==
  [fd : Fds, file : Fds, event : Addresses, oneshot : BOOLEAN, armed : BOOLEAN]

Polls ==
  [fd : [Fds -> Fds \cup {0}], on : BOOLEAN, mutex : Workers \cup {NoThread},
   heap : [Addresses -> EventType \cup {E!Free}], events : [Fds -> Addresses \cup {0}],
   reg : SUBSET Registrations]

Points ==
  {"wait", "run", "drop", "out", "eof", "cancel", "close", "connect", "register",
   "registering", "write"}

Threads ==
  [at : Points, guard : Addresses \cup {0}, fd : Fds \cup {0}, peer : Peers \cup {NoPeer}]

-----------------------------------------------------------------------------
(* The inductive invariant *)

Live(s, a) == a \in Addresses /\ s.heap[a] # E!Free

(* The registration of a live event. *)
Current(s, r) ==
  /\ Live(s, r.event) /\ s.heap[r.event].fd = r.fd /\ r.file = s.fd[r.fd]
  /\ r.oneshot <=> r.event # YieldAddress

(* A registration that outlived its event, which only epoll allows. *)
Stale(s, r) ==
  /\ Epolled /\ ~Live(s, r.event) /\ ~r.armed /\ r.file # s.fd[r.fd]
  /\ \E d \in Fds : s.fd[d] = r.file

(* The descriptors of events and those in `out', which others own, are     *)
(* open and have one owner.                                                *)
Owned(s, out) ==
  /\ \A a \in Addresses : Live(s, a) => s.fd[s.heap[a].fd] # 0 /\ s.heap[a].fd \notin out
  /\ \A a, b \in Addresses : Live(s, a) /\ Live(s, b) /\ s.heap[a].fd = s.heap[b].fd => a = b
  /\ \A d \in out : s.fd[d] # 0

(* What the table holds.  The descriptors of live events that it does not  *)
(* hold yet, or not any more, are in `busy'.                               *)
Filed(s, busy) ==
  /\ \A d \in Fds : s.events[d] # 0 => Live(s, s.events[d]) /\ s.heap[s.events[d]].fd = d
  /\ \A a \in Addresses : Live(s, a) => s.events[s.heap[a].fd] = a \/ s.heap[a].fd \in busy

(* What the kernel watches.  The descriptors of live events that it does   *)
(* not watch yet, or not any more, are in `late'; the events that threads  *)
(* have are in `held'.                                                     *)
Watched(s, late, held) ==
  /\ \A r \in s.reg : (Current(s, r) /\ r.fd \notin late) \/ Stale(s, r)
  /\ \A r, q \in s.reg : Live(s, r.event) /\ r.event = q.event => r = q
  /\ \A r \in s.reg : r.event \in held /\ r.oneshot => ~r.armed
  /\ \A a \in Addresses : Live(s, a) /\ s.heap[a].fd \notin late =>
       \E r \in s.reg : r.event = a /\ (r.armed \/ a = YieldAddress \/ a \in held)

(* The yield notification, the one event that is not one-shot. *)
Notifier(s) ==
  /\ s.heap[YieldAddress] = E!new_notifier(YieldFd, "yield")
  /\ \A a \in Addresses : Live(s, a) /\ a # YieldAddress =>
       s.heap[a].handler # "yield" /\ ~s.heap[a].notifier /\ s.heap[a].oneshot
  /\ \A d \in Fds : s.fd[d] = YieldFile <=> d = YieldFd

PollInv(s, out, busy, late, held) ==
  /\ s \in Polls /\ out \subseteq Fds
  /\ Owned(s, out) /\ Filed(s, busy) /\ Watched(s, late, held) /\ Notifier(s)

(* A thread in state x owns d; is registering or removing the event of d.  *)
HasFd == {"register", "close"}
HasOut(x, d) == x.at \in HasFd /\ x.fd = d
HasBusy(x, d) == ~Epolled /\ x.at \in {"registering", "cancel"} /\ x.fd = d
HasLate(x, d) == x.at = (IF Epolled THEN "registering" ELSE "cancel") /\ x.fd = d

Out == {d \in Fds : \/ d = listen \/ d \in Connected
                    \/ \E w \in Workers : HasOut(work[w], d)}

Busy == {d \in Fds : \E w \in Workers : HasBusy(work[w], d)}

Late == {d \in Fds : \E w \in Workers : HasLate(work[w], d)}

Held == {a \in Addresses : \E w \in Workers : work[w].guard = a}

(* A thread w in state x. *)
ThreadInv(s, late, w, x) ==
  /\ x.at \in {"wait", "out"} <=> x.guard = 0
  /\ x.guard # 0 /\ x.at # "cancel" => Live(s, x.guard) /\ s.heap[x.guard].fd \notin late
  /\ x.at \in {"eof", "cancel", "write"} => x.guard # YieldAddress
  /\ x.at \in HasFd => x.fd # 0
  /\ x.at = "registering" =>
       /\ x.fd # YieldFd
       /\ \E a \in Addresses : Live(s, a) /\ s.heap[a].fd = x.fd
       /\ Epolled \/ (s.mutex = w /\ s.events[x.fd] = 0)
  /\ x.at = "cancel" =>
       /\ x.fd # 0 /\ s.mutex = w /\ s.events[x.fd] = 0
       /\ IF Epolled THEN ~Live(s, x.guard)
                     ELSE Live(s, x.guard) /\ s.heap[x.guard].fd = x.fd

(* Two threads. *)
Apart(x, y) ==
  /\ x.guard # 0 /\ x.guard = y.guard => x.guard = YieldAddress
  /\ x.at = "registering" /\ y.at = "registering" => x.fd # y.fd
  /\ x.at \in HasFd /\ y.at \in HasFd => x.fd # y.fd

WorkInv ==
  /\ work \in [Workers -> Threads]
  /\ \A w \in Workers : ThreadInv(poll, Late, w, work[w])
  /\ \A v, w \in Workers : v # w => Apart(work[v], work[w])

OwnersInv ==
  /\ conn \in [Peers -> Fds \cup {0}] /\ listen \in Fds
  /\ \A p \in Peers : conn[p] # listen
  /\ \A p, q \in Peers : p # q /\ conn[p] # 0 => conn[p] # conn[q]
  /\ \A w \in Workers : work[w].at \in HasFd =>
       work[w].fd # listen /\ \A p \in Peers : conn[p] # work[w].fd

Writing == \E v \in Workers : work[v].at = "write"

YieldInv ==
  /\ \A r \in poll.reg : r.event = YieldAddress /\ r.armed /\ poll.on => Writing
  /\ \A w \in Workers : work[w].guard = YieldAddress => Writing
  /\ YieldFile \notin hup

LoopInv ==
  /\ backend \in {"epoll", "kqueue"}
  /\ PollInv(poll, Out, Busy, Late, Held)
  /\ WorkInv /\ OwnersInv /\ YieldInv

-----------------------------------------------------------------------------
(* The parts of a poll *)

(* A leaf that needs arithmetic or records says so. *)
USE Zenon

(* The parts of a poll. *)
LEMMA Types ==
  ASSUME NEW s \in Polls
  PROVE  /\ s.fd \in [Fds -> Fds \cup {0}] /\ s.on \in BOOLEAN
         /\ s.mutex \in Workers \cup {NoThread}
         /\ s.heap \in [Addresses -> EventType \cup {E!Free}]
         /\ s.events \in [Fds -> Addresses \cup {0}]
         /\ s.reg \in SUBSET Registrations
BY DEF Polls

(* The fields of a live event and of a registration. *)
LEMMA EventTypes ==
  ASSUME NEW s \in Polls
  PROVE  /\ \A a : Live(s, a) => /\ a \in Addresses /\ s.heap[a] \in EventType
                                /\ s.heap[a].fd \in Fds
         /\ \A r \in s.reg : /\ r.fd \in Fds /\ r.file \in Fds /\ r.event \in Addresses
                             /\ r.oneshot \in BOOLEAN /\ r.armed \in BOOLEAN
<1>1. ASSUME NEW a, Live(s, a)
      PROVE  a \in Addresses /\ s.heap[a] \in EventType /\ s.heap[a].fd \in Fds
  BY <1>1, Types DEF Live, EventType
<1>2. ASSUME NEW r \in s.reg
      PROVE  /\ r.fd \in Fds /\ r.file \in Fds /\ r.event \in Addresses
             /\ r.oneshot \in BOOLEAN /\ r.armed \in BOOLEAN
  BY <1>2, Types DEF Registrations
<1> QED
  BY <1>1, <1>2

(* The parts of the invariant of a poll. *)
LEMMA Parts ==
  ASSUME NEW s, NEW out, NEW busy, NEW late, NEW held, PollInv(s, out, busy, late, held)
  PROVE  /\ s \in Polls /\ out \subseteq Fds
         /\ Owned(s, out) /\ Filed(s, busy) /\ Watched(s, late, held) /\ Notifier(s)
         /\ s.fd \in [Fds -> Fds \cup {0}] /\ s.reg \subseteq Registrations
         /\ s.heap \in [Addresses -> EventType \cup {E!Free}]
         /\ s.events \in [Fds -> Addresses \cup {0}]
         /\ 0 \notin Fds /\ YieldFd \in Fds /\ YieldAddress \in Addresses
         /\ s.fd[YieldFd] = YieldFile /\ YieldFile # 0
         /\ Live(s, YieldAddress) /\ s.heap[YieldAddress].fd = YieldFd
         /\ s.heap[YieldAddress].handler = "yield" /\ ~s.heap[YieldAddress].oneshot
         /\ s.heap[YieldAddress].notifier
<1>1. s \in Polls /\ out \subseteq Fds /\ Owned(s, out) /\ Filed(s, busy) /\ Watched(s, late, held) /\ Notifier(s)
  BY DEF PollInv
<1>2. 0 \notin Fds /\ YieldFd \in Fds /\ YieldAddress \in Addresses /\ YieldFile # 0
  BY PollAssumption, SMT DEF YieldFd, YieldAddress, YieldFile
<1>3. s.fd[YieldFd] = YieldFile
  BY <1>1, <1>2 DEF Notifier
<1>4. /\ s.heap[YieldAddress].fd = YieldFd /\ s.heap[YieldAddress].handler = "yield"
      /\ ~s.heap[YieldAddress].oneshot /\ s.heap[YieldAddress].notifier
  BY <1>1, SMT DEF Notifier, E!new_notifier, E!new_event
<1>5. Live(s, YieldAddress)
  BY <1>2, <1>4, SMT DEF Live, E!Free
<1> QED
  BY <1>1, <1>2, <1>3, <1>4, <1>5, Types

(* Nothing but a Current registration has the descriptor of a live event   *)
(* and its file.                                                           *)
LEMMA WatchesEvent ==
  ASSUME NEW s, NEW out, NEW busy, NEW late, NEW held, PollInv(s, out, busy, late, held),
         NEW a, Live(s, a), NEW r \in s.reg, r.fd = s.heap[a].fd, ~Epolled \/ r.file = s.fd[r.fd]
  PROVE  r.event = a /\ Current(s, r) /\ r.fd \notin late
<1>1. Current(s, r) /\ r.fd \notin late
  BY Parts, SMT DEF Watched, Stale
<1> QED
  BY <1>1, Parts, EventTypes, SMT DEF Current, Owned

-----------------------------------------------------------------------------
(* What the system gives out *)

(* What of numbers and finite sets the rest uses: a set of numbers has a   *)
(* least one; while a descriptor is free, so is a file; two free           *)
(* descriptors are two, and no fewer when more are free.  The last section *)
(* proves it.                                                              *)
Supply ==
  /\ \A S \in SUBSET Nat : S # {} => Min(S) \in S
  /\ \A fd \in [Fds -> Fds \cup {0}], d \in Fds :
       fd[d] = 0 => \E f \in Fds : \A e \in Fds : fd[e] # f
  /\ \A S \in SUBSET Fds : Cardinality(S) >= 2 => \E a, b \in S : a # b
  /\ \A S, T \in SUBSET Fds : S \subseteq T /\ Cardinality(S) >= 2 => Cardinality(T) >= 2

Opened(n, s) ==
  /\ n.first \in Fds /\ n.second \in Fds /\ n.first # n.second
  /\ s.fd[n.first] = 0 /\ s.fd[n.second] = 0
  /\ n.s.heap = s.heap /\ n.s.events = s.events /\ n.s.reg = s.reg
  /\ n.s.mutex = s.mutex /\ n.s.on = s.on

(* A new socket and its clone are two more descriptors with an owner, on a *)
(* file that nothing refers to.                                            *)
LEMMA NewSocket ==
  ASSUME Supply, NEW s, NEW out, NEW busy, NEW late, NEW held, PollInv(s, out, busy, late, held),
         Cardinality(FreeFds(s)) >= 2
  PROVE  LET n == SocketPair(s) IN
         /\ PollInv(n.s, out \cup {n.first, n.second}, busy, late, held)
         /\ Opened(n, s)
<1> DEFINE f == NewFile(s)
           a == NewFd(s)
           one == [s EXCEPT !.fd[a] = f]
           b == NewFd(one)
           t == [one EXCEPT !.fd[b] = f]
<1>1. s \in Polls /\ out \subseteq Fds /\ Owned(s, out) /\ Filed(s, busy) /\ Watched(s, late, held) /\ Notifier(s)
  BY DEF PollInv
<1>2. s.fd \in [Fds -> Fds \cup {0}] /\ Fds \subseteq Nat /\ 0 \notin Fds /\ IsFiniteSet(Fds)
  BY <1>1, Types, PollAssumption
<1>0. FreeFds(s) \subseteq Fds /\ \E x, y \in FreeFds(s) : x # y
  BY SMT DEF Supply, FreeFds
<1>3. a \in Fds /\ s.fd[a] = 0
  <2>1. FreeFds(s) \in SUBSET Nat /\ FreeFds(s) # {}
    BY <1>0, <1>2
  <2>2. a \in FreeFds(s)
    BY <2>1 DEF NewFd, Supply
  <2> QED
    BY <2>2 DEF FreeFds
<1>4. /\ f \in Fds /\ \A d \in Fds : s.fd[d] # f
      /\ \A r \in s.reg : r.file # f
  <2> DEFINE S == {g \in Fds : (\A d \in Fds : s.fd[d] # g) /\ (\A r \in s.reg : r.file # g)}
  <2>1. PICK g \in Fds : \A e \in Fds : s.fd[e] # g
    BY <1>2, <1>3 DEF Supply
  <2>2. \A r \in s.reg : r.file # g
    BY <1>1, <2>1, EventTypes, SMT DEF Watched, Current, Stale
  <2>3. S # {} /\ S \in SUBSET Nat
    BY <1>2, <2>1, <2>2
  <2>4. Min(S) \in S
    BY <2>3 DEF Supply
  <2> QED
    BY <2>4 DEF NewFile
<1> HIDE DEF f, a
<1>5. /\ one.fd = [s.fd EXCEPT ![a] = f] /\ one.fd[a] = f /\ f # 0
      /\ \A d \in Fds : d # a => one.fd[d] = s.fd[d]
      /\ one = [s EXCEPT !.fd = one.fd]
  BY <1>1, <1>2, <1>3, <1>4 DEF Polls
<1>6. b \in Fds /\ s.fd[b] = 0 /\ b # a
  <2>1. FreeFds(one) = FreeFds(s) \ {a}
    BY <1>3, <1>5 DEF FreeFds
  <2>2. FreeFds(one) \in SUBSET Nat /\ FreeFds(one) # {}
    BY <1>0, <1>2, <2>1, SMT
  <2>3. b \in FreeFds(one)
    BY <2>2 DEF NewFd, Supply
  <2> QED
    BY <1>3, <1>5, <2>1, <2>3 DEF FreeFds
<1> HIDE DEF b
<1>7. /\ t \in Polls
      /\ t.fd[a] = f /\ t.fd[b] = f
      /\ \A d \in Fds : d # a /\ d # b => t.fd[d] = s.fd[d]
      /\ t.heap = s.heap /\ t.events = s.events /\ t.reg = s.reg /\ t.mutex = s.mutex /\ t.on = s.on
  BY <1>1, <1>2, <1>3, <1>4, <1>5, <1>6, ZenonT(30) DEF Polls
<1> HIDE DEF t
<1>8. \A c : Live(t, c) <=> Live(s, c)
  BY <1>7 DEF Live
<1>9. Owned(t, out \cup {a, b})
  <2>1. ASSUME NEW c \in Addresses, Live(s, c)
        PROVE  /\ s.heap[c].fd \in Fds /\ s.fd[s.heap[c].fd] # 0
               /\ s.heap[c].fd # a /\ s.heap[c].fd # b
    BY <1>1, <1>3, <1>6, <2>1, EventTypes DEF Owned
  <2>2. ASSUME NEW c \in Addresses, Live(t, c)
        PROVE  t.fd[t.heap[c].fd] # 0 /\ t.heap[c].fd \notin out \cup {a, b}
    BY <1>1, <1>7, <1>8, <2>1, <2>2, SMT DEF Owned
  <2>3. ASSUME NEW d \in out \cup {a, b} PROVE t.fd[d] # 0
    BY <1>1, <1>5, <1>7, <2>3 DEF Owned
  <2> QED
    BY <1>1, <1>7, <1>8, <2>2, <2>3 DEF Owned
<1>10. Filed(t, busy)
  BY <1>1, <1>7, <1>8 DEF Filed
<1>11. Watched(t, late, held)
  <2>1. ASSUME NEW r \in t.reg
        PROVE  (Current(t, r) /\ r.fd \notin late) \/ Stale(t, r)
    <3>1. r \in s.reg /\ r.fd \in Fds /\ r.file # f /\ r.file \in Fds
      BY <1>1, <1>4, <1>7, EventTypes
    <3>2. CASE Current(s, r) /\ r.fd \notin late
      <4>1. r.fd # a /\ r.fd # b
        BY <1>1, <1>2, <1>3, <1>6, <3>1, <3>2 DEF Current
      <4> QED
        BY <1>7, <1>8, <3>1, <3>2, <4>1 DEF Current
    <3>3. CASE Stale(s, r)
      <4>1. r.file # t.fd[r.fd]
        BY <1>7, <3>1, <3>3 DEF Stale
      <4>2. PICK d \in Fds : s.fd[d] = r.file
        BY <3>3 DEF Stale
      <4>3. t.fd[d] = r.file
        BY <1>2, <1>3, <1>6, <1>7, <3>1, <4>2
      <4> QED
        BY <1>8, <3>3, <4>1, <4>3 DEF Stale
    <3> QED
      BY <1>1, <3>1, <3>2, <3>3 DEF Watched
  <2> QED
    BY <1>1, <1>7, <1>8, <2>1 DEF Watched
<1>12. Notifier(t)
  <2>1. f # YieldFile /\ YieldFd \in Fds /\ s.fd[YieldFd] = YieldFile
    BY <1>1, <1>4, PollAssumption, SMT DEF Notifier, YieldFd
  <2>2. 0 # YieldFile
    BY SMT DEF YieldFile
  <2>3. \A d \in Fds : t.fd[d] = YieldFile <=> d = YieldFd
    BY <1>1, <1>3, <1>6, <1>7, <2>1, <2>2 DEF Notifier
  <2> QED
    BY <1>1, <1>7, <1>8, <2>3 DEF Notifier
<1>13. SocketPair(s) = [s |-> t, first |-> a, second |-> b]
  BY DEF SocketPair, t, a, b, f
<1> QED
  BY <1>1, <1>3, <1>6, <1>7, <1>9, <1>10, <1>11, <1>12, <1>13, SMT DEF PollInv, Opened

-----------------------------------------------------------------------------
(* The initial state *)

(* What Device::new leaves in the poll. *)
LEMMA InitPoll ==
  ASSUME Init
  PROVE  PollInv(poll, {1}, {}, {}, {}) /\ ~poll.on
<1> DEFINE evs == FirstEvents
           first(a) == [fd |-> evs[a].fd, file |-> poll.fd[evs[a].fd], event |-> a,
                        oneshot |-> evs[a].oneshot, armed |-> TRUE]
<1>0. /\ IsFiniteSet(Fds) /\ Fds \subseteq Nat \ {0} /\ 1..5 \subseteq Fds
      /\ Addresses \subseteq Nat \ {0} /\ 1..4 \subseteq Addresses
  BY PollAssumption
<1>1. /\ evs[1] = [fd |-> 2, handler |-> "udp", oneshot |-> TRUE, notifier |-> FALSE]
      /\ evs[2] = [fd |-> 3, handler |-> "timer", oneshot |-> TRUE, notifier |-> FALSE]
      /\ evs[3] = [fd |-> 4, handler |-> "api", oneshot |-> TRUE, notifier |-> FALSE]
      /\ evs[4] = [fd |-> 5, handler |-> "yield", oneshot |-> FALSE, notifier |-> TRUE]
      /\ evs[4] = E!new_notifier(YieldFd, "yield")
  BY DEF FirstEvents, E!new_event, E!new_periodic_event, E!new_notifier, UdpFd, TimerFd, ApiFd, YieldFd
<1>2. /\ \A a \in 1..4 : evs[a] \in EventType /\ evs[a].fd = a + 1 /\ evs[a] # E!Free
                         /\ (evs[a].oneshot <=> a # 4)
      /\ \A a \in 1..3 : evs[a].handler # "yield" /\ ~evs[a].notifier /\ evs[a].oneshot
  <2>1. 2 \in Fds /\ 3 \in Fds /\ 4 \in Fds /\ 5 \in Fds
    BY <1>0, SMT
  <2>2. evs[1] \in EventType /\ evs[1].fd = 2 /\ evs[1].oneshot /\ ~evs[1].notifier /\ evs[1].handler # "yield"
    BY ONLY <1>1, <2>1 DEF EventType, Handlers
  <2>3. evs[2] \in EventType /\ evs[2].fd = 3 /\ evs[2].oneshot /\ ~evs[2].notifier /\ evs[2].handler # "yield"
    BY ONLY <1>1, <2>1 DEF EventType, Handlers
  <2>4. evs[3] \in EventType /\ evs[3].fd = 4 /\ evs[3].oneshot /\ ~evs[3].notifier /\ evs[3].handler # "yield"
    BY ONLY <1>1, <2>1 DEF EventType, Handlers
  <2>5. evs[4] \in EventType /\ evs[4].fd = 5 /\ ~evs[4].oneshot
    BY ONLY <1>1, <2>1 DEF EventType, Handlers
  <2>6. E!Free.fd = 0
    BY DEF E!Free
  <2> HIDE DEF evs
  <2>7. \A a \in 1..4 : evs[a] \in EventType /\ evs[a].fd = a + 1 /\ (evs[a].oneshot <=> a # 4)
    BY <2>2, <2>3, <2>4, <2>5, SMT
  <2>8. \A a \in 1..4 : evs[a] # E!Free
    BY <2>6, <2>7, SMT
  <2>9. \A a \in 1..3 : evs[a].handler # "yield" /\ ~evs[a].notifier /\ evs[a].oneshot
    BY <2>2, <2>3, <2>4, SMT
  <2> QED
    BY <2>7, <2>8, <2>9
<1>3. poll = [fd |-> [d \in Fds |-> IF d \in {1, 2} THEN 1 ELSE IF d \in 3..5 THEN d - 1 ELSE 0],
              on |-> FALSE, mutex |-> NoThread,
              heap |-> [a \in Addresses |-> IF a \in 1..4 THEN evs[a] ELSE E!Free],
              events |-> [d \in Fds |-> IF d \in 2..5 THEN d - 1 ELSE 0],
              reg |-> {[fd |-> evs[a].fd,
                        file |-> [d \in Fds |-> IF d \in {1, 2} THEN 1 ELSE IF d \in 3..5 THEN d - 1 ELSE 0][evs[a].fd],
                        event |-> a, oneshot |-> evs[a].oneshot, armed |-> TRUE] : a \in 1..4}]
  BY DEF Init, UdpFd
<1> HIDE DEF evs
<1>4. /\ poll.fd = [d \in Fds |-> IF d \in {1, 2} THEN 1 ELSE IF d \in 3..5 THEN d - 1 ELSE 0]
      /\ poll.on = FALSE /\ poll.mutex = NoThread
      /\ poll.heap = [a \in Addresses |-> IF a \in 1..4 THEN evs[a] ELSE E!Free]
      /\ poll.events = [d \in Fds |-> IF d \in 2..5 THEN d - 1 ELSE 0]
      /\ poll.reg = {[fd |-> evs[a].fd, file |-> poll.fd[evs[a].fd], event |-> a,
                      oneshot |-> evs[a].oneshot, armed |-> TRUE] : a \in 1..4}
  BY <1>3
<1>5. /\ poll.fd \in [Fds -> Fds \cup {0}] /\ poll.events \in [Fds -> Addresses \cup {0}]
      /\ poll.heap \in [Addresses -> EventType \cup {E!Free}]
  BY <1>0, <1>2, <1>4, SMT
<1>6. /\ \A r \in poll.reg : /\ r.event \in 1..4 /\ r.fd = r.event + 1 /\ r.file = poll.fd[r.fd]
                             /\ r.oneshot = evs[r.event].oneshot /\ r.armed
      /\ \A r, q \in poll.reg : r.event = q.event => r = q
      /\ \A a \in 1..4 : \E r \in poll.reg : r.event = a /\ r.armed
  <2>1. poll.reg = {first(a) : a \in 1..4}
    BY <1>4
  <2>2. \A a \in 1..4 : /\ first(a).event = a /\ first(a).fd = a + 1 /\ first(a).armed
                         /\ first(a).file = poll.fd[first(a).fd] /\ first(a).oneshot = evs[a].oneshot
    BY <1>2
  <2> HIDE DEF first
  <2> QED
    BY <2>1, <2>2, SMT
<1>7. poll.reg \subseteq Registrations
  <2>1. ASSUME NEW a \in 1..4
        PROVE  evs[a].fd \in Fds /\ poll.fd[evs[a].fd] \in Fds /\ a \in Addresses /\ evs[a].oneshot \in BOOLEAN
    BY <1>0, <1>2, <1>4, SMT DEF EventType
  <2>2. \A a \in 1..4 : first(a) \in Registrations
    BY <2>1 DEF Registrations
  <2>3. poll.reg = {first(a) : a \in 1..4}
    BY <1>4
  <2> HIDE DEF first
  <2> QED
    BY <2>2, <2>3
<1>8. poll \in Polls
  <2> DEFINE F == poll.fd
             H == poll.heap
             V == poll.events
             R == poll.reg
  <2>1. poll = [fd |-> F, on |-> FALSE, mutex |-> NoThread, heap |-> H, events |-> V, reg |-> R]
    BY <1>3, <1>4
  <2>2. /\ F \in [Fds -> Fds \cup {0}] /\ V \in [Fds -> Addresses \cup {0}]
        /\ H \in [Addresses -> EventType \cup {E!Free}] /\ R \in SUBSET Registrations
    BY <1>5, <1>7
  <2> HIDE DEF F, H, V, R
  <2> QED
    BY <2>1, <2>2 DEF Polls
<1>9. \A a : Live(poll, a) <=> a \in 1..4
  BY <1>0, <1>2, <1>4, SMT DEF Live
<1>10. \A a \in 1..4 : a \in Addresses /\ poll.heap[a] = evs[a] /\ poll.heap[a].fd = a + 1
                       /\ a + 1 \in 2..5 /\ a + 1 \in Fds
  BY <1>0, <1>2, <1>4, SMT
<1>11. Owned(poll, {1})
  BY <1>0, <1>4, <1>9, <1>10, SMT DEF Owned
<1>12. Filed(poll, {})
  <2>1. ASSUME NEW d \in Fds, poll.events[d] # 0
        PROVE  Live(poll, poll.events[d]) /\ poll.heap[poll.events[d]].fd = d
    BY <1>0, <1>4, <1>9, <1>10, <2>1, SMT
  <2>2. ASSUME NEW a \in Addresses, Live(poll, a) PROVE poll.events[poll.heap[a].fd] = a
    BY <1>0, <1>4, <1>9, <1>10, <2>2, SMT
  <2> QED
    BY <2>1, <2>2 DEF Filed
<1>13. Watched(poll, {}, {})
  <2>1. ASSUME NEW r \in poll.reg PROVE Current(poll, r)
    <3>1. Live(poll, r.event) /\ poll.heap[r.event].fd = r.fd
      BY <1>6, <1>9, <1>10, SMT
    <3>2. r.oneshot <=> r.event # YieldAddress
      BY <1>2, <1>6 DEF YieldAddress
    <3> QED
      BY <1>6, <3>1, <3>2 DEF Current
  <2> QED
    BY <1>6, <1>9, <2>1 DEF Watched
<1>14. Notifier(poll)
  <2>1. poll.heap[YieldAddress] = E!new_notifier(YieldFd, "yield")
    BY <1>1, <1>10, SMT DEF YieldAddress
  <2>2. \A a \in Addresses : Live(poll, a) /\ a # YieldAddress =>
          poll.heap[a].handler # "yield" /\ ~poll.heap[a].notifier /\ poll.heap[a].oneshot
    BY <1>2, <1>9, <1>10, SMT DEF YieldAddress
  <2>3. \A d \in Fds : poll.fd[d] = YieldFile <=> d = YieldFd
    BY <1>0, <1>4, SMT DEF YieldFile, YieldFd
  <2> QED
    BY <2>1, <2>2, <2>3 DEF Notifier
<1> QED
  BY <1>0, <1>4, <1>8, <1>11, <1>12, <1>13, <1>14, SMT DEF PollInv

(* The first worker starts with the invariant. *)
LEMMA InitLoop ==
  ASSUME Init
  PROVE  LoopInv
<1>1. /\ backend \in {"epoll", "kqueue"} /\ hup = {} /\ conn = [p \in Peers |-> 0] /\ listen = 1
      /\ work = [w \in Workers |-> Idle]
  BY DEF Init
<1>2. /\ 1 \in Fds /\ 0 \notin Fds /\ 0 \notin Addresses
      /\ Idle \in Threads /\ Idle.at = "wait" /\ Idle.guard = 0
  BY PollAssumption, SMT DEF Idle, Threads, Points
<1>3. work \in [Workers -> Threads] /\ \A w \in Workers : work[w].at = "wait" /\ work[w].guard = 0
  BY <1>1, <1>2
<1>4. Connected = {} /\ conn \in [Peers -> Fds \cup {0}]
  BY <1>1 DEF Connected
<1>5. Out = {1} /\ Busy = {} /\ Late = {} /\ Held = {}
  BY <1>1, <1>2, <1>3, <1>4 DEF Out, Busy, Late, Held, HasOut, HasBusy, HasLate, HasFd
<1>6. PollInv(poll, Out, Busy, Late, Held) /\ ~poll.on
  BY <1>5, InitPoll
<1>7. WorkInv
  BY <1>3 DEF WorkInv, ThreadInv, Apart, HasFd
<1>8. OwnersInv
  BY <1>1, <1>2, <1>3 DEF OwnersInv, HasFd
<1>9. YieldInv
  BY <1>1, <1>3, <1>6, SMT DEF YieldInv, YieldAddress
<1> QED
  BY <1>1, <1>6, <1>7, <1>8, <1>9 DEF LoopInv

-----------------------------------------------------------------------------
(* The calls on the poll.  What each leaves alone: *)

Kept(n, s) == n.heap = s.heap /\ n.events = s.events /\ n.mutex = s.mutex

SameFds(n, s) == n.fd = s.fd

(* No thread is told to yield that was not before. *)
Quiet(n, s) ==
  \A q \in n.reg : q.armed /\ q.event = YieldAddress =>
    \E p \in s.reg : p.armed /\ p.event = YieldAddress

Disabled(n, a) == \A q \in n.reg : q.event = a => ~q.armed

Closed(n, s, D) ==
  /\ Kept(n, s) /\ n.on = s.on /\ n.reg \subseteq s.reg
  /\ \A d \in Fds : n.fd[d] = IF d \in D THEN 0 ELSE s.fd[d]

(* Closing descriptors that no event owns. *)
LEMMA CloseAll ==
  ASSUME NEW s, NEW out, NEW busy, NEW late, NEW held, PollInv(s, out, busy, late, held),
         NEW D, D \subseteq out
  PROVE  LET n == close_all(s, D) IN
         /\ PollInv(n, out \ D, busy, late, held)
         /\ Closed(n, s, D)
<1> DEFINE n == close_all(s, D)
<1>0. /\ s \in Polls /\ out \subseteq Fds
      /\ Owned(s, out) /\ Filed(s, busy) /\ Watched(s, late, held) /\ Notifier(s)
      /\ s.fd \in [Fds -> Fds \cup {0}] /\ s.reg \subseteq Registrations
      /\ s.heap \in [Addresses -> EventType \cup {E!Free}]
      /\ s.events \in [Fds -> Addresses \cup {0}]
      /\ 0 \notin Fds /\ YieldFd \in Fds /\ YieldAddress \in Addresses
      /\ s.fd[YieldFd] = YieldFile /\ YieldFile # 0
      /\ Live(s, YieldAddress) /\ s.heap[YieldAddress].fd = YieldFd
  BY Parts
<1>1. \A r \in s.reg : Current(s, r) => r.fd \in Fds /\ r.fd \notin D /\ s.fd[r.fd] # 0
  BY <1>0, EventTypes DEF Owned, Current
<1>2. /\ n \in Polls
      /\ n.heap = s.heap /\ n.events = s.events /\ n.mutex = s.mutex /\ n.on = s.on
      /\ n.reg \subseteq s.reg
      /\ \A d \in Fds : n.fd[d] = IF d \in D THEN 0 ELSE s.fd[d]
      /\ \A r \in s.reg : Current(s, r) => r \in n.reg
      /\ \A r \in n.reg : Epolled => \E d \in Fds : n.fd[d] = r.file
  <2>1. CASE Epolled
    <3> DEFINE left == [d \in Fds |-> IF d \in D THEN 0 ELSE s.fd[d]]
               R == {r \in s.reg : \E d \in Fds : left[d] = r.file}
    <3>1. n = [s EXCEPT !.fd = left, !.reg = R]
      BY <2>1 DEF close_all, E!close_all
    <3>2. left \in [Fds -> Fds \cup {0}] /\ R \subseteq Registrations /\ R \subseteq s.reg
      BY <1>0
    <3>3. /\ n \in Polls /\ n.fd = left /\ n.reg = R
          /\ n.heap = s.heap /\ n.events = s.events /\ n.mutex = s.mutex /\ n.on = s.on
      BY <3>1, <3>2, <1>0 DEF Polls
    <3>4. \A r \in s.reg : Current(s, r) => r \in R
      BY <1>1 DEF Current
    <3> QED
      BY <3>2, <3>3, <3>4
  <2>2. CASE ~Epolled
    <3> DEFINE left == [d \in Fds |-> IF d \in D THEN 0 ELSE s.fd[d]]
               R == {r \in s.reg : r.fd \notin D}
    <3>1. n = [s EXCEPT !.fd = left, !.reg = R]
      BY <2>2, <1>0 DEF close_all, K!close_all, Polls
    <3>2. left \in [Fds -> Fds \cup {0}] /\ R \subseteq Registrations /\ R \subseteq s.reg
      BY <1>0
    <3>3. /\ n \in Polls /\ n.fd = left /\ n.reg = R
          /\ n.heap = s.heap /\ n.events = s.events /\ n.mutex = s.mutex /\ n.on = s.on
      BY <3>1, <3>2, <1>0, ZenonT(30) DEF Polls
    <3>4. \A r \in s.reg : Current(s, r) => r \in R
      BY <1>1
    <3> QED
      BY <2>2, <3>2, <3>3, <3>4
  <2> QED
    BY <2>1, <2>2
<1> HIDE DEF n
<1>3. \A a : Live(n, a) <=> Live(s, a)
  BY <1>2 DEF Live
<1>4. Owned(n, out \ D)
  <2>1. ASSUME NEW a \in Addresses, Live(n, a)
        PROVE  n.fd[n.heap[a].fd] # 0 /\ n.heap[a].fd \notin out \ D
    BY <1>2, <1>3, <2>1, <1>0, EventTypes, SMT DEF Owned
  <2>2. ASSUME NEW d \in out \ D PROVE n.fd[d] # 0
    BY <1>2, <2>2, <1>0 DEF Owned
  <2> QED
    BY <1>2, <1>3, <2>1, <2>2, <1>0 DEF Owned
<1>5. Filed(n, busy)
  BY <1>2, <1>3, <1>0, ZenonT(30) DEF Filed
<1>6. Watched(n, late, held)
  <2>1. ASSUME NEW r \in n.reg
        PROVE  (Current(n, r) /\ r.fd \notin late) \/ Stale(n, r)
    <3>1. CASE Current(s, r) /\ r.fd \notin late
      BY <1>1, <1>2, <1>3, <3>1, SMT DEF Current
    <3>2. CASE Stale(s, r)
      <4>1. r.file # n.fd[r.fd]
        BY <1>2, <3>2, <1>0, EventTypes, SMT DEF Stale
      <4> QED
        BY <1>2, <1>3, <3>2, <4>1 DEF Stale
    <3> QED
      BY <1>2, <3>1, <3>2, <1>0 DEF Watched
  <2>2. ASSUME NEW a \in Addresses, Live(n, a), n.heap[a].fd \notin late
        PROVE  \E r \in n.reg : r.event = a /\ (r.armed \/ a = YieldAddress \/ a \in held)
    <3>1. PICK r \in s.reg : r.event = a /\ (r.armed \/ a = YieldAddress \/ a \in held)
      BY <1>2, <1>3, <2>2, <1>0 DEF Watched
    <3>2. Current(s, r)
      BY <1>3, <2>2, <3>1, <1>0 DEF Watched, Stale
    <3> QED
      BY <1>2, <3>1, <3>2
  <2> QED
    BY <1>2, <1>3, <2>1, <2>2, <1>0 DEF Watched
<1>7. Notifier(n)
  <2>1. YieldFd \notin D
    BY <1>0 DEF Owned
  <2>2. \A d \in Fds : n.fd[d] = YieldFile <=> d = YieldFd
    BY <1>2, <2>1, <1>0, ZenonT(30) DEF Notifier
  <2> QED
    BY <1>2, <1>3, <2>2, <1>0, ZenonT(30) DEF Notifier
<1> QED
  BY <1>2, <1>4, <1>5, <1>6, <1>7, <1>0 DEF PollInv, Kept, Closed, n

(* A call that leaves the descriptors, the events and the table alone. *)
LEMMA Frame ==
  ASSUME NEW s, NEW out, NEW busy, NEW late, NEW held, PollInv(s, out, busy, late, held),
         NEW n \in Polls, n.fd = s.fd, n.heap = s.heap, n.events = s.events
  PROVE  /\ \A a : Live(n, a) <=> Live(s, a)
         /\ \A r : (Current(n, r) <=> Current(s, r)) /\ (Stale(n, r) <=> Stale(s, r))
         /\ \A h : Watched(n, late, h) => PollInv(n, out, busy, late, h)
<1>1. \A a : Live(n, a) <=> Live(s, a)
  BY DEF Live
<1>2. \A r : (Current(n, r) <=> Current(s, r)) /\ (Stale(n, r) <=> Stale(s, r))
  BY <1>1 DEF Current, Stale
<1>3. Owned(s, out) /\ Filed(s, busy) /\ Notifier(s) /\ out \subseteq Fds
  BY DEF PollInv
<1>4. Owned(n, out)
  BY <1>1, <1>3 DEF Owned
<1>5. Filed(n, busy)
  BY <1>1, <1>3 DEF Filed
<1>6. Notifier(n)
  BY <1>1, <1>3 DEF Notifier
<1> QED
  BY <1>1, <1>2, <1>3, <1>4, <1>5, <1>6 DEF PollInv

(* A thread gets the event of a registration that is enabled.  Only the    *)
(* notification can be with another thread already.                        *)
LEMMA WaitCall ==
  ASSUME NEW s, NEW out, NEW busy, NEW late, NEW held, PollInv(s, out, busy, late, held),
         NEW r \in s.reg, r.armed
  PROVE  LET n == wait(s, r) IN
         /\ PollInv(n, out, busy, late, held \cup {r.event})
         /\ Kept(n, s) /\ SameFds(n, s) /\ n.on = s.on /\ Quiet(n, s)
         /\ Live(s, r.event) /\ s.heap[r.event].fd = r.fd /\ r.fd \notin late
         /\ r.file = s.fd[r.fd]
         /\ r.event \in held => r.event = YieldAddress
<1> DEFINE q == [r EXCEPT !.armed = ~r.oneshot]
           R == (s.reg \ {r}) \cup {q}
           n == [s EXCEPT !.reg = R]
<1>0. s \in Polls /\ Watched(s, late, held) /\ s.reg \subseteq Registrations
  BY Parts
<1>1. wait(s, r) = n
  BY DEF wait, E!wait, K!wait
<1>2. /\ q \in Registrations /\ q.fd = r.fd /\ q.file = r.file /\ q.event = r.event
      /\ q.oneshot = r.oneshot /\ q.armed = ~r.oneshot
  BY <1>0 DEF Registrations
<1>3. /\ n \in Polls /\ n.reg = R /\ n.fd = s.fd /\ n.heap = s.heap /\ n.events = s.events
      /\ n.mutex = s.mutex /\ n.on = s.on
  BY <1>0, <1>2 DEF Polls
<1> HIDE DEF q, n
<1>4. Current(s, r) /\ r.fd \notin late
  BY <1>0 DEF Watched, Stale
<1>5. /\ Live(s, r.event) /\ s.heap[r.event].fd = r.fd /\ r.file = s.fd[r.fd]
      /\ r.oneshot <=> r.event # YieldAddress
  BY <1>4 DEF Current
<1>6. r.event \in held => r.event = YieldAddress
  BY <1>0, <1>5 DEF Watched
<1>7. /\ \A a : Live(n, a) <=> Live(s, a)
      /\ \A x : (Current(n, x) <=> Current(s, x)) /\ (Stale(n, x) <=> Stale(s, x))
      /\ \A h : Watched(n, late, h) => PollInv(n, out, busy, late, h)
  BY <1>3, Frame
<1>8. \A x \in s.reg : x.event = r.event => x = r
  BY <1>0, <1>5 DEF Watched
<1>9. Watched(n, late, held \cup {r.event})
  <2>1. ASSUME NEW x \in R PROVE (Current(n, x) /\ x.fd \notin late) \/ Stale(n, x)
    <3>1. CASE x = q
      <4>1. Current(s, q)
        BY <1>2, <1>5, <1>4 DEF Current
      <4> QED
        BY <1>2, <1>4, <1>7, <3>1, <4>1
    <3>2. CASE x \in s.reg
      BY <1>0, <1>7, <3>2 DEF Watched
    <3> QED
      BY <3>1, <3>2
  <2>2. ASSUME NEW x \in R, NEW y \in R, Live(n, x.event), x.event = y.event PROVE x = y
    BY <1>0, <1>2, <1>7, <1>8, <2>2, SMT DEF Watched
  <2>3. ASSUME NEW x \in R, x.event \in held \cup {r.event}, x.oneshot PROVE ~x.armed
    BY <1>0, <1>2, <1>8, <2>3, ZenonT(30) DEF Watched
  <2>4. ASSUME NEW a \in Addresses, Live(n, a), n.heap[a].fd \notin late
        PROVE  \E x \in R : x.event = a /\ (x.armed \/ a = YieldAddress \/ a \in held \cup {r.event})
    <3>1. CASE a = r.event
      BY <1>2, <3>1
    <3>2. CASE a # r.event
      BY <1>0, <1>3, <1>7, <2>4, <3>2 DEF Watched
    <3> QED
      BY <3>1, <3>2
  <2> HIDE DEF R
  <2> QED
    BY <1>3, <2>1, <2>2, <2>3, <2>4 DEF Watched
<1>10. ASSUME NEW x \in R, x.armed, x.event = YieldAddress
       PROVE  \E p \in s.reg : p.armed /\ p.event = YieldAddress
  BY <1>2, <1>10
<1> QED
  <2> HIDE DEF R
  <2> QED
    BY <1>1, <1>3, <1>4, <1>5, <1>6, <1>7, <1>9, <1>10 DEF Kept, SameFds, Quiet

(* A thread that had a, or none, gives it up; only of the notification can *)
(* another thread have it still.                                           *)
GivesUp(held, left, a) ==
  left \subseteq held /\ held \ {a} \subseteq left /\ (a \in left => a = YieldAddress)

Rearmed(s, a, b, o) ==
  [s EXCEPT !.on = o,
            !.reg = {IF r.event = a THEN [r EXCEPT !.armed = b] ELSE r : r \in s.reg}]

(* Enabling or disabling the registration of one event: a thread that had  *)
(* it may give it up, and the notification may be disabled as well.        *)
LEMMA Rearm ==
  ASSUME NEW s, NEW out, NEW busy, NEW late, NEW held, PollInv(s, out, busy, late, held),
         NEW a, Live(s, a), NEW b \in BOOLEAN, NEW o \in BOOLEAN,
         NEW left, GivesUp(held, left, a), b = TRUE \/ a = YieldAddress
  PROVE  LET n == Rearmed(s, a, b, o) IN
         /\ PollInv(n, out, busy, late, left)
         /\ Kept(n, s) /\ SameFds(n, s)
         /\ a # YieldAddress => Quiet(n, s)
         /\ b = FALSE => Disabled(n, a)
<1> DEFINE Set(r) == IF r.event = a THEN [r EXCEPT !.armed = b] ELSE r
           R == {Set(r) : r \in s.reg}
           n == Rearmed(s, a, b, o)
<1>0. /\ s \in Polls /\ Watched(s, late, held) /\ s.reg \subseteq Registrations
      /\ left \subseteq held /\ held \ {a} \subseteq left /\ (a \in left => a = YieldAddress)
  BY Parts DEF GivesUp
<1>1. \A r \in s.reg :
        /\ Set(r) \in Registrations /\ Set(r).fd = r.fd /\ Set(r).file = r.file
        /\ Set(r).event = r.event /\ Set(r).oneshot = r.oneshot
        /\ Set(r).armed = IF r.event = a THEN b ELSE r.armed
        /\ r.event # a => Set(r) = r
  BY <1>0 DEF Registrations
<1>2. R \subseteq Registrations
  BY <1>1
<1>3. /\ n \in Polls /\ n.reg = R /\ n.fd = s.fd /\ n.heap = s.heap /\ n.events = s.events
      /\ n.mutex = s.mutex /\ n.on = o
  BY <1>0, <1>2 DEF Polls, Rearmed
<1> HIDE DEF Set, n
<1>4. /\ \A x : Live(n, x) <=> Live(s, x)
      /\ \A x : (Current(n, x) <=> Current(s, x)) /\ (Stale(n, x) <=> Stale(s, x))
      /\ \A h : Watched(n, late, h) => PollInv(n, out, busy, late, h)
  BY ONLY PollInv(s, out, busy, late, held), <1>3, Frame, Zenon
<1>5. Watched(n, late, left)
  <2>1. ASSUME NEW x \in R PROVE (Current(n, x) /\ x.fd \notin late) \/ Stale(n, x)
    <3>1. PICK r \in s.reg : x = Set(r)
      BY <2>1
    <3>2. CASE Current(s, r) /\ r.fd \notin late
      <4>1. Current(s, x)
        BY <1>1, <3>1, <3>2 DEF Current
      <4> QED
        BY <1>1, <1>4, <3>1, <3>2, <4>1
    <3>3. CASE Stale(s, r)
      <4>1. r.event # a
        BY <3>3 DEF Stale
      <4> QED
        BY <1>1, <1>4, <3>1, <3>3, <4>1
    <3> QED
      BY <1>0, <3>2, <3>3 DEF Watched
  <2>2. ASSUME NEW x \in R, NEW y \in R, Live(n, x.event), x.event = y.event PROVE x = y
    <3>1. PICK r \in s.reg : x = Set(r)
      BY <2>2
    <3>2. PICK q \in s.reg : y = Set(q)
      BY <2>2
    <3>3. r.event = q.event /\ Live(s, r.event)
      BY <1>1, <1>4, <2>2, <3>1, <3>2
    <3> QED
      BY <1>0, <3>1, <3>2, <3>3 DEF Watched
  <2>3. ASSUME NEW x \in R, x.event \in left, x.oneshot PROVE ~x.armed
    <3>1. PICK r \in s.reg : x = Set(r)
      BY <2>3
    <3>2. r.event \in left /\ r.event \in held /\ r.oneshot
      BY <1>0, <1>1, <2>3, <3>1
    <3>3. r.event # YieldAddress
      BY <1>0, <3>2, Parts, SMT DEF Watched, Current, Stale
    <3>4. r.event # a /\ ~r.armed
      BY <1>0, <3>2, <3>3 DEF Watched
    <3> QED
      BY <1>1, <3>1, <3>4
  <2>4. ASSUME NEW c \in Addresses, Live(n, c), n.heap[c].fd \notin late
        PROVE  \E x \in R : x.event = c /\ (x.armed \/ c = YieldAddress \/ c \in left)
    <3>1. PICK r \in s.reg : r.event = c /\ (r.armed \/ c = YieldAddress \/ c \in held)
      BY <1>0, <1>3, <1>4, <2>4 DEF Watched
    <3>2. Set(r) \in R /\ Set(r).event = c
      BY <1>1, <3>1
    <3>3. Set(r).armed \/ c = YieldAddress \/ c \in left
      <4>1. CASE c = a
        BY <1>1, <3>1, <4>1
      <4>2. CASE c # a
        BY <1>0, <1>1, <3>1, <4>2
      <4> QED
        BY <4>1, <4>2
    <3> QED
      BY <3>2, <3>3
  <2> HIDE DEF R
  <2> QED
    BY <1>3, <2>1, <2>2, <2>3, <2>4 DEF Watched
<1>6. ASSUME NEW q \in R, q.armed
      PROVE  /\ q.event = YieldAddress =>
                  a = YieldAddress \/ \E p \in s.reg : p.armed /\ p.event = YieldAddress
             /\ q.event = a => b # FALSE
  <2>1. PICK r \in s.reg : q = Set(r)
    BY <1>6
  <2> QED
    BY <1>1, <1>6, <2>1, ZenonT(30)
<1>7. Kept(n, s) /\ SameFds(n, s)
  BY <1>3 DEF Kept, SameFds
<1>8. a # YieldAddress => Quiet(n, s)
  BY <1>3, <1>6 DEF Quiet
<1>9. b = FALSE => Disabled(n, a)
  BY <1>3, <1>6, ZenonT(30) DEF Disabled
<1> QED
  BY <1>4, <1>5, <1>7, <1>8, <1>9 DEF n

(* The registrations that a call on the descriptor of a live event is      *)
(* about are those of the event.                                           *)
LEMMA WatchedBy ==
  ASSUME NEW s, NEW out, NEW busy, NEW late, NEW held, PollInv(s, out, busy, late, held),
         NEW a, Live(s, a)
  PROVE  LET d == s.heap[a].fd IN
         /\ d \in Fds
         /\ Epolled => \A r \in s.reg : E!Watches(s, r, d) <=> r.event = a
         /\ ~Epolled => \A r \in s.reg : r.fd = d <=> r.event = a
<1> DEFINE d == s.heap[a].fd
<1>0. s \in Polls /\ Watched(s, late, held) /\ Owned(s, out)
  BY Parts
<1>1. d \in Fds /\ a \in Addresses
  BY <1>0, EventTypes
<1>2. s.fd[d] # 0
  BY <1>0, <1>1 DEF Owned
<1>3. ASSUME NEW r \in s.reg, r.event = a PROVE r.fd = d /\ r.file = s.fd[d]
  BY <1>0, <1>3 DEF Watched, Current, Stale
<1>4. ASSUME NEW r \in s.reg, r.fd = d, ~Epolled \/ r.file = s.fd[d] PROVE r.event = a
  <2>1. r.fd = s.heap[a].fd /\ (~Epolled \/ r.file = s.fd[r.fd])
    BY <1>4
  <2> QED
    BY <1>4, <2>1, WatchesEvent, SMT
<1> QED
  BY <1>1, <1>2, <1>3, <1>4 DEF E!Watches

(* EventGuard::drop enables the event that the thread had. *)
LEMMA GuardDropCall ==
  ASSUME NEW s, NEW out, NEW busy, NEW late, NEW held, PollInv(s, out, busy, late, held),
         NEW a, Live(s, a), NEW left, GivesUp(held, left, a)
  PROVE  LET n == guard_drop(s, a) IN
         /\ PollInv(n, out, busy, late, left)
         /\ Kept(n, s) /\ SameFds(n, s) /\ n.on = s.on
         /\ a # YieldAddress => Quiet(n, s)
<1> DEFINE d == s.heap[a].fd
           W(r) == IF Epolled THEN E!Watches(s, r, d) ELSE r.fd = d
           n == guard_drop(s, a)
           R == {IF r.event = a THEN [r EXCEPT !.armed = TRUE] ELSE r : r \in s.reg}
<1>0. s \in Polls /\ s.reg \subseteq Registrations /\ s.on \in BOOLEAN
  BY Parts, Types
<1>1. \A r \in s.reg : W(r) <=> r.event = a
  BY WatchedBy, SMT
<1>2. n = [s EXCEPT !.reg = {IF W(r) THEN [r EXCEPT !.event = a, !.armed = TRUE] ELSE r : r \in s.reg}]
  BY <1>0, ZenonT(30) DEF guard_drop, E!guard_drop, K!guard_drop, E!CtlMod, K!EvEnable, Polls
<1> HIDE DEF W, n
<1>3. \A r \in s.reg : (IF W(r) THEN [r EXCEPT !.event = a, !.armed = TRUE] ELSE r)
                         = IF r.event = a THEN [r EXCEPT !.armed = TRUE] ELSE r
  BY <1>0, <1>1 DEF Registrations
<1>4. {IF W(r) THEN [r EXCEPT !.event = a, !.armed = TRUE] ELSE r : r \in s.reg} = R
  BY <1>3, ZenonT(30)
<1>5. n = Rearmed(s, a, TRUE, s.on)
  BY <1>0, <1>2, <1>4, ZenonT(30) DEF Polls, Rearmed
<1>6. n.on = s.on
  BY <1>0, <1>5 DEF Polls, Rearmed
<1>7. LET m == Rearmed(s, a, TRUE, s.on) IN
      /\ PollInv(m, out, busy, late, left)
      /\ Kept(m, s) /\ SameFds(m, s) /\ (a # YieldAddress => Quiet(m, s))
  BY <1>0, Rearm
<1> QED
  BY <1>5, <1>6, <1>7 DEF n

(* try_writeable's two calls on the notification.  Once it is stopped no   *)
(* thread is told to yield.                                                *)
LEMMA NotifyCalls ==
  ASSUME NEW s, NEW out, NEW busy, NEW late, NEW held, PollInv(s, out, busy, late, held),
         YieldFd \notin busy
  PROVE  /\ LET n == trigger_notification(s, YieldFd) IN
            /\ PollInv(n, out, busy, late, held)
            /\ Kept(n, s) /\ SameFds(n, s)
         /\ LET n == stop_notification(s, YieldFd) IN
            /\ PollInv(n, out, busy, late, held)
            /\ Kept(n, s) /\ SameFds(n, s)
            /\ Disabled(n, YieldAddress) \/ ~n.on
            /\ Epolled => n.reg = s.reg
<1>0. /\ s \in Polls /\ s.reg \subseteq Registrations /\ s.on \in BOOLEAN
      /\ Filed(s, busy) /\ Watched(s, late, held) /\ Live(s, YieldAddress)
      /\ s.heap[YieldAddress].fd = YieldFd /\ YieldAddress \in Addresses
  BY Parts, Types
<1>1. s.events[YieldFd] = YieldAddress
  BY <1>0 DEF Filed
<1>2. ASSUME Epolled, NEW o \in BOOLEAN, NEW n, n = [s EXCEPT !.on = o]
      PROVE  /\ PollInv(n, out, busy, late, held) /\ n.on = o /\ n.reg = s.reg
             /\ Kept(n, s) /\ SameFds(n, s)
  <2>1. /\ n \in Polls /\ n.reg = s.reg /\ n.on = o
        /\ n.fd = s.fd /\ n.heap = s.heap /\ n.events = s.events /\ n.mutex = s.mutex
    BY <1>0, <1>2 DEF Polls
  <2>2. /\ \A x : Live(n, x) <=> Live(s, x)
        /\ \A x : (Current(n, x) <=> Current(s, x)) /\ (Stale(n, x) <=> Stale(s, x))
        /\ \A h : Watched(n, late, h) => PollInv(n, out, busy, late, h)
    BY ONLY PollInv(s, out, busy, late, held), <2>1, Frame, Zenon
  <2>3. Watched(n, late, held)
    BY ONLY <1>0, <2>1, <2>2, Zenon DEF Watched
  <2> QED
    BY ONLY <2>1, <2>2, <2>3, Zenon DEF Kept, SameFds
<1>3. ASSUME ~Epolled, NEW b \in BOOLEAN
      PROVE  {IF r.fd = YieldFd THEN [r EXCEPT !.event = s.events[YieldFd], !.armed = b] ELSE r : r \in s.reg}
               = {IF r.event = YieldAddress THEN [r EXCEPT !.armed = b] ELSE r : r \in s.reg}
  <2>1. \A r \in s.reg : r.fd = YieldFd <=> r.event = YieldAddress
    BY <1>0, <1>3, WatchedBy, SMT
  <2>2. \A r \in s.reg :
          (IF r.fd = YieldFd THEN [r EXCEPT !.event = s.events[YieldFd], !.armed = b] ELSE r)
            = IF r.event = YieldAddress THEN [r EXCEPT !.armed = b] ELSE r
    BY <1>0, <1>1, <2>1 DEF Registrations
  <2> QED
    BY <2>2, ZenonT(30)
<1>4. CASE Epolled
  <2>1. /\ trigger_notification(s, YieldFd) = [s EXCEPT !.on = TRUE]
        /\ stop_notification(s, YieldFd) = [s EXCEPT !.on = FALSE]
    BY <1>4 DEF trigger_notification, stop_notification, E!trigger_notification, E!stop_notification
  <2> QED
    BY <1>2, <1>4, <2>1, ZenonT(30)
<1>5. CASE ~Epolled
  <2>1. trigger_notification(s, YieldFd) = Rearmed(s, YieldAddress, TRUE, TRUE)
    BY <1>0, <1>3, <1>5, ZenonT(30) DEF trigger_notification, K!trigger_notification, K!EvEnable, Polls, Rearmed
  <2>2. stop_notification(s, YieldFd) = Rearmed(s, YieldAddress, FALSE, s.on)
    BY <1>0, <1>3, <1>5, ZenonT(30) DEF stop_notification, K!stop_notification, K!EvEnable, Polls, Rearmed
  <2>3. GivesUp(held, held, YieldAddress)
    BY DEF GivesUp
  <2>4. LET m == Rearmed(s, YieldAddress, TRUE, TRUE) IN
        PollInv(m, out, busy, late, held) /\ Kept(m, s) /\ SameFds(m, s)
    BY <1>0, <2>3, Rearm
  <2>5. LET m == Rearmed(s, YieldAddress, FALSE, s.on) IN
        PollInv(m, out, busy, late, held) /\ Kept(m, s) /\ SameFds(m, s) /\ Disabled(m, YieldAddress)
    BY <1>0, <2>3, Rearm
  <2> QED
    BY <1>5, <2>1, <2>2, <2>4, <2>5
<1> QED
  BY <1>4, <1>5

(* An address that nothing refers to. *)
Unused(s, held, a) ==
  a \in Addresses /\ s.heap[a] = E!Free /\ (\A r \in s.reg : r.event # a) /\ a \notin held

Adds(n, s, d, h, a) == n.fd = s.fd /\ n.heap = [s.heap EXCEPT ![a] = E!new_event(d, h)]

Added(n, s, out, d, a) ==
  /\ a \in Addresses /\ a # YieldAddress /\ d # YieldFd /\ d \in Fds /\ s.events[d] = 0
  /\ \A x : Live(n, x) <=> Live(s, x) \/ x = a
  /\ \A x \in Addresses : x # a => n.heap[x] = s.heap[x]
  /\ n.heap[a].fd = d /\ n.heap[a].oneshot
  /\ ~Live(s, a) /\ \A x \in Addresses : Live(s, x) => s.heap[x].fd # d
  /\ Owned(n, out \ {d}) /\ Notifier(n)
  /\ \A r \in s.reg : /\ r.event # a
                      /\ Current(s, r) => Current(n, r) /\ r.fd # d
                      /\ Stale(s, r) => Stale(n, r)

(* A new event on a descriptor of which the caller was the owner. *)
LEMMA NewEvent ==
  ASSUME NEW s, NEW out, NEW busy, NEW late, NEW held, PollInv(s, out, busy, late, held),
         NEW d \in out, NEW h \in {"conn", "udp"}, NEW a, Unused(s, held, a),
         NEW n \in Polls, Adds(n, s, d, h, a)
  PROVE  Added(n, s, out, d, a)
<1>0. /\ s \in Polls /\ out \subseteq Fds
      /\ Owned(s, out) /\ Filed(s, busy) /\ Notifier(s)
      /\ s.heap \in [Addresses -> EventType \cup {E!Free}]
      /\ s.events \in [Fds -> Addresses \cup {0}]
      /\ 0 \notin Fds /\ YieldFd \in Fds /\ YieldAddress \in Addresses
      /\ Live(s, YieldAddress) /\ s.heap[YieldAddress].fd = YieldFd
      /\ a \in Addresses /\ ~Live(s, a) /\ \A r \in s.reg : r.event # a
  BY Parts DEF Unused, Live
<1>10. n.fd = s.fd /\ n.heap = [s.heap EXCEPT ![a] = E!new_event(d, h)]
  BY DEF Adds
<1>1. \A x \in Addresses : Live(s, x) => s.heap[x].fd # d
  BY <1>0 DEF Owned
<1>2. a # YieldAddress /\ d # YieldFd /\ d \in Fds
  BY <1>0, <1>1
<1>3. s.events[d] = 0
  BY <1>0, <1>1, <1>2 DEF Filed, Live
<1>4. /\ \A x \in Addresses : x # a => n.heap[x] = s.heap[x]
      /\ n.heap[a] = E!new_event(d, h)
  BY <1>0, <1>10, ZenonT(30)
<1>5. /\ n.heap[a].fd = d /\ n.heap[a].oneshot /\ ~n.heap[a].notifier /\ n.heap[a].handler = h
      /\ n.heap[a] # E!Free /\ h # "yield"
  BY <1>4, SMT DEF E!new_event, E!Free
<1>6. \A x : Live(n, x) <=> Live(s, x) \/ x = a
  BY <1>0, <1>4, <1>5 DEF Live
<1>7. Owned(n, out \ {d})
  <2>1. ASSUME NEW x \in Addresses, Live(n, x)
        PROVE  n.fd[n.heap[x].fd] # 0 /\ n.heap[x].fd \notin out \ {d}
    <3>1. CASE x = a
      BY <1>0, <1>5, <1>10, <3>1 DEF Owned
    <3>2. CASE x # a
      BY <1>0, <1>4, <1>6, <1>10, <2>1, <3>2 DEF Owned
    <3> QED
      BY <3>1, <3>2
  <2>2. ASSUME NEW x \in Addresses, NEW y \in Addresses, Live(n, x), Live(n, y),
               n.heap[x].fd = n.heap[y].fd
        PROVE  x = y
    <3>1. CASE x = a \/ y = a
      BY <1>1, <1>4, <1>5, <1>6, <2>2, <3>1
    <3>2. CASE x # a /\ y # a
      BY <1>0, <1>4, <1>6, <2>2, <3>2 DEF Owned
    <3> QED
      BY <3>1, <3>2
  <2>3. \A x \in out \ {d} : n.fd[x] # 0
    BY <1>0, <1>10 DEF Owned
  <2> QED
    BY <2>1, <2>2, <2>3 DEF Owned
<1>8. Notifier(n)
  <2>1. ASSUME NEW x \in Addresses, Live(n, x), x # YieldAddress
        PROVE  n.heap[x].handler # "yield" /\ ~n.heap[x].notifier /\ n.heap[x].oneshot
    BY <1>0, <1>4, <1>5, <1>6, <2>1 DEF Notifier
  <2>2. n.heap[YieldAddress] = s.heap[YieldAddress]
    BY <1>0, <1>2, <1>4
  <2> QED
    BY <1>0, <1>10, <2>1, <2>2, ZenonT(30) DEF Notifier
<1>9. ASSUME NEW r \in s.reg
      PROVE  /\ Current(s, r) => Current(n, r) /\ r.fd # d
             /\ Stale(s, r) => Stale(n, r)
  <2>1. r.event # a
    BY <1>0
  <2>2. ASSUME Current(s, r) PROVE Current(n, r) /\ r.fd # d
    <3>1. Live(s, r.event) /\ r.event \in Addresses
      BY <2>2 DEF Current, Live
    <3> QED
      BY <1>1, <1>4, <1>6, <1>10, <2>1, <2>2, <3>1 DEF Current
  <2>3. ASSUME Stale(s, r) PROVE Stale(n, r)
    BY <1>6, <1>10, <2>1, <2>3 DEF Stale
  <2> QED
    BY <2>2, <2>3
<1> QED
  BY <1>0, <1>1, <1>2, <1>3, <1>4, <1>5, <1>6, <1>7, <1>8, <1>9 DEF Added

(* Between the two steps of a registration the event is not in the table   *)
(* (kqueue) or not with the kernel (epoll); between those of a removal     *)
(* kqueue has it in neither.                                               *)
WithE(S, d) == IF Epolled THEN S \cup {d} ELSE S
WithK(S, d) == IF Epolled THEN S ELSE S \cup {d}

Boxes(n, s, t, d, h, a) ==
  /\ SameFds(n, s) /\ n.on = s.on /\ Quiet(n, s)
  /\ n.heap = [s.heap EXCEPT ![a] = E!new_event(d, h)]
  /\ n.events = IF Epolled THEN [s.events EXCEPT ![d] = a] ELSE s.events
  /\ n.mutex = IF Epolled THEN s.mutex ELSE t
  /\ Live(n, a) /\ n.heap[a].fd = d /\ s.events[d] = 0 /\ d # YieldFd

(* The first step of a registration.  The descriptor goes over to the      *)
(* event.                                                                  *)
LEMMA RegisterBeginCall ==
  ASSUME NEW s, NEW out, NEW busy, NEW late, NEW held, PollInv(s, out, busy, late, held),
         NEW d \in out, NEW h \in {"conn", "udp"}, NEW a, Unused(s, held, a),
         NEW t \in Workers, Epolled \/ d \notin late
  PROVE  LET n == RegisterBegin(s, t, E!new_event(d, h), a) IN
         /\ PollInv(n, out \ {d}, WithK(busy, d), WithE(late, d), held)
         /\ Boxes(n, s, t, d, h, a)
<1> DEFINE ev == E!new_event(d, h)
           n == RegisterBegin(s, t, ev, a)
           H == [s.heap EXCEPT ![a] = ev]
           new == [fd |-> d, file |-> s.fd[d], event |-> a, oneshot |-> TRUE, armed |-> TRUE]
           X == IF Epolled THEN [s.events EXCEPT ![d] = a] ELSE s.events
           R == IF Epolled THEN s.reg ELSE s.reg \cup {new}
           M == IF Epolled THEN s.mutex ELSE t
<1>0. /\ s \in Polls /\ out \subseteq Fds
      /\ Owned(s, out) /\ Filed(s, busy) /\ Watched(s, late, held)
      /\ s.fd \in [Fds -> Fds \cup {0}] /\ s.reg \subseteq Registrations
      /\ s.heap \in [Addresses -> EventType \cup {E!Free}]
      /\ s.events \in [Fds -> Addresses \cup {0}]
      /\ a \in Addresses /\ ~Live(s, a) /\ 0 \notin Fds
      /\ s.mutex \in Workers \cup {NoThread} /\ a \notin held
  BY Parts, Types DEF Unused, Live
<1>1. /\ ev \in EventType /\ ev.fd = d /\ ev.oneshot = TRUE /\ d \in Fds
      /\ s.fd[d] \in Fds /\ s.fd[d] # 0
  BY <1>0 DEF Owned, EventType, Handlers, E!new_event
<1>2. \A x \in Addresses : Live(s, x) => s.heap[x].fd # d
  BY <1>0, ZenonT(30) DEF Owned
<1>3. s.events[d] = 0
  BY <1>0, <1>1, <1>2 DEF Filed, Live
<1>4. ~Epolled => {r \in s.reg : r.fd # d} = s.reg
  BY <1>0, <1>2, EventTypes, SMT DEF Watched, Current, Stale
<1>5. n = [s EXCEPT !.heap = H, !.events = X, !.reg = R, !.mutex = M]
  <2>1. CASE Epolled
    BY <1>0, <1>1, <1>3, <2>1 DEF RegisterBegin, E!RegisterBegin, E!insert_at, Polls
  <2>2. CASE ~Epolled
    <3> DEFINE m == [s EXCEPT !.heap[a] = ev]
    <3>1. m = [s EXCEPT !.heap = H] /\ m.heap = H /\ m.fd = s.fd /\ m.reg = s.reg /\ H[a] = ev
      BY <1>0 DEF Polls
    <3>2. K!EvAdd(m, d, a) = [m EXCEPT !.reg = {r \in s.reg : r.fd # d} \cup {new}]
      BY <1>1, <3>1 DEF K!EvAdd
    <3>3. K!EvAdd(m, d, a) = [m EXCEPT !.reg = s.reg \cup {new}]
      BY <1>4, <2>2, <3>2
    <3>4. n = [K!EvAdd(m, d, a) EXCEPT !.mutex = t]
      BY <1>1, <2>2 DEF RegisterBegin, K!RegisterBegin
    <3> QED
      BY <1>0, <2>2, <3>1, <3>3, <3>4 DEF Polls
  <2> QED
    BY <2>1, <2>2
<1>6. H \in [Addresses -> EventType \cup {E!Free}] /\ X \in [Fds -> Addresses \cup {0}]
  BY <1>0, <1>1
<1>7. R \subseteq Registrations /\ M \in Workers \cup {NoThread}
  <2>1. new \in Registrations
    BY <1>0, <1>1 DEF Registrations
  <2> HIDE DEF new
  <2> QED
    BY <1>0, <2>1
<1>8. /\ n \in Polls /\ n.heap = H /\ n.events = X /\ n.reg = R /\ n.mutex = M
      /\ n.fd = s.fd /\ n.on = s.on
  BY <1>0, <1>5, <1>6, <1>7, ZenonT(30) DEF Polls
<1>15. new.event = a /\ new.fd = d /\ new.file = s.fd[d] /\ new.oneshot /\ new.armed
  OBVIOUS
<1> HIDE DEF n, ev, new
<1>9. /\ a \in Addresses /\ a # YieldAddress /\ d # YieldFd
      /\ \A x : Live(n, x) <=> Live(s, x) \/ x = a
      /\ \A x \in Addresses : x # a => n.heap[x] = s.heap[x]
      /\ n.heap[a].fd = d /\ n.heap[a].oneshot
      /\ Owned(n, out \ {d}) /\ Notifier(n)
      /\ \A r \in s.reg : /\ r.event # a
                          /\ Current(s, r) => Current(n, r) /\ r.fd # d
                          /\ Stale(s, r) => Stale(n, r)
  <2>1. Adds(n, s, d, h, a)
    BY <1>8 DEF Adds, ev
  <2>2. Added(n, s, out, d, a)
    BY <1>8, <2>1, NewEvent
  <2> QED
    BY <2>2 DEF Added
<1>10. Filed(n, WithK(busy, d))
  <2>1. ASSUME NEW x \in Fds, X[x] # 0
        PROVE  Live(n, X[x]) /\ n.heap[X[x]].fd = x
    <3>1. CASE Epolled /\ x = d
      BY <1>0, <1>1, <1>9, <3>1
    <3>2. CASE ~(Epolled /\ x = d)
      <4>1. X[x] = s.events[x]
        BY <1>0, <1>1, <3>2
      <4>2. Live(s, s.events[x]) /\ s.heap[s.events[x]].fd = x /\ s.events[x] \in Addresses
        BY <1>0, <2>1, <4>1 DEF Filed, Live
      <4> QED
        BY <1>0, <1>9, <4>1, <4>2
    <3> QED
      BY <3>1, <3>2
  <2>2. ASSUME NEW x \in Addresses, Live(n, x)
        PROVE  X[n.heap[x].fd] = x \/ n.heap[x].fd \in WithK(busy, d)
    <3>1. CASE x = a
      BY <1>0, <1>1, <1>9, <3>1, SMT DEF WithK
    <3>2. CASE x # a
      <4>1. Live(s, x) /\ n.heap[x] = s.heap[x] /\ s.heap[x].fd # d
        BY <1>2, <1>9, <2>2, <3>2
      <4>2. s.heap[x].fd \in Fds
        BY <1>0, <4>1, EventTypes
      <4>3. X[s.heap[x].fd] = s.events[s.heap[x].fd]
        BY <1>0, <4>1, <4>2
      <4> QED
        BY <1>0, <4>1, <4>3 DEF Filed, WithK
    <3> QED
      BY <3>1, <3>2
  <2> HIDE DEF X
  <2> QED
    BY <1>8, <2>1, <2>2 DEF Filed
<1>11. ~Epolled => Current(n, new)
  BY <1>8, <1>9, <1>15 DEF Current
<1>12. Watched(n, WithE(late, d), held)
  <2>1. ASSUME NEW r \in R
        PROVE  (Current(n, r) /\ r.fd \notin WithE(late, d)) \/ Stale(n, r)
    <3>1. CASE r \in s.reg
      BY <1>0, <1>9, <3>1 DEF Watched, WithE
    <3>2. CASE ~Epolled /\ r = new
      BY <1>11, <1>15, <3>2 DEF WithE
    <3> QED
      BY <2>1, <3>1, <3>2
  <2>2. ASSUME NEW r \in R, NEW q \in R, Live(n, r.event), r.event = q.event PROVE r = q
    <3>1. CASE r \in s.reg /\ q \in s.reg
      BY <1>0, <1>9, <2>2, <3>1 DEF Watched
    <3>2. CASE ~(r \in s.reg /\ q \in s.reg)
      BY <1>9, <1>15, <2>2, <3>2
    <3> QED
      BY <3>1, <3>2
  <2>3. ASSUME NEW r \in R, r.event \in held, r.oneshot PROVE ~r.armed
    BY <1>0, <1>15, <2>3 DEF Watched
  <2>4. ASSUME NEW x \in Addresses, Live(n, x), n.heap[x].fd \notin WithE(late, d)
        PROVE  \E r \in R : r.event = x /\ (r.armed \/ x = YieldAddress \/ x \in held)
    <3>1. CASE x = a
      BY <1>9, <1>15, <2>4, <3>1 DEF WithE
    <3>2. CASE x # a
      <4>1. Live(s, x) /\ s.heap[x].fd \notin late
        BY <1>9, <2>4, <3>2 DEF WithE
      <4>2. PICK r \in s.reg : r.event = x /\ (r.armed \/ x = YieldAddress \/ x \in held)
        BY <1>0, <4>1 DEF Watched
      <4> QED
        BY <4>2
    <3> QED
      BY <3>1, <3>2
  <2> HIDE DEF R
  <2> QED
    BY <1>8, <2>1, <2>2, <2>3, <2>4 DEF Watched
<1>13. Quiet(n, s)
  BY <1>8, <1>9, <1>15, SMT DEF Quiet
<1>14. PollInv(n, out \ {d}, WithK(busy, d), WithE(late, d), held)
  BY <1>0, <1>8, <1>9, <1>10, <1>12 DEF PollInv
<1> QED
  BY <1>3, <1>8, <1>9, <1>13, <1>14 DEF SameFds, Boxes, n, ev

Registers(n, s, d, a) ==
  /\ SameFds(n, s) /\ n.heap = s.heap /\ n.on = s.on /\ Quiet(n, s)
  /\ n.events = IF Epolled THEN s.events ELSE [s.events EXCEPT ![d] = a]
  /\ n.mutex = IF Epolled THEN s.mutex ELSE NoThread

(* The second step of a registration. *)
LEMMA RegisterEndCall ==
  ASSUME NEW s, NEW out, NEW busy, NEW late, NEW held, NEW d, NEW a,
         PollInv(s, out, WithK(busy, d), WithE(late, d), held),
         Live(s, a), s.heap[a].fd = d, d # YieldFd,
         Epolled => d \notin late /\ a \notin held, ~Epolled => s.events[d] = 0
  PROVE  LET n == RegisterEnd(s, d, a) IN
         PollInv(n, out, busy, late, held) /\ Registers(n, s, d, a)
<1> DEFINE n == RegisterEnd(s, d, a)
           new == [fd |-> d, file |-> s.fd[d], event |-> a, oneshot |-> s.heap[a].oneshot, armed |-> TRUE]
           X == IF Epolled THEN s.events ELSE [s.events EXCEPT ![d] = a]
           R == IF Epolled THEN s.reg \cup {new} ELSE s.reg
           M == IF Epolled THEN s.mutex ELSE NoThread
<1>0. /\ s \in Polls /\ out \subseteq Fds
      /\ Owned(s, out) /\ Filed(s, WithK(busy, d)) /\ Watched(s, WithE(late, d), held) /\ Notifier(s)
      /\ s.fd \in [Fds -> Fds \cup {0}] /\ s.reg \subseteq Registrations
      /\ s.events \in [Fds -> Addresses \cup {0}]
      /\ s.heap[YieldAddress].fd = YieldFd
      /\ s.mutex \in Workers \cup {NoThread}
  BY Parts, Types
<1>1. a \in Addresses /\ d \in Fds /\ s.heap[a] \in EventType /\ a # YieldAddress
  BY <1>0, EventTypes
<1>2. s.heap[a].oneshot = TRUE /\ s.fd[d] \in Fds
  <2>1. s.heap[a].oneshot /\ s.heap[a].oneshot \in BOOLEAN
    BY <1>0, <1>1 DEF Notifier, EventType
  <2>2. s.fd[d] # 0
    BY <1>0, <1>1 DEF Owned
  <2> QED
    BY <1>0, <1>1, <2>1, <2>2
<1>3. n = [s EXCEPT !.events = X, !.reg = R, !.mutex = M]
  <2>1. CASE Epolled
    BY <1>0, <2>1 DEF RegisterEnd, E!RegisterEnd, E!CtlAdd, Polls
  <2>2. CASE ~Epolled
    BY <1>0, <2>2 DEF RegisterEnd, K!RegisterEnd, Polls
  <2> QED
    BY <2>1, <2>2
<1>4. X \in [Fds -> Addresses \cup {0}] /\ M \in Workers \cup {NoThread}
  BY <1>0, <1>1
<1>5. R \subseteq Registrations
  <2>1. new \in Registrations
    BY <1>1, <1>2 DEF Registrations
  <2> HIDE DEF new
  <2> QED
    BY <1>0, <2>1
<1>6. /\ n \in Polls /\ n.events = X /\ n.reg = R /\ n.mutex = M
      /\ n.fd = s.fd /\ n.heap = s.heap /\ n.on = s.on
  <2> HIDE DEF n, new, X, R, M
  <2> QED
    BY <1>0, <1>3, <1>4, <1>5 DEF Polls
<1>7. new.event = a /\ new.fd = d /\ new.file = s.fd[d] /\ new.oneshot /\ new.armed
  BY <1>2
<1> HIDE DEF n, new
<1>8. \A x : Live(n, x) <=> Live(s, x)
  BY <1>6 DEF Live
<1>9. \A r : (Current(n, r) <=> Current(s, r)) /\ (Stale(n, r) <=> Stale(s, r))
  BY <1>6, <1>8 DEF Current, Stale
<1>10. Owned(n, out) /\ Notifier(n)
  <2>1. Owned(n, out)
    BY <1>0, <1>6, <1>8 DEF Owned
  <2>2. n.fd = s.fd /\ n.heap = s.heap
    BY <1>6
  <2>3. Notifier(n)
    BY ONLY <1>0, <1>8, <2>2, Zenon DEF Notifier
  <2> QED
    BY <2>1, <2>3
<1>11. Filed(n, busy)
  <2>1. ASSUME NEW x \in Fds, X[x] # 0 PROVE Live(s, X[x]) /\ s.heap[X[x]].fd = x
    <3>1. CASE ~Epolled /\ x = d
      BY <1>0, <1>1, <3>1
    <3>2. CASE ~(~Epolled /\ x = d)
      <4>1. X[x] = s.events[x]
        BY <1>0, <1>1, <3>2
      <4> QED
        BY <1>0, <2>1, <4>1 DEF Filed
    <3> QED
      BY <3>1, <3>2
  <2>2. ASSUME NEW x \in Addresses, Live(s, x)
        PROVE  X[s.heap[x].fd] = x \/ s.heap[x].fd \in busy
    <3>1. CASE x = a
      BY <1>0, <1>1, <2>2, <3>1 DEF Filed, WithK
    <3>2. CASE x # a
      <4>1. s.heap[x].fd # d /\ s.heap[x].fd \in Fds
        BY <1>0, <1>1, <2>2, <3>2, EventTypes DEF Owned
      <4>2. X[s.heap[x].fd] = s.events[s.heap[x].fd]
        BY <1>0, <4>1
      <4> QED
        BY <1>0, <2>2, <4>1, <4>2 DEF Filed, WithK
    <3> QED
      BY <3>1, <3>2
  <2> HIDE DEF X
  <2> QED
    BY <1>6, <1>8, <2>1, <2>2 DEF Filed
<1>12. Epolled => \A r \in s.reg : r.event # a
  BY <1>0, SMT DEF Watched, Current, Stale, WithE
<1>13. Current(s, new)
  BY <1>1, <1>7 DEF Current
<1>14. Watched(n, late, held)
  <2>1. ASSUME NEW r \in R PROVE (Current(n, r) /\ r.fd \notin late) \/ Stale(n, r)
    <3>1. CASE r \in s.reg
      BY <1>0, <1>9, <3>1 DEF Watched, WithE
    <3>2. CASE Epolled /\ r = new
      BY <1>7, <1>9, <1>13, <3>2
    <3> QED
      BY <2>1, <3>1, <3>2
  <2>2. ASSUME NEW r \in R, NEW q \in R, Live(n, r.event), r.event = q.event PROVE r = q
    <3>1. CASE r \in s.reg /\ q \in s.reg
      BY <1>0, <1>8, <2>2, <3>1 DEF Watched
    <3>2. CASE ~(r \in s.reg /\ q \in s.reg)
      BY <1>7, <1>12, <2>2, <3>2
    <3> QED
      BY <3>1, <3>2
  <2>3. ASSUME NEW r \in R, r.event \in held, r.oneshot PROVE ~r.armed
    BY <1>0, <1>7, <2>3 DEF Watched
  <2>4. ASSUME NEW x \in Addresses, Live(n, x), n.heap[x].fd \notin late
        PROVE  \E r \in R : r.event = x /\ (r.armed \/ x = YieldAddress \/ x \in held)
    <3>1. CASE Epolled /\ x = a
      BY <1>7, <3>1
    <3>2. CASE ~(Epolled /\ x = a)
      <4>1. Live(s, x) /\ s.heap[x].fd \notin WithE(late, d)
        <5>1. Live(s, x) /\ s.heap[x].fd \notin late
          BY <1>6, <1>8, <2>4
        <5>2. Epolled => s.heap[x].fd # d
          BY <1>0, <1>1, <3>2, <5>1 DEF Owned
        <5> QED
          BY <5>1, <5>2 DEF WithE
      <4>2. PICK r \in s.reg : r.event = x /\ (r.armed \/ x = YieldAddress \/ x \in held)
        BY <1>0, <4>1 DEF Watched
      <4> QED
        BY <4>2
    <3> QED
      BY <3>1, <3>2
  <2> HIDE DEF R
  <2> QED
    BY <1>6, <2>1, <2>2, <2>3, <2>4 DEF Watched
<1>15. Quiet(n, s)
  BY <1>1, <1>6, <1>7 DEF Quiet
<1> QED
  BY <1>0, <1>6, <1>10, <1>11, <1>14, <1>15 DEF PollInv, Registers, SameFds, n

(* An owner may lose a descriptor. *)
LEMMA LessOut ==
  ASSUME NEW s, NEW out, NEW busy, NEW late, NEW held, PollInv(s, out, busy, late, held),
         NEW left, left \subseteq out
  PROVE  PollInv(s, left, busy, late, held)
BY DEF PollInv, Owned

(* Only the events that there are matter among those that threads have. *)
LEMMA LessHeld ==
  ASSUME NEW s, NEW out, NEW busy, NEW late, NEW held, PollInv(s, out, busy, late, held),
         NEW left, left \subseteq held, \A a \in held : Live(s, a) => a \in left
  PROVE  PollInv(s, out, busy, late, left)
<1>1. Watched(s, late, held)
  BY DEF PollInv
<1>2. Watched(s, late, left)
  <2>1. \A r \in s.reg : r.event \in left /\ r.oneshot => ~r.armed
    BY <1>1 DEF Watched
  <2>2. \A a \in Addresses : Live(s, a) /\ s.heap[a].fd \notin late =>
          \E r \in s.reg : r.event = a /\ (r.armed \/ a = YieldAddress \/ a \in left)
    BY <1>1 DEF Watched
  <2> QED
    BY <1>1, <2>1, <2>2 DEF Watched
<1> QED
  BY <1>2 DEF PollInv

Drops(n, s, d, a) == n.fd = [s.fd EXCEPT ![d] = 0] /\ n.heap = [s.heap EXCEPT ![a] = E!Free]

Dropped(n, s, out, d, a) ==
  /\ \A x : Live(n, x) <=> Live(s, x) /\ x # a
  /\ \A x \in Addresses : x # a => n.heap[x] = s.heap[x]
  /\ Owned(n, out) /\ Notifier(n)
  /\ \A x \in Addresses : Live(s, x) /\ x # a => s.heap[x].fd # d
  /\ \A r \in s.reg : /\ Current(s, r) /\ r.event # a => Current(n, r) /\ r.fd # d
                      /\ r.file # s.fd[r.fd] => r.file # n.fd[r.fd]
                      /\ r.fd = d => r.file # n.fd[r.fd]

(* Dropping an event closes its descriptor, which no other event has. *)
LEMMA DropsEvent ==
  ASSUME NEW s, NEW out, NEW busy, NEW late, NEW held, PollInv(s, out, busy, late, held),
         NEW a, Live(s, a), a # YieldAddress, NEW d, s.heap[a].fd = d,
         NEW n \in Polls, Drops(n, s, d, a)
  PROVE  Dropped(n, s, out, d, a)
<1>0. /\ s \in Polls /\ out \subseteq Fds /\ Owned(s, out) /\ Notifier(s)
      /\ s.fd \in [Fds -> Fds \cup {0}]
      /\ s.heap \in [Addresses -> EventType \cup {E!Free}]
      /\ 0 \notin Fds /\ YieldFd \in Fds /\ YieldAddress \in Addresses
      /\ Live(s, YieldAddress) /\ s.heap[YieldAddress].fd = YieldFd /\ YieldFile # 0
  BY Parts
<1>1. a \in Addresses /\ d \in Fds
  BY <1>0, EventTypes
<1>2. /\ \A x \in Fds : n.fd[x] = IF x = d THEN 0 ELSE s.fd[x]
      /\ \A x \in Addresses : x # a => n.heap[x] = s.heap[x]
      /\ n.heap[a] = E!Free
  BY <1>0, <1>1 DEF Drops
<1>3. \A x : Live(n, x) <=> Live(s, x) /\ x # a
  BY <1>1, <1>2 DEF Live
<1>4. \A x \in Addresses : Live(s, x) /\ x # a => s.heap[x].fd # d
  BY <1>0, <1>1 DEF Owned
<1>5. Owned(n, out)
  <2>1. ASSUME NEW x \in Addresses, Live(n, x)
        PROVE  n.fd[n.heap[x].fd] # 0 /\ n.heap[x].fd \notin out
    <3>1. Live(s, x) /\ n.heap[x] = s.heap[x] /\ s.heap[x].fd # d /\ s.heap[x].fd \in Fds
      BY <1>0, <1>2, <1>3, <1>4, <2>1, EventTypes
    <3> QED
      BY <1>0, <1>2, <3>1 DEF Owned
  <2>2. ASSUME NEW x \in Addresses, NEW y \in Addresses, Live(n, x), Live(n, y),
               n.heap[x].fd = n.heap[y].fd
        PROVE  x = y
    BY <1>0, <1>2, <1>3, <2>2, ZenonT(30) DEF Owned
  <2>3. \A x \in out : n.fd[x] # 0
    BY <1>0, <1>1, <1>2 DEF Owned
  <2> QED
    BY <2>1, <2>2, <2>3 DEF Owned
<1>6. Notifier(n)
  <2>1. d # YieldFd
    BY <1>0, <1>4
  <2>2. \A x \in Fds : n.fd[x] = YieldFile <=> x = YieldFd
    BY <1>0, <1>2, <2>1, SMT DEF Notifier
  <2>3. \A x \in Addresses : Live(n, x) /\ x # YieldAddress =>
          n.heap[x].handler # "yield" /\ ~n.heap[x].notifier /\ n.heap[x].oneshot
    BY <1>0, <1>2, <1>3 DEF Notifier
  <2> QED
    BY <1>0, <1>2, <2>2, <2>3 DEF Notifier
<1>7. ASSUME NEW r \in s.reg
      PROVE  /\ Current(s, r) /\ r.event # a => Current(n, r) /\ r.fd # d
             /\ r.file # s.fd[r.fd] => r.file # n.fd[r.fd]
             /\ r.fd = d => r.file # n.fd[r.fd]
  <2>1. r.fd \in Fds /\ r.file \in Fds
    BY <1>0, EventTypes
  <2>2. ASSUME Current(s, r), r.event # a PROVE Current(n, r) /\ r.fd # d
    <3>1. Live(s, r.event) /\ r.event \in Addresses
      BY <2>2 DEF Current, Live
    <3>2. r.fd # d
      BY <1>4, <2>2, <3>1 DEF Current
    <3> QED
      BY <1>2, <1>3, <2>1, <2>2, <3>1, <3>2 DEF Current
  <2> QED
    BY <1>0, <1>2, <2>1, <2>2, SMT
<1> QED
  BY <1>2, <1>3, <1>4, <1>5, <1>6, <1>7 DEF Dropped

Clearing(n, s, t, d, a) ==
  /\ n.on = s.on /\ n.mutex = t /\ n.events = [s.events EXCEPT ![d] = 0] /\ Quiet(n, s)
  /\ n.fd = IF Epolled THEN [s.fd EXCEPT ![d] = 0] ELSE s.fd
  /\ n.heap = IF Epolled THEN [s.heap EXCEPT ![a] = E!Free] ELSE s.heap

(* The first step of EventGuard::cancel, by a thread that has the event a. *)
LEMMA ClearBeginCall ==
  ASSUME NEW s, NEW out, NEW busy, NEW late, NEW held, PollInv(s, out, busy, late, held),
         NEW d \in Fds, NEW a, s.events[d] = a, a # 0, a # YieldAddress, a \in held,
         NEW t \in Workers
  PROVE  LET n == ClearBegin(s, t, d) IN
         PollInv(n, out, WithK(busy, d), WithK(late, d), held) /\ Clearing(n, s, t, d, a)
<1> DEFINE n == ClearBegin(s, t, d)
           X == [s.events EXCEPT ![d] = 0]
           F == IF Epolled THEN [s.fd EXCEPT ![d] = 0] ELSE s.fd
           H == IF Epolled THEN [s.heap EXCEPT ![a] = E!Free] ELSE s.heap
           R == IF Epolled THEN {r \in s.reg : \E x \in Fds : F[x] = r.file}
                           ELSE {r \in s.reg : r.fd # d}
<1>0. /\ s \in Polls /\ out \subseteq Fds
      /\ Owned(s, out) /\ Filed(s, busy) /\ Watched(s, late, held) /\ Notifier(s)
      /\ s.fd \in [Fds -> Fds \cup {0}] /\ s.reg \subseteq Registrations
      /\ s.heap \in [Addresses -> EventType \cup {E!Free}]
      /\ s.events \in [Fds -> Addresses \cup {0}]
  BY Parts
<1>1. Live(s, a) /\ s.heap[a].fd = d /\ a \in Addresses
  BY <1>0 DEF Filed, Live
<1>2. n = [s EXCEPT !.fd = F, !.heap = H, !.events = X, !.reg = R, !.mutex = t]
  <2>1. CASE Epolled
    <3>1. [s EXCEPT !.heap[a] = E!Free] = [s EXCEPT !.heap = H]
      BY <1>0, <2>1 DEF Polls
    <3> DEFINE m == [s EXCEPT !.heap = H]
    <3>2. m.fd = s.fd /\ m.reg = s.reg
      BY <1>0 DEF Polls
    <3>3. [x \in Fds |-> IF x \in {d} THEN 0 ELSE m.fd[x]] = F
      BY <1>0, <2>1, <3>2, SMT
    <3>4. E!close_all(m, {d}) = [m EXCEPT !.fd = F, !.reg = R]
      <4> DEFINE left == [x \in Fds |-> IF x \in {d} THEN 0 ELSE m.fd[x]]
      <4>1. E!close_all(m, {d}) = [m EXCEPT !.fd = left, !.reg = {r \in m.reg : \E x \in Fds : left[x] = r.file}]
        BY DEF E!close_all
      <4>2. left = F
        BY <3>3
      <4> HIDE DEF left, m, F
      <4> QED
        BY <2>1, <3>2, <4>1, <4>2, SMT
    <3>5. E!DropEvent(s, a) = E!close_all(m, {d})
      BY <1>1, <3>1 DEF E!DropEvent, E!close
    <3>6. E!DropEvent(s, a) = [s EXCEPT !.fd = F, !.heap = H, !.reg = R]
      BY <1>0, <3>4, <3>5, ZenonT(30) DEF Polls
    <3> QED
      BY <1>0, <2>1, <3>6 DEF ClearBegin, E!ClearBegin, Polls
  <2>2. CASE ~Epolled
    BY <1>0, <2>2 DEF ClearBegin, K!ClearBegin, K!EvDelete, Polls
  <2> QED
    BY <2>1, <2>2
<1>3. /\ F \in [Fds -> Fds \cup {0}] /\ X \in [Fds -> Addresses \cup {0}]
      /\ H \in [Addresses -> EventType \cup {E!Free}]
  BY <1>0
<1>4. R \subseteq Registrations /\ R \subseteq s.reg
  BY <1>0
<1>5. /\ n \in Polls /\ n.fd = F /\ n.heap = H /\ n.events = X /\ n.reg = R /\ n.mutex = t
      /\ n.on = s.on
  <2> HIDE DEF n, F, H, X, R
  <2> QED
    BY <1>0, <1>2, <1>3, <1>4 DEF Polls
<1> HIDE DEF n
<1>6. /\ \A x : Live(n, x) => Live(s, x)
      /\ \A x \in Addresses : Live(s, x) /\ x # a => Live(n, x) /\ s.heap[x].fd # d
      /\ \A x \in Addresses : x # a => n.heap[x] = s.heap[x]
      /\ Epolled => ~Live(n, a)
      /\ ~Epolled => Live(n, a) /\ n.heap[a] = s.heap[a]
      /\ Owned(n, out) /\ Notifier(n)
      /\ \A r \in s.reg : Current(s, r) /\ r.event # a => Current(n, r) /\ r.fd # d
      /\ \A r \in s.reg : Epolled /\ (r.file # s.fd[r.fd] \/ r.fd = d) => r.file # n.fd[r.fd]
  <2>1. CASE Epolled
    <3>1. Drops(n, s, d, a)
      BY <1>5, <2>1 DEF Drops
    <3>2. Dropped(n, s, out, d, a)
      BY <1>1, <1>5, <3>1, DropsEvent
    <3> QED
      BY <2>1, <3>2 DEF Dropped
  <2>2. CASE ~Epolled
    <3>1. n.fd = s.fd /\ n.heap = s.heap
      BY <1>5, <2>2
    <3>2. \A x : Live(n, x) <=> Live(s, x)
      BY <3>1 DEF Live
    <3>3. Owned(n, out)
      BY ONLY <1>0, <3>1, <3>2, Zenon DEF Owned
    <3>4. Notifier(n)
      BY ONLY <1>0, <3>1, <3>2, Zenon DEF Notifier
    <3>5. \A x \in Addresses : Live(s, x) /\ x # a => s.heap[x].fd # d
      BY <1>0, <1>1 DEF Owned
    <3>6. \A r \in s.reg : Current(s, r) /\ r.event # a => Current(n, r) /\ r.fd # d
      BY ONLY <3>1, <3>2, <3>5, Zenon DEF Current, Live
    <3> HIDE DEF F, H, X, R
    <3> QED
      BY <1>1, <2>2, <3>1, <3>2, <3>3, <3>4, <3>5, <3>6
  <2> QED
    BY <2>1, <2>2
<1>7. Filed(n, WithK(busy, d))
  <2>1. ASSUME NEW x \in Fds, X[x] # 0 PROVE Live(n, X[x]) /\ n.heap[X[x]].fd = x
    <3>1. x # d /\ X[x] = s.events[x]
      BY <1>0, <2>1
    <3>2. Live(s, X[x]) /\ s.heap[X[x]].fd = x /\ X[x] \in Addresses
      BY <1>0, <2>1, <3>1 DEF Filed, Live
    <3>3. X[x] # a
      BY <1>1, <3>1, <3>2
    <3> QED
      BY <1>6, <3>2, <3>3
  <2>2. ASSUME NEW x \in Addresses, Live(n, x)
        PROVE  X[n.heap[x].fd] = x \/ n.heap[x].fd \in WithK(busy, d)
    <3>1. CASE x = a
      BY <1>1, <1>6, <2>2, <3>1 DEF WithK
    <3>2. CASE x # a
      <4>1. Live(s, x) /\ n.heap[x] = s.heap[x] /\ s.heap[x].fd # d /\ s.heap[x].fd \in Fds
        BY <1>0, <1>6, <2>2, <3>2, EventTypes
      <4>2. X[s.heap[x].fd] = s.events[s.heap[x].fd]
        BY <1>0, <4>1
      <4> QED
        BY <1>0, <4>1, <4>2 DEF Filed, WithK
    <3> QED
      BY <3>1, <3>2
  <2> HIDE DEF X
  <2> QED
    BY <1>5, <2>1, <2>2 DEF Filed
<1>8. \A r \in s.reg : r.event = a => ~r.armed /\ r.fd = d
  BY <1>0, <1>1 DEF Watched, Current, Stale
<1>9. \A r \in s.reg : Current(s, r) /\ r.event # a => r \in R
  <2>1. ASSUME NEW r \in s.reg, Current(s, r), r.event # a PROVE r \in R
    <3>1. Current(n, r) /\ r.fd # d /\ r.fd \in Fds
      BY <1>0, <1>6, <2>1, EventTypes
    <3> QED
      BY <1>5, <3>1, SMT DEF Current
  <2> QED
    BY <2>1
<1>10. Watched(n, WithK(late, d), held)
  <2>1. ASSUME NEW r \in R PROVE (Current(n, r) /\ r.fd \notin WithK(late, d)) \/ Stale(n, r)
    <3>0. r \in s.reg
      BY <1>4
    <3>1. CASE r.event = a
      <4>1. ~r.armed /\ r.fd = d
        BY <1>8, <3>0, <3>1
      <4>2. Epolled /\ \E x \in Fds : n.fd[x] = r.file
        BY <1>5, <2>1, <4>1
      <4> QED
        BY <1>6, <3>0, <3>1, <4>1, <4>2 DEF Stale
    <3>2. CASE r.event # a /\ Current(s, r) /\ r.fd \notin late
      BY <1>6, <3>0, <3>2 DEF WithK
    <3>3. CASE r.event # a /\ Stale(s, r)
      <4>1. Epolled /\ ~Live(s, r.event) /\ ~r.armed /\ r.file # s.fd[r.fd]
        BY <3>3 DEF Stale
      <4>2. \E x \in Fds : n.fd[x] = r.file
        BY <1>5, <2>1, <4>1
      <4> QED
        BY <1>6, <3>0, <4>1, <4>2 DEF Stale
    <3> QED
      BY <1>0, <3>0, <3>1, <3>2, <3>3 DEF Watched
  <2>2. ASSUME NEW r \in R, NEW q \in R, Live(n, r.event), r.event = q.event PROVE r = q
    BY <1>0, <1>4, <1>6, <2>2, ZenonT(30) DEF Watched
  <2>3. ASSUME NEW r \in R, r.event \in held, r.oneshot PROVE ~r.armed
    BY <1>0, <1>4, <2>3 DEF Watched
  <2>4. ASSUME NEW x \in Addresses, Live(n, x), n.heap[x].fd \notin WithK(late, d)
        PROVE  \E r \in R : r.event = x /\ (r.armed \/ x = YieldAddress \/ x \in held)
    <3>1. x # a
      BY <1>1, <1>6, <2>4 DEF WithK
    <3>2. Live(s, x) /\ s.heap[x].fd \notin late
      BY <1>6, <2>4, <3>1 DEF WithK
    <3>3. PICK r \in s.reg : r.event = x /\ (r.armed \/ x = YieldAddress \/ x \in held)
      BY <1>0, <3>2 DEF Watched
    <3>4. Current(s, r)
      BY <1>0, <3>2, <3>3 DEF Watched, Stale
    <3> HIDE DEF R
    <3> QED
      BY <1>9, <3>1, <3>3, <3>4
  <2> HIDE DEF R
  <2> QED
    BY <1>5, <2>1, <2>2, <2>3, <2>4 DEF Watched
<1>11. Quiet(n, s)
  BY <1>4, <1>5 DEF Quiet
<1> QED
  BY <1>0, <1>5, <1>6, <1>7, <1>10, <1>11 DEF PollInv, Clearing, n

Cleared(n, s, d, a) ==
  /\ n.on = s.on /\ n.mutex = NoThread /\ n.events = s.events /\ n.reg \subseteq s.reg
  /\ n.fd = IF Epolled THEN s.fd ELSE [s.fd EXCEPT ![d] = 0]
  /\ n.heap = IF Epolled THEN s.heap ELSE [s.heap EXCEPT ![a] = E!Free]

(* The second step.  With epoll it deletes nothing: the registration went  *)
(* with the file, or is disabled and no descriptor finds it any more.      *)
LEMMA ClearEndCall ==
  ASSUME NEW s, NEW out, NEW busy, NEW late, NEW held, NEW d \in Fds, NEW a,
         PollInv(s, out, WithK(busy, d), WithK(late, d), held), s.events[d] = 0,
         Epolled => d \notin busy,
         ~Epolled => Live(s, a) /\ s.heap[a].fd = d /\ a # YieldAddress
  PROVE  LET n == ClearEnd(s, d, a) IN
         PollInv(n, out, busy, late, held) /\ Cleared(n, s, d, a)
<1> DEFINE n == ClearEnd(s, d, a)
           F == IF Epolled THEN s.fd ELSE [s.fd EXCEPT ![d] = 0]
           H == IF Epolled THEN s.heap ELSE [s.heap EXCEPT ![a] = E!Free]
<1>0. /\ s \in Polls /\ out \subseteq Fds
      /\ Owned(s, out) /\ Filed(s, WithK(busy, d)) /\ Watched(s, WithK(late, d), held) /\ Notifier(s)
      /\ s.fd \in [Fds -> Fds \cup {0}] /\ s.reg \subseteq Registrations
      /\ s.heap \in [Addresses -> EventType \cup {E!Free}]
      /\ s.events \in [Fds -> Addresses \cup {0}] /\ 0 \notin Addresses
  BY Parts, PollAssumption
<1>1. Epolled => {r \in s.reg : ~E!Watches(s, r, d)} = s.reg
  <2>1. ASSUME Epolled, NEW r \in s.reg, E!Watches(s, r, d) PROVE FALSE
    <3>1. r.fd = d /\ r.file = s.fd[r.fd]
      BY <2>1 DEF E!Watches
    <3>2. Current(s, r)
      BY <1>0, <3>1 DEF Watched, Stale
    <3>3. Live(s, r.event) /\ s.heap[r.event].fd = d /\ r.event \in Addresses
      BY <3>1, <3>2 DEF Current, Live
    <3> QED
      BY <1>0, <2>1, <3>3 DEF Filed, WithK
  <2> QED
    BY <2>1
<1>2. ~Epolled => {r \in s.reg : r.fd \notin {d}} = s.reg
  BY <1>0 DEF Watched, Stale, WithK
<1>3. n = [s EXCEPT !.fd = F, !.heap = H, !.mutex = NoThread]
  <2>1. CASE Epolled
    BY <1>0, <1>1, <2>1 DEF ClearEnd, E!ClearEnd, E!CtlDel, Polls
  <2>2. CASE ~Epolled
    <3> DEFINE m == [s EXCEPT !.heap = H]
    <3>1. [s EXCEPT !.heap[a] = E!Free] = m
      BY <1>0, <2>2 DEF Polls
    <3>2. m.fd = s.fd /\ m.reg = s.reg
      BY <1>0 DEF Polls
    <3>3. [x \in Fds |-> IF x \in {d} THEN 0 ELSE m.fd[x]] = F
      BY <1>0, <2>2, <3>2, SMT
    <3>4. K!close_all(m, {d}) = [m EXCEPT !.fd = F, !.reg = s.reg]
      BY <1>2, <2>2, <3>2, <3>3 DEF K!close_all
    <3>5. K!DropEvent(s, a) = K!close_all(m, {d})
      BY <2>2, <3>1 DEF K!DropEvent, K!close, E!Free, K!Free
    <3>6. K!DropEvent(s, a) = [s EXCEPT !.fd = F, !.heap = H]
      BY <1>0, <3>4, <3>5, ZenonT(30) DEF Polls
    <3> QED
      BY <1>0, <2>2, <3>6 DEF ClearEnd, K!ClearEnd, Polls
  <2> QED
    BY <2>1, <2>2
<1>4. F \in [Fds -> Fds \cup {0}] /\ H \in [Addresses -> EventType \cup {E!Free}]
  BY <1>0
<1>5. /\ n \in Polls /\ n.fd = F /\ n.heap = H /\ n.events = s.events /\ n.reg = s.reg
      /\ n.mutex = NoThread /\ n.on = s.on
  BY <1>0, <1>3, <1>4, ZenonT(30) DEF Polls
<1> HIDE DEF n
<1>6. CASE Epolled
  <2>1. n.fd = s.fd /\ n.heap = s.heap
    BY <1>5, <1>6
  <2>2. PollInv(s, out, busy, late, held)
    BY <1>6 DEF WithK
  <2> HIDE DEF F, H
  <2>3. /\ \A x : Live(n, x) <=> Live(s, x)
        /\ \A x : (Current(n, x) <=> Current(s, x)) /\ (Stale(n, x) <=> Stale(s, x))
        /\ \A h : Watched(n, late, h) => PollInv(n, out, busy, late, h)
    BY ONLY <1>5, <2>1, <2>2, Frame, Zenon
  <2>4. Watched(s, late, held)
    BY <2>2 DEF PollInv
  <2>5. Watched(n, late, held)
    BY ONLY <1>5, <2>1, <2>3, <2>4, Zenon DEF Watched
  <2> QED
    BY <1>5, <1>6, <2>1, <2>3, <2>5 DEF Cleared, n
<1>7. CASE ~Epolled
  <2>1. Drops(n, s, d, a)
    BY <1>5, <1>7 DEF Drops
  <2>2. Dropped(n, s, out, d, a)
    BY <1>5, <1>7, <2>1, DropsEvent
  <2>3. /\ \A x : Live(n, x) <=> Live(s, x) /\ x # a
        /\ \A x \in Addresses : x # a => n.heap[x] = s.heap[x]
        /\ Owned(n, out) /\ Notifier(n)
        /\ \A x \in Addresses : Live(s, x) /\ x # a => s.heap[x].fd # d
        /\ \A r \in s.reg : Current(s, r) /\ r.event # a => Current(n, r) /\ r.fd # d
    BY <2>2 DEF Dropped
  <2>4. Filed(n, busy)
    <3>1. ASSUME NEW x \in Fds, s.events[x] # 0
          PROVE  Live(n, s.events[x]) /\ n.heap[s.events[x]].fd = x
      <4>1. Live(s, s.events[x]) /\ s.heap[s.events[x]].fd = x /\ s.events[x] \in Addresses
        BY <1>0, <3>1 DEF Filed, Live
      <4>2. s.events[x] # a
        BY <1>7, <3>1, <4>1
      <4> QED
        BY <2>3, <4>1, <4>2
    <3>2. ASSUME NEW x \in Addresses, Live(n, x)
          PROVE  s.events[n.heap[x].fd] = x \/ n.heap[x].fd \in busy
      <4>1. Live(s, x) /\ n.heap[x] = s.heap[x] /\ s.heap[x].fd # d
        BY <2>3, <3>2
      <4> QED
        BY <1>0, <4>1 DEF Filed, WithK
    <3> QED
      BY <1>5, <3>1, <3>2 DEF Filed
  <2>5. \A r \in s.reg : Current(s, r) /\ r.fd \notin late /\ r.event # a
    BY <1>0, <1>7 DEF Watched, Current, Stale, WithK
  <2>6. Watched(n, late, held)
    <3>1. \A r \in s.reg : Current(n, r) /\ r.fd \notin late
      BY <2>3, <2>5
    <3>2. \A r, q \in s.reg : Live(n, r.event) /\ r.event = q.event => r = q
      BY <1>0, <2>3 DEF Watched
    <3>3. ASSUME NEW x \in Addresses, Live(n, x), n.heap[x].fd \notin late
          PROVE  \E r \in s.reg : r.event = x /\ (r.armed \/ x = YieldAddress \/ x \in held)
      <4>1. Live(s, x) /\ s.heap[x].fd \notin WithK(late, d)
        BY <2>3, <3>3 DEF WithK
      <4> QED
        BY <1>0, <4>1 DEF Watched
    <3> QED
      BY <1>0, <1>5, <3>1, <3>2, <3>3 DEF Watched
  <2> QED
    BY <1>0, <1>5, <1>7, <2>3, <2>4, <2>6 DEF PollInv, Cleared, n
<1> QED
  BY <1>6, <1>7

(* Memory that the system may give out. *)
LEMMA NewMemory ==
  ASSUME Supply, NEW s, FreeAddresses(s) # {}
  PROVE  Unused(s, Held, NewAddress(s))
<1>1. FreeAddresses(s) \in SUBSET Nat
  BY PollAssumption DEF FreeAddresses
<1>2. NewAddress(s) \in FreeAddresses(s)
  BY <1>1 DEF NewAddress, Supply
<1> QED
  BY <1>2 DEF FreeAddresses, Unused, Held

Reopened(n, s) ==
  /\ n.listen \in Fds /\ n.s.on = s.on /\ Quiet(n.s, s)
  /\ \A x : Live(s, x) => Live(n.s, x)

(* open_listen_socket while no other thread is at an event: the old socket *)
(* and those of the endpoints are closed, and of the two new descriptors   *)
(* one is the device's and one the new event's.                            *)
LEMMA OpenCall ==
  ASSUME Supply, NEW s, PollInv(s, {listen} \cup Connected, {}, {}, Held), NEW w \in Workers,
         Cardinality(FreeFds(s)) >= 2, FreeAddresses(s) # {}
  PROVE  LET n == OpenListenSocket(s, w) IN
         PollInv(n.s, {n.listen}, {}, {}, Held) /\ Reopened(n, s)
<1> DEFINE out == {listen} \cup Connected
           c == close_all(s, out)
           new == SocketPair(c)
           d == new.second
           a == NewAddress(new.s)
           b == RegisterBegin(new.s, w, E!new_event(d, "udp"), a)
           e == RegisterEnd(b, d, a)
<1>0. /\ s \in Polls /\ out \subseteq Fds /\ Owned(s, out) /\ Filed(s, {})
      /\ s.fd \in [Fds -> Fds \cup {0}] /\ s.heap \in [Addresses -> EventType \cup {E!Free}]
      /\ s.events \in [Fds -> Addresses \cup {0}]
  BY Parts
<1>1. CloseSockets(s, w) = c
  <2>1. listen \in Fds /\ listen \in out
    BY <1>0
  <2>2. s.events[listen] = 0
    BY <1>0, <2>1 DEF Owned, Filed, Live
  <2> QED
    BY <2>2 DEF CloseSockets, ClearEvent
<1>2. PollInv(c, out \ out, {}, {}, Held) /\ Closed(c, s, out)
  <2>1. out \subseteq out
    OBVIOUS
  <2> HIDE DEF out
  <2> QED
    BY <2>1, CloseAll DEF out
<1>3. Cardinality(FreeFds(c)) >= 2
  <2>1. FreeFds(s) \subseteq FreeFds(c) /\ FreeFds(c) \in SUBSET Fds /\ FreeFds(s) \in SUBSET Fds
    BY <1>2 DEF FreeFds, Closed
  <2> QED
    BY <2>1 DEF Supply
<1> HIDE DEF c
<1>4. PollInv(new.s, (out \ out) \cup {new.first, d}, {}, {}, Held) /\ Opened(new, c)
  BY ONLY Supply, <1>2, <1>3, NewSocket, Zenon
<1>5. /\ PollInv(new.s, {new.first, d}, {}, {}, Held) /\ new.first # d /\ new.first \in Fds
      /\ new.s.heap = s.heap /\ new.s.reg \subseteq s.reg /\ new.s.on = s.on
  <2>1. (out \ out) \cup {new.first, d} = {new.first, d}
    OBVIOUS
  <2> QED
    BY <1>2, <1>4, <2>1 DEF Opened, Closed, Kept
<1> HIDE DEF new, out
<1>6. Unused(new.s, Held, a)
  <2>1. FreeAddresses(new.s) # {}
    BY <1>5 DEF FreeAddresses
  <2> QED
    BY <2>1, NewMemory
<1> HIDE DEF a
<1>7. PollInv(b, {new.first, d} \ {d}, WithK({}, d), WithE({}, d), Held) /\ Boxes(b, new.s, w, d, "udp", a)
  <2>1. d \in {new.first, d} /\ d \notin {} /\ "udp" \in {"conn", "udp"}
    OBVIOUS
  <2> HIDE DEF d
  <2> QED
    BY ONLY <1>5, <1>6, <2>1, RegisterBeginCall, w \in Workers
<1>8. {new.first, d} \ {d} = {new.first}
  BY <1>5
<1> HIDE DEF b, d
<1>9. PollInv(e, {new.first}, {}, {}, Held) /\ Registers(e, b, d, a)
  <2> DEFINE none == {}
  <2>3. d \notin none
    OBVIOUS
  <2> HIDE DEF none
  <2>1. PollInv(b, {new.first}, WithK(none, d), WithE(none, d), Held)
    BY <1>7, <1>8 DEF none
  <2>2. /\ Live(b, a) /\ b.heap[a].fd = d /\ d # YieldFd
        /\ Epolled => d \notin none /\ a \notin Held
        /\ ~Epolled => b.events[d] = 0
    BY <1>6, <1>7, <2>3 DEF Boxes, Unused
  <2>4. PollInv(e, {new.first}, none, none, Held) /\ Registers(e, b, d, a)
    BY ONLY <2>1, <2>2, RegisterEndCall, Zenon
  <2> QED
    BY <2>4 DEF none
<1> HIDE DEF e
<1>10. OpenListenSocket(s, w) = [s |-> e, listen |-> new.first]
  BY <1>1 DEF OpenListenSocket, new, d, a, b, e
<1>11. e.on = s.on /\ Quiet(e, s)
  BY <1>5, <1>7, <1>9 DEF Boxes, Registers, Quiet
<1>12. ASSUME NEW x, Live(s, x) PROVE Live(e, x)
  <2>1. x # a /\ x \in Addresses
    BY <1>5, <1>6, <1>12 DEF Live, Unused
  <2>2. e.heap = [s.heap EXCEPT ![a] = E!new_event(d, "udp")]
    BY <1>5, <1>7, <1>9 DEF Boxes, Registers
  <2> QED
    BY <1>0, <1>12, <2>1, <2>2 DEF Live
<1>13. Reopened([s |-> e, listen |-> new.first], s)
  BY <1>5, <1>11, <1>12 DEF Reopened
<1> QED
  BY <1>9, <1>10, <1>13, SMT

-----------------------------------------------------------------------------
(* The threads *)

(* What thread w, in state x, and what the others have. *)
OneOut(x) == {d \in Fds : HasOut(x, d)}
OneBusy(x) == {d \in Fds : HasBusy(x, d)}
OneLate(x) == {d \in Fds : HasLate(x, d)}
OneHeld(x) == {x.guard} \cap Addresses

OtherOut(w) == {d \in Fds : \E v \in Workers \ {w} : HasOut(work[v], d)}
OtherBusy(w) == {d \in Fds : \E v \in Workers \ {w} : HasBusy(work[v], d)}
OtherLate(w) == {d \in Fds : \E v \in Workers \ {w} : HasLate(work[v], d)}
OtherHeld(w) == {a \in Addresses : \E v \in Workers \ {w} : work[v].guard = a}

(* What everyone has: what thread w has, and what the others have. *)
LEMMA SetsBefore ==
  ASSUME NEW w \in Workers, listen \in Fds, conn \in [Peers -> Fds \cup {0}]
  PROVE  /\ Out = {listen} \cup Connected \cup OtherOut(w) \cup OneOut(work[w])
         /\ Busy = OtherBusy(w) \cup OneBusy(work[w])
         /\ Late = OtherLate(w) \cup OneLate(work[w])
         /\ Held = OtherHeld(w) \cup OneHeld(work[w])
<1>0. Connected \subseteq Fds
  BY DEF Connected
<1>1. Out = {listen} \cup Connected \cup OtherOut(w) \cup OneOut(work[w])
  BY <1>0 DEF Out, OtherOut, OneOut
<1>2. Busy = OtherBusy(w) \cup OneBusy(work[w])
  BY DEF Busy, OtherBusy, OneBusy
<1>3. Late = OtherLate(w) \cup OneLate(work[w])
  BY DEF Late, OtherLate, OneLate
<1>4. Held = OtherHeld(w) \cup OneHeld(work[w])
  BY DEF Held, OtherHeld, OneHeld
<1> QED
  BY <1>1, <1>2, <1>3, <1>4

(* What everyone has after a step of thread w to the state y. *)
LEMMA SetsAfter ==
  ASSUME work \in [Workers -> Threads], NEW w \in Workers, NEW y,
         work' = [work EXCEPT ![w] = y], backend' = backend,
         listen' \in Fds, conn' \in [Peers -> Fds \cup {0}]
  PROVE  /\ Out' = {listen'} \cup Connected' \cup OtherOut(w) \cup OneOut(y)
         /\ Busy' = OtherBusy(w) \cup OneBusy(y)
         /\ Late' = OtherLate(w) \cup OneLate(y)
         /\ Held' = OtherHeld(w) \cup OneHeld(y)
<1>0. Connected' \subseteq Fds
  BY DEF Connected
<1>1. \A v \in Workers : work'[v] = IF v = w THEN y ELSE work[v]
  OBVIOUS
<1>2. Epolled' = Epolled
  BY DEF Epolled
<1>3. Out' = {listen'} \cup Connected' \cup OtherOut(w) \cup OneOut(y)
  BY <1>0, <1>1 DEF Out, OtherOut, OneOut, HasOut
<1>4. Busy' = OtherBusy(w) \cup OneBusy(y)
  BY <1>1, <1>2 DEF Busy, OtherBusy, OneBusy, HasBusy
<1>5. Late' = OtherLate(w) \cup OneLate(y)
  BY <1>1, <1>2 DEF Late, OtherLate, OneLate, HasLate
<1>6. Held' = OtherHeld(w) \cup OneHeld(y)
  BY <1>1 DEF Held, OtherHeld, OneHeld
<1> QED
  BY <1>3, <1>4, <1>5, <1>6

(* The invariants of the poll and of a thread after a step, which cannot   *)
(* change the backend.                                                     *)
LEMMA PrimedPoll ==
  ASSUME backend' = backend, PollInv(poll', Out', Busy', Late', Held')
  PROVE  PollInv(poll, Out, Busy, Late, Held)'
BY DEF PollInv, Owned, Filed, Watched, Notifier, Current, Stale, Live, Epolled

(* The same for the invariant of a thread. *)
LEMMA PrimedThread ==
  ASSUME backend' = backend, NEW w, ThreadInv(poll', Late', w, work'[w])
  PROVE  ThreadInv(poll, Late, w, work[w])'
BY DEF ThreadInv, Live, Epolled

(* Being apart is symmetric. *)
LEMMA ApartBoth ==
  ASSUME NEW x, NEW y, Apart(x, y)
  PROVE  Apart(y, x)
BY DEF Apart

(* What is left to show of a step of thread w. *)
LEMMA StepOf ==
  ASSUME LoopInv, NEW w \in Workers, NEW y \in Threads,
         work' = [work EXCEPT ![w] = y], backend' = backend,
         PollInv(poll', Out', Busy', Late', Held'),
         ThreadInv(poll', Late', w, y),
         \A v \in Workers \ {w} : ThreadInv(poll', Late', v, work[v]) /\ Apart(work[v], y),
         OwnersInv', YieldInv'
  PROVE  LoopInv'
<1>1. work \in [Workers -> Threads]
  BY DEF LoopInv, WorkInv
<1>2. \A v \in Workers : work'[v] = IF v = w THEN y ELSE work[v]
  BY <1>1
<1>3. work' \in [Workers -> Threads]
  BY <1>1
<1>4. \A v \in Workers : ThreadInv(poll', Late', v, work'[v])
  BY <1>2
<1>5. \A v \in Workers : ThreadInv(poll, Late, v, work[v])'
  BY <1>4, PrimedThread
<1>6. ASSUME NEW u \in Workers, NEW v \in Workers, u # v PROVE Apart(work'[u], work'[v])
  <2>1. CASE u = w
    <3>1. work'[u] = y /\ work'[v] = work[v] /\ v \in Workers \ {w}
      BY <1>2, <1>6, <2>1
    <3> QED
      BY <3>1, ApartBoth
  <2>2. CASE v = w
    <3>1. work'[v] = y /\ work'[u] = work[u] /\ u \in Workers \ {w}
      BY <1>2, <1>6, <2>2
    <3> QED
      BY <3>1
  <2>3. CASE u # w /\ v # w
    <3>1. work'[v] = work[v] /\ work'[u] = work[u]
      BY <1>2, <2>3
    <3> QED
      BY <1>6, <3>1 DEF LoopInv, WorkInv
  <2> QED
    BY <2>1, <2>2, <2>3
<1>7. (\A u, v \in Workers : u # v => Apart(work[u], work[v]))'
  BY <1>6 DEF Apart
<1>8. WorkInv'
  BY <1>3, <1>5, <1>7 DEF WorkInv
<1>9. PollInv(poll, Out, Busy, Late, Held)'
  BY PrimedPoll
<1> QED
  BY <1>8, <1>9 DEF LoopInv

(* Both, for a step that changes neither the endpoints nor the listening   *)
(* socket.                                                                 *)
LEMMA Sets ==
  ASSUME LoopInv, NEW w \in Workers, NEW y, work' = [work EXCEPT ![w] = y],
         UNCHANGED <<backend, conn, listen>>
  PROVE  /\ Out = {listen} \cup Connected \cup OtherOut(w) \cup OneOut(work[w])
         /\ Busy = OtherBusy(w) \cup OneBusy(work[w])
         /\ Late = OtherLate(w) \cup OneLate(work[w])
         /\ Held = OtherHeld(w) \cup OneHeld(work[w])
         /\ Out' = {listen} \cup Connected \cup OtherOut(w) \cup OneOut(y)
         /\ Busy' = OtherBusy(w) \cup OneBusy(y)
         /\ Late' = OtherLate(w) \cup OneLate(y)
         /\ Held' = OtherHeld(w) \cup OneHeld(y)
<1>1. work \in [Workers -> Threads] /\ listen \in Fds /\ conn \in [Peers -> Fds \cup {0}]
  BY DEF LoopInv, WorkInv, OwnersInv
<1>2. /\ Out = {listen} \cup Connected \cup OtherOut(w) \cup OneOut(work[w])
      /\ Busy = OtherBusy(w) \cup OneBusy(work[w])
      /\ Late = OtherLate(w) \cup OneLate(work[w])
      /\ Held = OtherHeld(w) \cup OneHeld(work[w])
  BY <1>1, SetsBefore
<1>3. /\ listen' = listen /\ listen' \in Fds /\ conn' \in [Peers -> Fds \cup {0}] /\ backend' = backend
      /\ Connected' = Connected
  BY <1>1 DEF Connected
<1>4. /\ Out' = {listen'} \cup Connected' \cup OtherOut(w) \cup OneOut(y)
      /\ Busy' = OtherBusy(w) \cup OneBusy(y)
      /\ Late' = OtherLate(w) \cup OneLate(y)
      /\ Held' = OtherHeld(w) \cup OneHeld(y)
  BY <1>1, <1>3, SetsAfter
<1> QED
  BY ONLY <1>2, <1>3, <1>4, Zenon

(* While nobody holds the mutex no event is half removed, and with kqueue  *)
(* none half registered.                                                   *)
LEMMA Idling ==
  ASSUME LoopInv, Unlocked
  PROVE  /\ Busy = {} /\ (~Epolled => Late = {})
         /\ \A v \in Workers : work[v].at # "cancel" /\ (~Epolled => work[v].at # "registering")
<1>1. \A v \in Workers : ThreadInv(poll, Late, v, work[v]) /\ poll.mutex # v
  BY PollAssumption DEF LoopInv, WorkInv, Unlocked
<1>2. \A v \in Workers : work[v].at # "cancel" /\ (~Epolled => work[v].at # "registering")
  BY <1>1 DEF ThreadInv
<1> QED
  BY <1>2 DEF Busy, Late, HasBusy, HasLate

(* A thread does not notice a step that leaves the events, the table and   *)
(* the mutex alone.                                                        *)
LEMMA KeptThread ==
  ASSUME NEW s, NEW n, Kept(n, s), NEW late, NEW v, NEW x, ThreadInv(s, late, v, x)
  PROVE  ThreadInv(n, late, v, x)
BY DEF Kept, ThreadInv, Live

(* Nor that fewer events are late. *)
LEMMA LessLate ==
  ASSUME NEW s, NEW late, NEW v, NEW x, ThreadInv(s, late, v, x), NEW left, left \subseteq late
  PROVE  ThreadInv(s, left, v, x)
BY DEF ThreadInv

(* A thread that is not between two steps has nothing but its guard. *)
LEMMA NoSets ==
  ASSUME NEW x, x.at \notin {"register", "close", "registering", "cancel"}
  PROVE  OneOut(x) = {} /\ OneBusy(x) = {} /\ OneLate(x) = {}
BY DEF OneOut, OneBusy, OneLate, HasOut, HasBusy, HasLate, HasFd

(* A step between two points where the thread has nothing but its guard    *)
(* changes only who holds what.                                            *)
LEMMA KeptSets ==
  ASSUME LoopInv, NEW w \in Workers, NEW y, work' = [work EXCEPT ![w] = y],
         UNCHANGED <<backend, conn, listen>>,
         work[w].at \notin {"register", "close", "registering", "cancel"},
         y.at \notin {"register", "close", "registering", "cancel"}
  PROVE  /\ Out' = Out /\ Busy' = Busy /\ Late' = Late
         /\ Held = OtherHeld(w) \cup OneHeld(work[w])
         /\ Held' = OtherHeld(w) \cup OneHeld(y)
<1>1. /\ Out = {listen} \cup Connected \cup OtherOut(w) \cup OneOut(work[w])
      /\ Busy = OtherBusy(w) \cup OneBusy(work[w])
      /\ Late = OtherLate(w) \cup OneLate(work[w])
      /\ Held = OtherHeld(w) \cup OneHeld(work[w])
      /\ Out' = {listen} \cup Connected \cup OtherOut(w) \cup OneOut(y)
      /\ Busy' = OtherBusy(w) \cup OneBusy(y)
      /\ Late' = OtherLate(w) \cup OneLate(y)
      /\ Held' = OtherHeld(w) \cup OneHeld(y)
  BY Sets
<1>2. /\ OneOut(work[w]) = {} /\ OneBusy(work[w]) = {} /\ OneLate(work[w]) = {}
      /\ OneOut(y) = {} /\ OneBusy(y) = {} /\ OneLate(y) = {}
  BY NoSets
<1> QED
  BY ONLY <1>1, <1>2, Zenon

(* Threads that do not own a descriptor are of no concern to the owners. *)
LEMMA OwnersKept ==
  ASSUME LoopInv, NEW w \in Workers, NEW y, work' = [work EXCEPT ![w] = y], y.at \notin HasFd,
         UNCHANGED <<conn, listen>>
  PROVE  OwnersInv'
<1>1. OwnersInv /\ work \in [Workers -> Threads]
  BY DEF LoopInv, WorkInv
<1>2. \A v \in Workers : work'[v] = IF v = w THEN y ELSE work[v]
  BY <1>1
<1>3. \A v \in Workers : work'[v].at \in HasFd => work'[v] = work[v]
  BY <1>2
<1>4. \A v \in Workers : work'[v].at \in HasFd =>
        work'[v].fd # listen /\ \A p \in Peers : conn[p] # work'[v].fd
  BY <1>1, <1>3 DEF OwnersInv
<1> QED
  BY <1>1, <1>4 DEF OwnersInv

(* Nor is a thread that is told to yield while a writer waits, if the      *)
(* writer is another.                                                      *)
LEMMA YieldKept ==
  ASSUME LoopInv, NEW w \in Workers, NEW y, work' = [work EXCEPT ![w] = y],
         work[w].at # "write", y.guard = YieldAddress => Writing,
         Writing \/ Quiet(poll', poll), poll'.on = poll.on, YieldFile \notin hup'
  PROVE  YieldInv'
<1>1. YieldInv /\ work \in [Workers -> Threads]
  BY DEF LoopInv, WorkInv
<1>2. \A v \in Workers : work'[v] = IF v = w THEN y ELSE work[v]
  BY <1>1
<1>3. Writing => Writing'
  BY <1>2 DEF Writing
<1>4. \A v \in Workers : work'[v].guard = YieldAddress => Writing'
  BY <1>1, <1>2, <1>3 DEF YieldInv
<1>5. \A r \in poll'.reg : r.event = YieldAddress /\ r.armed /\ poll'.on => Writing'
  BY <1>1, <1>3 DEF YieldInv, Quiet
<1> QED
  BY <1>4, <1>5 DEF YieldInv

(* A step that only goes on, from and to a point where the thread has      *)
(* nothing but its guard.                                                  *)
LEMMA PlainStep ==
  ASSUME LoopInv, NEW w \in Workers, NEW y \in Threads, work' = [work EXCEPT ![w] = y],
         UNCHANGED <<backend, poll, hup, conn, listen>>,
         work[w].at \in {"run", "out", "connect"}, y.at \in {"drop", "wait"},
         y.guard = work[w].guard, y.at = "wait" <=> y.guard = 0
  PROVE  LoopInv'
<1>0. /\ work \in [Workers -> Threads] /\ OwnersInv /\ YieldInv
      /\ PollInv(poll, Out, Busy, Late, Held) /\ listen \in Fds /\ conn \in [Peers -> Fds \cup {0}]
      /\ ThreadInv(poll, Late, w, work[w])
      /\ \A v \in Workers \ {w} : ThreadInv(poll, Late, v, work[v]) /\ Apart(work[v], work[w])
  BY DEF LoopInv, WorkInv, OwnersInv
<1>1. OneHeld(y) = OneHeld(work[w])
  BY DEF OneHeld
<1>2. /\ work[w].at \notin {"register", "close", "registering", "cancel"}
      /\ y.at \notin {"register", "close", "registering", "cancel"}
  OBVIOUS
<1>3. /\ Out' = Out /\ Busy' = Busy /\ Late' = Late
      /\ Held = OtherHeld(w) \cup OneHeld(work[w])
      /\ Held' = OtherHeld(w) \cup OneHeld(y)
  BY <1>2, KeptSets
<1>4. Out' = Out /\ Busy' = Busy /\ Late' = Late /\ Held' = Held
  BY ONLY <1>1, <1>3, Zenon
<1>5. PollInv(poll', Out', Busy', Late', Held')
  BY <1>0, <1>4
<1>6. ThreadInv(poll', Late', w, y)
  BY <1>0, <1>4, ZenonT(30) DEF ThreadInv, HasFd
<1>7. \A v \in Workers \ {w} : ThreadInv(poll', Late', v, work[v]) /\ Apart(work[v], y)
  BY <1>0, <1>4 DEF Apart, HasFd
<1>8. OwnersInv'
  BY OwnersKept DEF HasFd
<1>9. YieldInv'
  <2>1. y.guard = YieldAddress => Writing
    BY <1>0 DEF YieldInv
  <2>2. Quiet(poll', poll) /\ poll'.on = poll.on
    BY DEF Quiet
  <2>3. YieldFile \notin hup'
    BY <1>0 DEF YieldInv
  <2>4. work[w].at # "write"
    OBVIOUS
  <2> QED
    BY <2>1, <2>2, <2>3, <2>4, YieldKept
<1> QED
  BY <1>5, <1>6, <1>7, <1>8, <1>9, StepOf

Between == {"register", "close", "registering", "cancel"}

(* A step that changes what the kernel watches, and nothing else of the    *)
(* poll but descriptors.                                                   *)
LEMMA KeptStep ==
  ASSUME LoopInv, NEW w \in Workers, NEW y \in Threads, work' = [work EXCEPT ![w] = y],
         UNCHANGED <<backend, conn, listen>>, work[w].at \notin Between, y.at \notin Between,
         Kept(poll', poll), PollInv(poll', Out, Busy, Late, Held'),
         ThreadInv(poll, Late, w, y), \A v \in Workers \ {w} : Apart(work[v], y), YieldInv'
  PROVE  LoopInv'
<1>1. /\ work[w].at \notin {"register", "close", "registering", "cancel"}
      /\ y.at \notin {"register", "close", "registering", "cancel"}
      /\ y.at \notin HasFd
  BY DEF Between, HasFd
<1>2. Out' = Out /\ Busy' = Busy /\ Late' = Late
  BY <1>1, KeptSets
<1>3. PollInv(poll', Out', Busy', Late', Held')
  BY <1>2
<1>4. ThreadInv(poll', Late', w, y)
  BY <1>2, KeptThread
<1>5. \A v \in Workers : ThreadInv(poll, Late, v, work[v])
  BY DEF LoopInv, WorkInv
<1>6. \A v \in Workers \ {w} : ThreadInv(poll', Late', v, work[v]) /\ Apart(work[v], y)
  BY <1>2, <1>5, KeptThread
<1>7. OwnersInv'
  BY <1>1, OwnersKept
<1>8. backend' = backend
  OBVIOUS
<1> QED
  BY <1>3, <1>4, <1>6, <1>7, <1>8, StepOf

-----------------------------------------------------------------------------
(* The actions *)

(* What the invariant says when thread w takes a step. *)
LEMMA Unfolded ==
  ASSUME LoopInv, NEW w \in Workers
  PROVE  /\ work \in [Workers -> Threads] /\ OwnersInv /\ YieldInv /\ work[w] \in Threads
         /\ PollInv(poll, Out, Busy, Late, Held) /\ poll \in Polls
         /\ listen \in Fds /\ conn \in [Peers -> Fds \cup {0}]
         /\ ThreadInv(poll, Late, w, work[w])
         /\ \A v \in Workers \ {w} : ThreadInv(poll, Late, v, work[v]) /\ Apart(work[v], work[w])
         /\ 0 \notin Addresses /\ 0 \notin Fds
<1>1. /\ work \in [Workers -> Threads] /\ OwnersInv /\ YieldInv
      /\ PollInv(poll, Out, Busy, Late, Held) /\ poll \in Polls
      /\ listen \in Fds /\ conn \in [Peers -> Fds \cup {0}]
      /\ \A v \in Workers : ThreadInv(poll, Late, v, work[v])
      /\ \A v \in Workers : v # w => Apart(work[v], work[w])
  BY DEF LoopInv, WorkInv, OwnersInv, PollInv
<1>2. 0 \notin Addresses /\ 0 \notin Fds
  BY PollAssumption
<1>3. work[w] \in Threads
  BY <1>1
<1> QED
  BY <1>1, <1>2, <1>3

(* The handler returns, a thread enters the loop again, or                 *)
(* connect_endpoint fails or is not called: nothing changes but the point  *)
(* of the thread.                                                          *)
LEMMA StepPlain ==
  ASSUME LoopInv, NEW w \in Workers, Return(w) \/ Reenter(w) \/ NotConnected(w)
  PROVE  LoopInv'
<1>0. work \in [Workers -> Threads] /\ work[w] \in Threads /\ ThreadInv(poll, Late, w, work[w])
  BY Unfolded
<1>1. ASSUME NEW p \in Peers \cup {NoPeer}, NEW at \in {"drop", "wait"},
             work' = [work EXCEPT ![w] = [work[w] EXCEPT !.at = at, !.peer = p]],
             UNCHANGED <<backend, poll, hup, conn, listen>>,
             work[w].at \in {"run", "out", "connect"}, at = "wait" <=> work[w].at = "out"
      PROVE  LoopInv'
  <2> DEFINE y == [work[w] EXCEPT !.at = at, !.peer = p]
  <2>1. y \in Threads /\ y.at = at /\ y.guard = work[w].guard
    BY <1>0, <1>1, ZenonT(30) DEF Threads, Points
  <2>2. y.at \in {"drop", "wait"} /\ (y.at = "wait" <=> y.guard = 0)
    BY <1>0, <1>1, <2>1 DEF ThreadInv
  <2>3. work' = [work EXCEPT ![w] = y]
    BY <1>1
  <2> HIDE DEF y
  <2> QED
    BY <1>1, <2>1, <2>2, <2>3, PlainStep
<1>2. CASE Return(w)
  <2>1. work' = [work EXCEPT ![w] = [work[w] EXCEPT !.at = "drop", !.peer = work[w].peer]]
    BY <1>0, <1>2 DEF Return, GoTo, Threads
  <2>2. UNCHANGED <<backend, poll, hup, conn, listen>> /\ work[w].at = "run" /\ work[w].peer \in Peers \cup {NoPeer}
    BY <1>0, <1>2 DEF Return, At, Threads
  <2> QED
    BY <1>1, <2>1, <2>2
<1>3. CASE Reenter(w)
  <2>1. work' = [work EXCEPT ![w] = [work[w] EXCEPT !.at = "wait", !.peer = work[w].peer]]
    BY <1>0, <1>3, ZenonT(30) DEF Reenter, GoTo, Threads
  <2>2. UNCHANGED <<backend, poll, hup, conn, listen>> /\ work[w].at = "out" /\ work[w].peer \in Peers \cup {NoPeer}
    BY <1>0, <1>3 DEF Reenter, At, Threads
  <2> QED
    BY <1>1, <2>1, <2>2
<1>4. CASE NotConnected(w)
  <2>1. work' = [work EXCEPT ![w] = [work[w] EXCEPT !.at = "drop", !.peer = NoPeer]]
    BY <1>0, <1>4, ZenonT(30) DEF NotConnected, Threads
  <2>2. UNCHANGED <<backend, poll, hup, conn, listen>> /\ work[w].at = "connect" /\ NoPeer \in Peers \cup {NoPeer}
    BY <1>0, <1>4 DEF NotConnected, At, Threads
  <2> QED
    BY <1>1, <2>1, <2>2
<1> QED
  BY <1>2, <1>3, <1>4

(* wait hands an enabled event to the thread: nobody else has it but for   *)
(* the yield notifier.                                                     *)
LEMMA StepWait ==
  ASSUME LoopInv, NEW w \in Workers, Wait(w)
  PROVE  LoopInv'
<1>1. PICK r \in poll.reg : WaitFor(w, r)
  BY DEF Wait
<1> DEFINE at == IF r.file \in hup THEN "eof" ELSE "run"
           y == [work[w] EXCEPT !.guard = r.event, !.at = at]
<1>0. /\ work \in [Workers -> Threads] /\ YieldInv /\ work[w] \in Threads
      /\ PollInv(poll, Out, Busy, Late, Held) /\ poll \in Polls
      /\ ThreadInv(poll, Late, w, work[w])
      /\ \A v \in Workers \ {w} : ThreadInv(poll, Late, v, work[v]) /\ Apart(work[v], work[w])
      /\ 0 \notin Addresses
  BY Unfolded
<1>2. /\ work[w].at = "wait" /\ r.armed /\ (poll.heap[r.event].notifier => poll.on)
      /\ poll' = wait(poll, r) /\ UNCHANGED <<backend, hup, conn, listen>>
  BY <1>1 DEF WaitFor, At, Triggered, E!Triggered, K!Triggered
<1>3. work' = [work EXCEPT ![w] = y]
  BY <1>0, <1>1 DEF WaitFor, Threads
<1>4. /\ PollInv(poll', Out, Busy, Late, Held \cup {r.event})
      /\ Kept(poll', poll) /\ SameFds(poll', poll) /\ poll'.on = poll.on /\ Quiet(poll', poll)
      /\ Live(poll, r.event) /\ poll.heap[r.event].fd = r.fd /\ r.fd \notin Late
      /\ r.file = poll.fd[r.fd]
      /\ r.event \in Held => r.event = YieldAddress
  BY <1>0, <1>2, WaitCall, SMT
<1>5. /\ YieldFile \notin hup /\ poll.heap[YieldAddress].fd = YieldFd
      /\ poll.fd[YieldFd] = YieldFile /\ poll.heap[YieldAddress].notifier
  BY <1>0, Parts DEF YieldInv
<1>6. r.event \in Addresses /\ r.event # 0
  BY <1>0, EventTypes
<1>7. /\ y \in Threads /\ y.at = at /\ y.guard = r.event /\ y.at \in {"eof", "run"}
      /\ y.at = "eof" => r.file \in hup
  BY <1>0, <1>6 DEF Threads, Points
<1> HIDE DEF y
<1>8. work[w].at \notin Between /\ y.at \notin Between /\ work[w].guard = 0
  BY <1>0, <1>2, <1>7 DEF Between, ThreadInv
<1>9. PollInv(poll', Out, Busy, Late, Held')
  <2>1. /\ work[w].at \notin {"register", "close", "registering", "cancel"}
        /\ y.at \notin {"register", "close", "registering", "cancel"}
    BY <1>8 DEF Between
  <2>2. UNCHANGED <<backend, conn, listen>>
    BY <1>2
  <2>3. /\ Held = OtherHeld(w) \cup OneHeld(work[w])
        /\ Held' = OtherHeld(w) \cup OneHeld(y)
    BY <1>3, <2>1, <2>2, KeptSets
  <2>4. OneHeld(work[w]) = {} /\ OneHeld(y) = {r.event}
    BY <1>0, <1>6, <1>7, <1>8 DEF OneHeld
  <2>5. Held' = Held \cup {r.event}
    BY ONLY <2>3, <2>4
  <2> QED
    BY <1>4, <2>5
<1>10. ThreadInv(poll, Late, w, y)
  <2>1. y.at = "eof" => r.event # YieldAddress
    BY <1>4, <1>5, <1>7
  <2> QED
    BY <1>4, <1>6, <1>7, <2>1 DEF ThreadInv, HasFd
<1>11. ASSUME NEW v \in Workers \ {w} PROVE Apart(work[v], y)
  <2>1. work[v].guard = r.event => r.event \in Held
    BY <1>6, <1>11 DEF Held
  <2> QED
    BY <1>4, <1>7, <2>1 DEF Apart, HasFd
<1>12. YieldInv'
  <2>1. y.guard = YieldAddress => Writing
    BY <1>0, <1>2, <1>5, <1>7, ZenonT(30) DEF YieldInv
  <2>2. YieldFile \notin hup' /\ work[w].at # "write"
    BY <1>2, <1>5
  <2> QED
    BY <1>3, <1>4, <2>1, <2>2, YieldKept
<1>13. UNCHANGED <<backend, conn, listen>>
  BY <1>2
<1> QED
  BY <1>3, <1>4, <1>7, <1>8, <1>9, <1>10, <1>11, <1>12, <1>13, KeptStep

(* Dropping the guard enables the event again, or leaves the loop. *)
LEMMA StepGuardDrop ==
  ASSUME LoopInv, NEW w \in Workers, GuardDrop(w)
  PROVE  LoopInv'
<1> DEFINE a == work[w].guard
           y == [Idle EXCEPT !.at = IF Handler(w) = "yield" THEN "out" ELSE "wait"]
<1>0. /\ work \in [Workers -> Threads] /\ YieldInv /\ work[w] \in Threads
      /\ PollInv(poll, Out, Busy, Late, Held) /\ poll \in Polls
      /\ ThreadInv(poll, Late, w, work[w])
      /\ \A v \in Workers \ {w} : ThreadInv(poll, Late, v, work[v]) /\ Apart(work[v], work[w])
      /\ 0 \notin Addresses
  BY Unfolded
<1>2. /\ work[w].at = "drop" /\ poll' = guard_drop(poll, a)
      /\ UNCHANGED <<backend, hup, conn, listen>> /\ work' = [work EXCEPT ![w] = y]
  BY DEF GuardDrop, At
<1>3. a # 0 /\ Live(poll, a) /\ a \in Addresses
  BY <1>0, <1>2 DEF ThreadInv, Live
<1>4. y \in Threads /\ y.guard = 0 /\ y.at \in {"wait", "out"}
  BY DEF Threads, Points, Idle
<1> HIDE DEF y
<1>5. work[w].at \notin Between /\ y.at \notin Between
  BY <1>2, <1>4 DEF Between
<1>6. UNCHANGED <<backend, conn, listen>>
  BY <1>2
<1>7. GivesUp(Held, Held', a)
  <2>1. /\ work[w].at \notin {"register", "close", "registering", "cancel"}
        /\ y.at \notin {"register", "close", "registering", "cancel"}
    BY <1>5 DEF Between
  <2>2. /\ Held = OtherHeld(w) \cup OneHeld(work[w])
        /\ Held' = OtherHeld(w) \cup OneHeld(y)
    BY <1>2, <1>6, <2>1, KeptSets
  <2>3. OneHeld(work[w]) = {a} /\ OneHeld(y) = {}
    BY <1>0, <1>3, <1>4 DEF OneHeld
  <2>4. a \in OtherHeld(w) => a = YieldAddress
    BY <1>0, <1>3 DEF OtherHeld, Apart
  <2> QED
    BY ONLY <2>2, <2>3, <2>4 DEF GivesUp
<1>8. LET n == guard_drop(poll, a) IN
      /\ PollInv(n, Out, Busy, Late, Held')
      /\ Kept(n, poll) /\ SameFds(n, poll) /\ n.on = poll.on
      /\ a # YieldAddress => Quiet(n, poll)
  BY <1>0, <1>3, <1>7, GuardDropCall
<1>9. /\ PollInv(poll', Out, Busy, Late, Held')
      /\ Kept(poll', poll) /\ poll'.on = poll.on
      /\ a # YieldAddress => Quiet(poll', poll)
  BY <1>2, <1>8
<1>10. ThreadInv(poll, Late, w, y)
  BY <1>4 DEF ThreadInv, HasFd
<1>11. \A v \in Workers \ {w} : Apart(work[v], y)
  BY <1>0, <1>4 DEF Apart, HasFd
<1>12. YieldInv'
  <2>1. y.guard # YieldAddress /\ (a = YieldAddress => Writing) /\ YieldFile \notin hup
    BY <1>0, <1>4, SMT DEF YieldInv, YieldAddress
  <2>2. YieldFile \notin hup' /\ work[w].at # "write"
    BY <1>2, <2>1
  <2> QED
    BY <1>2, <1>9, <2>1, <2>2, YieldKept
<1> QED
  BY <1>2, <1>4, <1>5, <1>6, <1>9, <1>10, <1>11, <1>12, KeptStep

(* The call of the control socket, and its continuation that changes       *)
(* nothing but the notification.                                           *)
LEMMA StepNotify ==
  ASSUME LoopInv, NEW w \in Workers, NEW at \in {"drop", "write"}, Unlocked,
         work' = [work EXCEPT ![w].at = at],
         \/ work[w].at = "run" /\ Handler(w) = "api" /\ at = "write"
         \/ work[w].at = "write" /\ at = "drop" /\ Alone(w),
         poll' = IF at = "write" THEN trigger_notification(poll, YieldFd)
                                 ELSE stop_notification(poll, YieldFd),
         UNCHANGED <<backend, hup, conn, listen>>
  PROVE  LoopInv'
<1> DEFINE y == [work[w] EXCEPT !.at = at]
<1>0. /\ work \in [Workers -> Threads] /\ YieldInv /\ work[w] \in Threads
      /\ PollInv(poll, Out, Busy, Late, Held) /\ poll \in Polls
      /\ ThreadInv(poll, Late, w, work[w])
      /\ \A v \in Workers \ {w} : ThreadInv(poll, Late, v, work[v]) /\ Apart(work[v], work[w])
  BY Unfolded
<1>1. work' = [work EXCEPT ![w] = y]
  BY <1>0 DEF Threads
<1>2. y \in Threads /\ y.at = at /\ y.guard = work[w].guard
  BY <1>0 DEF Threads, Points
<1> HIDE DEF y
<1>3. work[w].guard # YieldAddress
  <2>1. poll.heap[YieldAddress].handler = "yield"
    BY <1>0, Parts
  <2> QED
    BY <1>0, <2>1 DEF Handler, ThreadInv
<1>4. work[w].at \notin Between /\ y.at \notin Between
  BY <1>2 DEF Between
<1>5. UNCHANGED <<backend, conn, listen>>
  OBVIOUS
<1>6. Held' = Held
  <2>1. /\ work[w].at \notin {"register", "close", "registering", "cancel"}
        /\ y.at \notin {"register", "close", "registering", "cancel"}
    BY <1>4 DEF Between
  <2>2. /\ Held = OtherHeld(w) \cup OneHeld(work[w])
        /\ Held' = OtherHeld(w) \cup OneHeld(y)
    BY <1>1, <1>5, <2>1, KeptSets
  <2>3. OneHeld(work[w]) = OneHeld(y)
    BY <1>2 DEF OneHeld
  <2> QED
    BY ONLY <2>2, <2>3, Zenon
<1>7. YieldFd \notin Busy
  BY Idling
<1>8. /\ PollInv(poll', Out, Busy, Late, Held) /\ Kept(poll', poll)
      /\ at = "drop" => Disabled(poll', YieldAddress) \/ ~poll'.on
  <2>1. /\ LET n == trigger_notification(poll, YieldFd) IN
           PollInv(n, Out, Busy, Late, Held) /\ Kept(n, poll)
        /\ LET n == stop_notification(poll, YieldFd) IN
           /\ PollInv(n, Out, Busy, Late, Held) /\ Kept(n, poll)
           /\ Disabled(n, YieldAddress) \/ ~n.on
    BY <1>0, <1>7, NotifyCalls
  <2>2. CASE at = "write"
    BY <2>1, <2>2
  <2>3. CASE at = "drop"
    BY <2>1, <2>3
  <2> QED
    BY <2>2, <2>3
<1>9. PollInv(poll', Out, Busy, Late, Held')
  BY <1>6, <1>8
<1>10. ThreadInv(poll, Late, w, y)
  BY <1>0, <1>2, <1>3 DEF ThreadInv, HasFd
<1>11. \A v \in Workers \ {w} : Apart(work[v], y)
  BY <1>0, <1>2 DEF Apart, HasFd
<1>12. YieldInv'
  <2>1. \A v \in Workers : work'[v] = IF v = w THEN y ELSE work[v]
    BY <1>0, <1>1
  <2>2. YieldFile \notin hup'
    BY <1>0 DEF YieldInv
  <2>3. CASE at = "write"
    <3>1. Writing'
      BY <1>2, <2>1, <2>3 DEF Writing
    <3> QED
      BY <2>2, <3>1 DEF YieldInv
  <2>4. CASE at = "drop"
    <3>1. Alone(w)
      BY <2>4
    <3>2. \A v \in Workers : work'[v].guard # YieldAddress
      <4>1. \A v \in Workers \ {w} : work[v].guard = 0
        BY <1>0, <3>1 DEF Alone, At, ThreadInv
      <4> QED
        BY <1>2, <1>3, <2>1, <4>1, SMT DEF YieldAddress
    <3>3. \A r \in poll'.reg : r.event = YieldAddress /\ r.armed => ~poll'.on
      BY <1>8, <2>4 DEF Disabled
    <3> QED
      BY <2>2, <3>2, <3>3 DEF YieldInv
  <2> QED
    BY <2>3, <2>4
<1> QED
  BY <1>1, <1>2, <1>4, <1>5, <1>8, <1>9, <1>10, <1>11, <1>12, KeptStep

(* The control socket asks the other threads to yield. *)
LEMMA StepApiSet ==
  ASSUME LoopInv, NEW w \in Workers, ApiSet(w)
  PROVE  LoopInv'
<1>1. /\ work[w].at = "run" /\ Handler(w) = "api" /\ Unlocked
      /\ poll' = trigger_notification(poll, YieldFd)
      /\ work' = [work EXCEPT ![w].at = "write"]
      /\ UNCHANGED <<backend, hup, conn, listen>>
  BY DEF ApiSet, Runs, At, GoTo
<1>2. "write" \in {"drop", "write"}
  OBVIOUS
<1> QED
  BY <1>1, <1>2, StepNotify

(* EventGuard::cancel, the first step: epoll drops the event while the     *)
(* thread has the mutex; kqueue only takes it out of the table.            *)
LEMMA StepCancelBegin ==
  ASSUME LoopInv, NEW w \in Workers, CancelBegin(w)
  PROVE  LoopInv'
<1> DEFINE a == work[w].guard
           d == poll.heap[a].fd
           y == [work[w] EXCEPT !.at = "cancel", !.fd = d]
<1>0. /\ work \in [Workers -> Threads] /\ YieldInv /\ work[w] \in Threads
      /\ PollInv(poll, Out, Busy, Late, Held) /\ poll \in Polls
      /\ ThreadInv(poll, Late, w, work[w])
      /\ \A v \in Workers \ {w} : ThreadInv(poll, Late, v, work[v]) /\ Apart(work[v], work[w])
      /\ 0 \notin Addresses /\ 0 \notin Fds
  BY Unfolded
<1>1. /\ work[w].at = "eof" /\ Unlocked /\ poll' = ClearBegin(poll, w, d)
      /\ hup' \subseteq hup /\ UNCHANGED <<backend, conn, listen>>
  BY DEF CancelBegin, At, StillOpen
<1>2. work' = [work EXCEPT ![w] = y]
  BY <1>0 DEF CancelBegin, Threads
<1>3. a # 0 /\ Live(poll, a) /\ d \notin Late /\ a # YieldAddress /\ a \in Addresses
  BY <1>0, <1>1 DEF ThreadInv, Live
<1>4. d \in Fds
  BY <1>0, <1>3, EventTypes
<1>5. y \in Threads /\ y.at = "cancel" /\ y.fd = d /\ y.guard = a
  BY <1>0, <1>4 DEF Threads, Points
<1> HIDE DEF y, d
<1>6. /\ Busy = {} /\ (~Epolled => Late = {})
      /\ \A v \in Workers : work[v].at # "cancel" /\ (~Epolled => work[v].at # "registering")
  BY <1>1, Idling
<1>7. poll.events[d] = a /\ a \in Held
  BY <1>0, <1>3, <1>6 DEF PollInv, Filed, Held, d
<1>8. /\ PollInv(poll', Out, WithK(Busy, d), WithK(Late, d), Held)
      /\ Clearing(poll', poll, w, d, a)
  BY <1>0, <1>1, <1>3, <1>4, <1>7, ClearBeginCall
<1>9. Out' = Out /\ Busy' = WithK(Busy, d) /\ Late' = WithK(Late, d) /\ Held' = Held
  <2>1. /\ Out = {listen} \cup Connected \cup OtherOut(w) \cup OneOut(work[w])
        /\ Busy = OtherBusy(w) \cup OneBusy(work[w])
        /\ Late = OtherLate(w) \cup OneLate(work[w])
        /\ Held = OtherHeld(w) \cup OneHeld(work[w])
        /\ Out' = {listen} \cup Connected \cup OtherOut(w) \cup OneOut(y)
        /\ Busy' = OtherBusy(w) \cup OneBusy(y)
        /\ Late' = OtherLate(w) \cup OneLate(y)
        /\ Held' = OtherHeld(w) \cup OneHeld(y)
    BY <1>1, <1>2, Sets
  <2>2. OneOut(work[w]) = {} /\ OneBusy(work[w]) = {} /\ OneLate(work[w]) = {}
    BY <1>1, NoSets
  <2>3. /\ OneOut(y) = {} /\ OneBusy(y) = (IF Epolled THEN {} ELSE {d})
        /\ OneLate(y) = (IF Epolled THEN {} ELSE {d}) /\ OneHeld(y) = OneHeld(work[w])
    BY <1>4, <1>5 DEF OneOut, OneBusy, OneLate, OneHeld, HasOut, HasBusy, HasLate, HasFd
  <2> QED
    BY ONLY <2>1, <2>2, <2>3 DEF WithK
<1>10. PollInv(poll', Out', Busy', Late', Held')
  BY <1>8, <1>9
<1>11. /\ poll'.mutex = w /\ poll'.events[d] = 0
       /\ \A g \in Addresses : g # a => poll'.heap[g] = poll.heap[g]
       /\ IF Epolled THEN ~Live(poll', a) ELSE poll'.heap = poll.heap
  BY <1>0, <1>3, <1>4, <1>8, Types, SMT DEF Clearing, Live
<1>12. ThreadInv(poll', Late', w, y)
  <2>1. y.at \notin {"wait", "out", "registering"} /\ y.at \notin HasFd /\ d # 0
    BY <1>0, <1>4, <1>5 DEF HasFd
  <2>2. ~Epolled => Live(poll', a) /\ poll'.heap[a].fd = d
    BY <1>3, <1>11 DEF Live, d
  <2> QED
    BY <1>3, <1>5, <1>11, <2>1, <2>2 DEF ThreadInv
<1>13. ASSUME NEW v \in Workers \ {w} PROVE ThreadInv(poll', Late', v, work[v]) /\ Apart(work[v], y)
  <2>1. work[v].at # "cancel" /\ (~Epolled => work[v].at # "registering")
    BY <1>6
  <2>2. ThreadInv(poll, Late, v, work[v]) /\ Apart(work[v], work[w]) /\ work[v] \in Threads
    BY <1>0
  <2>3. ASSUME work[v].guard # 0
        PROVE  Live(poll', work[v].guard) /\ poll'.heap[work[v].guard].fd \notin Late'
    <3>1. Live(poll, work[v].guard) /\ poll.heap[work[v].guard].fd \notin Late /\ work[v].guard \in Addresses
      BY <2>1, <2>2, <2>3 DEF ThreadInv, Live
    <3>2. work[v].guard # a
      BY <1>3, <2>2, <2>3 DEF Apart
    <3>3. poll.heap[work[v].guard].fd # d
      BY <1>0, <1>3, <3>1, <3>2 DEF PollInv, Owned, d
    <3> QED
      BY <1>9, <1>11, <3>1, <3>2, <3>3 DEF Live, WithK
  <2>4. ASSUME work[v].at = "registering"
        PROVE  Epolled /\ \E b \in Addresses : Live(poll', b) /\ poll'.heap[b].fd = work[v].fd
    <3>1. PICK b \in Addresses : Live(poll, b) /\ poll.heap[b].fd = work[v].fd
      BY <2>2, <2>4 DEF ThreadInv
    <3>2. work[v].fd \in Fds
      BY <1>0, <3>1, EventTypes
    <3>3. Epolled /\ work[v].fd \in Late
      BY <2>1, <2>4, <3>2 DEF Late, HasLate
    <3>4. b # a
      BY <1>3, <3>1, <3>3 DEF d
    <3> QED
      BY <1>11, <3>1, <3>3, <3>4 DEF Live
  <2>5. ThreadInv(poll', Late', v, work[v])
    BY <2>1, <2>2, <2>3, <2>4 DEF ThreadInv
  <2>6. Apart(work[v], y)
    BY <1>5, <2>2 DEF Apart, HasFd
  <2> QED
    BY <2>5, <2>6
<1>14. OwnersInv'
  <2>1. y.at \notin HasFd
    BY <1>5 DEF HasFd
  <2> QED
    BY <1>1, <1>2, <2>1, OwnersKept
<1>15. YieldInv'
  <2>1. Quiet(poll', poll) /\ poll'.on = poll.on
    BY <1>8 DEF Clearing
  <2>2. y.guard # YieldAddress /\ YieldFile \notin hup' /\ work[w].at # "write"
    BY <1>0, <1>1, <1>3, <1>5 DEF YieldInv
  <2> QED
    BY <1>2, <2>1, <2>2, YieldKept
<1>16. backend' = backend
  BY <1>1
<1> QED
  BY <1>2, <1>5, <1>10, <1>12, <1>13, <1>14, <1>15, <1>16, StepOf

(* The second step: the mutex is free and the event is gone on both. *)
LEMMA StepCancelEnd ==
  ASSUME LoopInv, NEW w \in Workers, CancelEnd(w)
  PROVE  LoopInv'
<1> DEFINE a == work[w].guard
           d == work[w].fd
<1>0. /\ work \in [Workers -> Threads] /\ YieldInv /\ work[w] \in Threads
      /\ PollInv(poll, Out, Busy, Late, Held) /\ poll \in Polls
      /\ ThreadInv(poll, Late, w, work[w])
      /\ \A v \in Workers \ {w} : ThreadInv(poll, Late, v, work[v]) /\ Apart(work[v], work[w])
      /\ 0 \notin Addresses /\ 0 \notin Fds
  BY Unfolded
<1>1. /\ work[w].at = "cancel" /\ poll' = ClearEnd(poll, d, a)
      /\ hup' \subseteq hup /\ UNCHANGED <<backend, conn, listen>>
      /\ work' = [work EXCEPT ![w] = Idle]
  BY DEF CancelEnd, At, StillOpen
<1>2. /\ a # 0 /\ a \in Addresses /\ a # YieldAddress /\ d \in Fds
      /\ poll.mutex = w /\ poll.events[d] = 0
      /\ Epolled => ~Live(poll, a)
      /\ ~Epolled => Live(poll, a) /\ poll.heap[a].fd = d
  BY <1>0, <1>1 DEF ThreadInv, Threads
<1>3. Idle \in Threads /\ Idle.at = "wait" /\ Idle.guard = 0
  BY DEF Threads, Points, Idle
<1>4. Out' = Out /\ Busy = WithK(Busy', d) /\ Late = WithK(Late', d) /\ Held' \subseteq Held
      /\ Held \subseteq Held' \cup {a}
  <2>1. /\ Out = {listen} \cup Connected \cup OtherOut(w) \cup OneOut(work[w])
        /\ Busy = OtherBusy(w) \cup OneBusy(work[w])
        /\ Late = OtherLate(w) \cup OneLate(work[w])
        /\ Held = OtherHeld(w) \cup OneHeld(work[w])
        /\ Out' = {listen} \cup Connected \cup OtherOut(w) \cup OneOut(Idle)
        /\ Busy' = OtherBusy(w) \cup OneBusy(Idle)
        /\ Late' = OtherLate(w) \cup OneLate(Idle)
        /\ Held' = OtherHeld(w) \cup OneHeld(Idle)
    BY <1>1, Sets
  <2>2. OneOut(Idle) = {} /\ OneBusy(Idle) = {} /\ OneLate(Idle) = {}
    BY <1>3, NoSets
  <2>3. /\ OneOut(work[w]) = {} /\ OneBusy(work[w]) = (IF Epolled THEN {} ELSE {d})
        /\ OneLate(work[w]) = (IF Epolled THEN {} ELSE {d})
    BY <1>1, <1>2 DEF OneOut, OneBusy, OneLate, HasOut, HasBusy, HasLate, HasFd
  <2>4. OneHeld(Idle) = {} /\ OneHeld(work[w]) = {a}
    BY <1>0, <1>2, <1>3 DEF OneHeld
  <2> QED
    BY ONLY <2>1, <2>2, <2>3, <2>4 DEF WithK
<1>5. /\ PollInv(poll', Out, Busy', Late', Held)
      /\ Cleared(poll', poll, d, a)
  <2>1. PollInv(poll, Out, WithK(Busy', d), WithK(Late', d), Held)
    BY <1>0, <1>4
  <2>2. Epolled => d \notin Busy'
    BY <1>1 DEF Busy, HasBusy, Epolled
  <2> QED
    BY <1>1, <1>2, <2>1, <2>2, ClearEndCall
<1>6. /\ poll'.events = poll.events /\ ~Live(poll', a)
      /\ \A g \in Addresses : g # a => poll'.heap[g] = poll.heap[g]
      /\ Epolled => poll'.heap = poll.heap
  BY <1>0, <1>2, <1>5, Types, ZenonT(30) DEF Cleared, Live
<1>7. PollInv(poll', Out', Busy', Late', Held')
  <2>1. Held' \subseteq Held /\ \A x \in Held : Live(poll', x) => x \in Held'
    BY <1>4, <1>6
  <2>2. PollInv(poll', Out, Busy', Late', Held')
    BY <1>5, <2>1, LessHeld
  <2> QED
    BY <1>4, <2>2
<1>8. ThreadInv(poll', Late', w, Idle)
  BY <1>3 DEF ThreadInv, HasFd
<1>9. ASSUME NEW v \in Workers \ {w} PROVE ThreadInv(poll', Late', v, work[v]) /\ Apart(work[v], Idle)
  <2>1. ThreadInv(poll, Late, v, work[v]) /\ Apart(work[v], work[w]) /\ work[v] \in Threads /\ v # w
    BY <1>0
  <2>2. work[v].at # "cancel" /\ (~Epolled => work[v].at # "registering")
    BY <1>2, <2>1 DEF ThreadInv
  <2>3. ASSUME work[v].guard # 0
        PROVE  Live(poll', work[v].guard) /\ poll'.heap[work[v].guard].fd \notin Late'
    <3>1. Live(poll, work[v].guard) /\ poll.heap[work[v].guard].fd \notin Late /\ work[v].guard \in Addresses
      BY <2>1, <2>2, <2>3 DEF ThreadInv, Live
    <3>2. work[v].guard # a
      BY <1>2, <2>1, <2>3 DEF Apart
    <3> QED
      BY <1>4, <1>6, <3>1, <3>2 DEF Live, WithK
  <2>4. ASSUME work[v].at = "registering"
        PROVE  Epolled /\ \E b \in Addresses : Live(poll', b) /\ poll'.heap[b].fd = work[v].fd
    BY <1>6, <2>1, <2>2, <2>4 DEF ThreadInv, Live
  <2>5. ThreadInv(poll', Late', v, work[v])
    BY <2>1, <2>2, <2>3, <2>4 DEF ThreadInv
  <2>6. Apart(work[v], Idle)
    BY <1>3 DEF Apart, HasFd
  <2> QED
    BY <2>5, <2>6
<1>10. OwnersInv'
  <2>1. Idle.at \notin HasFd
    BY <1>3 DEF HasFd
  <2> QED
    BY <1>1, <2>1, OwnersKept
<1>11. YieldInv'
  <2>1. Quiet(poll', poll) /\ poll'.on = poll.on
    BY <1>5 DEF Cleared, Quiet
  <2>2. Idle.guard # YieldAddress /\ YieldFile \notin hup' /\ work[w].at # "write"
    BY <1>0, <1>1, <1>3, SMT DEF YieldInv, YieldAddress
  <2> QED
    BY <1>1, <2>1, <2>2, YieldKept
<1>12. backend' = backend
  BY <1>1
<1> QED
  BY <1>1, <1>3, <1>7, <1>8, <1>9, <1>10, <1>11, <1>12, StepOf

(* What belongs to an owner does not belong to an event. *)
LEMMA Disjoint ==
  ASSUME LoopInv, NEW d \in Out
  PROVE  /\ d \in Fds /\ poll.fd[d] # 0 /\ d # YieldFd /\ poll.fd[d] # YieldFile
         /\ \A a \in Addresses : Live(poll, a) => poll.heap[a].fd # d
<1>1. PollInv(poll, Out, Busy, Late, Held)
  BY DEF LoopInv
<1>2. /\ Owned(poll, Out) /\ Out \subseteq Fds /\ Notifier(poll) /\ Live(poll, YieldAddress)
      /\ YieldAddress \in Addresses /\ poll.heap[YieldAddress].fd = YieldFd
  BY <1>1, Parts
<1>3. d \in Fds /\ poll.fd[d] # 0 /\ \A a \in Addresses : Live(poll, a) => poll.heap[a].fd # d
  BY <1>2 DEF Owned
<1>4. d # YieldFd
  BY <1>2, <1>3
<1> QED
  BY <1>2, <1>3, <1>4 DEF Notifier

(* shutdown_endpoint: the descriptor goes over from the endpoint to the    *)
(* thread, which will close it.                                            *)
LEMMA StepShutdown ==
  ASSUME LoopInv, NEW w \in Workers, NEW p \in Peers, ShutdownEndpoint(w, p)
  PROVE  LoopInv'
<1> DEFINE d == conn[p]
           y == [work[w] EXCEPT !.at = "close", !.fd = d, !.peer = p]
<1>0. /\ work \in [Workers -> Threads] /\ YieldInv /\ OwnersInv /\ work[w] \in Threads
      /\ PollInv(poll, Out, Busy, Late, Held)
      /\ listen \in Fds /\ conn \in [Peers -> Fds \cup {0}]
      /\ ThreadInv(poll, Late, w, work[w])
      /\ \A v \in Workers \ {w} : ThreadInv(poll, Late, v, work[v]) /\ Apart(work[v], work[w])
      /\ 0 \notin Addresses /\ 0 \notin Fds
  BY Unfolded
<1>1. /\ work[w].at = "run" /\ d # 0 /\ conn' = [conn EXCEPT ![p] = 0]
      /\ hup' = hup \cup {poll.fd[d]} /\ UNCHANGED <<backend, poll, listen>>
  BY DEF ShutdownEndpoint, Runs, At
<1>2. work' = [work EXCEPT ![w] = y]
  BY <1>0 DEF ShutdownEndpoint, Threads
<1>3. d \in Fds /\ d \in Connected /\ d # listen /\ \A q \in Peers : q # p => conn[q] # d
  BY <1>0, <1>1 DEF Connected, OwnersInv
<1>4. y \in Threads /\ y.at = "close" /\ y.fd = d /\ y.guard = work[w].guard
  BY <1>0, <1>3 DEF Threads, Points
<1> HIDE DEF y, d
<1>5. conn' \in [Peers -> Fds \cup {0}] /\ \A q \in Peers : conn'[q] = IF q = p THEN 0 ELSE conn[q]
  BY <1>0, <1>1
<1>6. Connected' = Connected \ {d}
  BY <1>1, <1>3, <1>5, SMT DEF Connected, d
<1>7. Out' = Out /\ Busy' = Busy /\ Late' = Late /\ Held' = Held
  <2>1. /\ Out = {listen} \cup Connected \cup OtherOut(w) \cup OneOut(work[w])
        /\ Busy = OtherBusy(w) \cup OneBusy(work[w])
        /\ Late = OtherLate(w) \cup OneLate(work[w])
        /\ Held = OtherHeld(w) \cup OneHeld(work[w])
    BY <1>0, SetsBefore
  <2>2. listen' = listen /\ listen' \in Fds /\ backend' = backend
    BY <1>0, <1>1
  <2>3. /\ Out' = {listen'} \cup Connected' \cup OtherOut(w) \cup OneOut(y)
        /\ Busy' = OtherBusy(w) \cup OneBusy(y)
        /\ Late' = OtherLate(w) \cup OneLate(y)
        /\ Held' = OtherHeld(w) \cup OneHeld(y)
    BY <1>0, <1>2, <1>5, <2>2, SetsAfter
  <2>4. OneOut(work[w]) = {} /\ OneBusy(work[w]) = {} /\ OneLate(work[w]) = {}
    BY <1>1, NoSets
  <2>5. OneOut(y) = {d} /\ OneBusy(y) = {} /\ OneLate(y) = {} /\ OneHeld(y) = OneHeld(work[w])
    BY <1>3, <1>4 DEF OneOut, OneBusy, OneLate, OneHeld, HasOut, HasBusy, HasLate, HasFd
  <2> QED
    BY ONLY <1>3, <1>6, <2>1, <2>2, <2>3, <2>4, <2>5
<1>8. PollInv(poll', Out', Busy', Late', Held')
  BY <1>0, <1>1, <1>7
<1>9. ThreadInv(poll', Late', w, y)
  BY <1>0, <1>1, <1>3, <1>4, <1>7 DEF ThreadInv, HasFd
<1>10. ASSUME NEW v \in Workers \ {w} PROVE ThreadInv(poll', Late', v, work[v]) /\ Apart(work[v], y)
  <2>1. work[v].at \in HasFd => work[v].fd # d
    BY <1>0 DEF OwnersInv, d
  <2>2. Apart(work[v], y)
    BY <1>0, <1>4, <2>1 DEF Apart
  <2> QED
    BY <1>0, <1>1, <1>7, <2>2
<1>11. OwnersInv'
  <2>1. /\ \A q \in Peers : conn'[q] # listen'
        /\ \A q, o \in Peers : q # o /\ conn'[q] # 0 => conn'[q] # conn'[o]
    BY <1>0, <1>1, <1>5 DEF OwnersInv
  <2>2. ASSUME NEW v \in Workers, work'[v].at \in HasFd
        PROVE  work'[v].fd # listen' /\ \A q \in Peers : conn'[q] # work'[v].fd
    <3>1. CASE v = w
      <4>1. work'[v] = y
        BY <1>0, <1>2, <3>1
      <4> QED
        BY <1>1, <1>3, <1>4, <1>5, <4>1
    <3>2. CASE v # w
      <4>1. work'[v] = work[v]
        BY <1>0, <1>2, <3>2
      <4>2. work[v].fd # 0
        BY <1>0, <2>2, <3>2, <4>1 DEF ThreadInv
      <4> QED
        BY <1>0, <1>1, <1>5, <2>2, <4>1, <4>2 DEF OwnersInv
    <3> QED
      BY <3>1, <3>2
  <2>3. listen' \in Fds
    BY <1>0, <1>1
  <2> QED
    BY <1>5, <2>1, <2>2, <2>3 DEF OwnersInv
<1>12. YieldInv'
  <2>1. Quiet(poll', poll) /\ poll'.on = poll.on
    BY <1>1 DEF Quiet
  <2>2. d \in Out
    BY <1>3 DEF Out
  <2>3. YieldFile \notin hup' /\ work[w].at # "write"
    BY <1>0, <1>1, <2>2, Disjoint DEF YieldInv
  <2>4. y.guard = YieldAddress => Writing
    BY <1>0, <1>4 DEF YieldInv
  <2> QED
    BY <1>2, <2>1, <2>3, <2>4, YieldKept
<1>13. backend' = backend
  BY <1>1
<1> QED
  BY <1>2, <1>4, <1>8, <1>9, <1>10, <1>11, <1>12, <1>13, StepOf

(* The descriptor that a thread owns is no other thread's, nor an          *)
(* endpoint's.                                                             *)
LEMMA OwnFd ==
  ASSUME LoopInv, NEW w \in Workers, work[w].at \in HasFd
  PROVE  /\ work[w].fd \in Fds /\ work[w].fd # listen /\ work[w].fd \notin Connected
         /\ work[w].fd \notin OtherOut(w) /\ work[w].fd \in Out
         /\ OneOut(work[w]) = {work[w].fd}
<1>0. /\ OwnersInv /\ work[w] \in Threads /\ ThreadInv(poll, Late, w, work[w])
      /\ \A v \in Workers \ {w} : Apart(work[v], work[w])
  BY Unfolded
<1>1. work[w].fd \in Fds
  BY <1>0 DEF ThreadInv, Threads
<1>2. work[w].fd \in Out /\ OneOut(work[w]) = {work[w].fd}
  BY <1>1 DEF Out, OneOut, HasOut
<1>3. work[w].fd # listen /\ work[w].fd \notin Connected
  BY <1>0 DEF OwnersInv, Connected
<1>4. work[w].fd \notin OtherOut(w)
  BY <1>0 DEF OtherOut, HasOut, Apart
<1> QED
  BY <1>1, <1>2, <1>3, <1>4

(* The thread closes the descriptor that it owns, which no event and no    *)
(* other thread has.                                                       *)
LEMMA StepCloseConn ==
  ASSUME LoopInv, NEW w \in Workers, CloseConn(w)
  PROVE  LoopInv'
<1> DEFINE d == work[w].fd
<1>0. /\ work \in [Workers -> Threads] /\ YieldInv /\ OwnersInv /\ work[w] \in Threads
      /\ PollInv(poll, Out, Busy, Late, Held)
      /\ listen \in Fds /\ conn \in [Peers -> Fds \cup {0}]
      /\ ThreadInv(poll, Late, w, work[w])
      /\ \A v \in Workers \ {w} : ThreadInv(poll, Late, v, work[v]) /\ Apart(work[v], work[w])
      /\ 0 \notin Addresses /\ 0 \notin Fds
  BY Unfolded
<1>1. /\ work[w].at = "close" /\ poll' = close_all(poll, {d})
      /\ hup' \subseteq hup /\ UNCHANGED <<backend, conn, listen>>
  BY DEF CloseConn, At, StillOpen, close
<1>2. PICK y : /\ y \in Threads /\ y.at \in {"connect", "drop"} /\ y.fd = 0 /\ y.guard = work[w].guard
               /\ work' = [work EXCEPT ![w] = y]
  <2>1. CASE Handler(w) = "udp"
    <3> DEFINE y == [work[w] EXCEPT !.at = "connect", !.fd = 0]
    <3>1. y \in Threads /\ y.at = "connect" /\ y.fd = 0 /\ y.guard = work[w].guard
      BY <1>0 DEF Threads, Points
    <3>2. work' = [work EXCEPT ![w] = y]
      BY <1>0, <2>1 DEF CloseConn, Threads
    <3> QED
      BY <3>1, <3>2
  <2>2. CASE Handler(w) # "udp"
    <3> DEFINE y == [work[w] EXCEPT !.at = "drop", !.fd = 0, !.peer = NoPeer]
    <3>1. y \in Threads /\ y.at = "drop" /\ y.fd = 0 /\ y.guard = work[w].guard
      BY <1>0 DEF Threads, Points
    <3>2. work' = [work EXCEPT ![w] = y]
      BY <1>0, <2>2 DEF CloseConn, Threads
    <3> QED
      BY <3>1, <3>2
  <2> QED
    BY <2>1, <2>2
<1>3. d \in Fds /\ d # listen /\ d \notin Connected /\ d \notin OtherOut(w) /\ d \in Out
  <2>1. work[w].at \in HasFd
    BY <1>1 DEF HasFd
  <2> QED
    BY <2>1, OwnFd
<1>4. Out' = Out \ {d} /\ Busy' = Busy /\ Late' = Late /\ Held' = Held
  <2>1. /\ Out = {listen} \cup Connected \cup OtherOut(w) \cup OneOut(work[w])
        /\ Busy = OtherBusy(w) \cup OneBusy(work[w])
        /\ Late = OtherLate(w) \cup OneLate(work[w])
        /\ Held = OtherHeld(w) \cup OneHeld(work[w])
        /\ Out' = {listen} \cup Connected \cup OtherOut(w) \cup OneOut(y)
        /\ Busy' = OtherBusy(w) \cup OneBusy(y)
        /\ Late' = OtherLate(w) \cup OneLate(y)
        /\ Held' = OtherHeld(w) \cup OneHeld(y)
    BY <1>1, <1>2, Sets
  <2>2. OneOut(y) = {} /\ OneBusy(y) = {} /\ OneLate(y) = {}
    BY <1>2, NoSets
  <2>3. /\ OneOut(work[w]) = {d} /\ OneBusy(work[w]) = {} /\ OneLate(work[w]) = {}
        /\ OneHeld(y) = OneHeld(work[w])
    BY <1>1, <1>2, <1>3 DEF OneOut, OneBusy, OneLate, OneHeld, HasOut, HasBusy, HasLate, HasFd
  <2> QED
    BY ONLY <1>3, <2>1, <2>2, <2>3
<1>5. /\ PollInv(poll', Out \ {d}, Busy, Late, Held)
      /\ Kept(poll', poll) /\ poll'.on = poll.on /\ poll'.reg \subseteq poll.reg
  <2>1. {d} \subseteq Out
    BY <1>3
  <2>2. PollInv(close_all(poll, {d}), Out \ {d}, Busy, Late, Held) /\ Closed(close_all(poll, {d}), poll, {d})
    BY ONLY <1>0, <2>1, CloseAll, Zenon
  <2> QED
    BY <1>1, <2>2 DEF Closed
<1>6. PollInv(poll', Out', Busy', Late', Held')
  BY <1>4, <1>5
<1>7. ThreadInv(poll', Late', w, y)
  <2>1. ThreadInv(poll, Late, w, y)
    BY <1>0, <1>1, <1>2 DEF ThreadInv, HasFd
  <2> QED
    BY <1>4, <1>5, <2>1, KeptThread
<1>8. ASSUME NEW v \in Workers \ {w} PROVE ThreadInv(poll', Late', v, work[v]) /\ Apart(work[v], y)
  <2>1. Apart(work[v], y)
    BY <1>0, <1>2 DEF Apart, HasFd
  <2> QED
    BY <1>0, <1>4, <1>5, <2>1, KeptThread
<1>9. OwnersInv'
  <2>1. y.at \notin HasFd
    BY <1>2 DEF HasFd
  <2> QED
    BY <1>1, <1>2, <2>1, OwnersKept
<1>10. YieldInv'
  <2>1. Quiet(poll', poll) /\ poll'.on = poll.on
    BY <1>5 DEF Quiet
  <2>2. YieldFile \notin hup' /\ work[w].at # "write"
    BY <1>0, <1>1 DEF YieldInv
  <2>3. y.guard = YieldAddress => Writing
    BY <1>0, <1>2 DEF YieldInv
  <2> QED
    BY <1>2, <2>1, <2>2, <2>3, YieldKept
<1>11. backend' = backend
  BY <1>1
<1> QED
  BY <1>2, <1>6, <1>7, <1>8, <1>9, <1>10, <1>11, StepOf

(* A thread that did not take part in the first step of a registration. *)
LEMMA BoxedThread ==
  ASSUME NEW s, NEW n, NEW t, NEW d, NEW h, NEW a, Boxes(n, s, t, d, h, a),
         s.heap \in [Addresses -> EventType \cup {E!Free}], ~Live(s, a),
         \A b \in Addresses : Live(s, b) => s.heap[b].fd # d,
         NEW late, NEW v, NEW x, ThreadInv(s, late, v, x), x.guard # a,
         x.at # "cancel", x.at = "registering" => Epolled
  PROVE  ThreadInv(n, WithE(late, d), v, x)
<1>1. /\ \A b \in Addresses : Live(s, b) => b # a /\ n.heap[b] = s.heap[b] /\ Live(n, b)
      /\ \A b : Live(s, b) => b \in Addresses
  BY DEF Boxes, Live
<1>2. x.guard # 0 => Live(n, x.guard) /\ n.heap[x.guard].fd \notin WithE(late, d)
  BY <1>1 DEF ThreadInv, WithE
<1>3. x.at = "registering" => \E b \in Addresses : Live(n, b) /\ n.heap[b].fd = x.fd
  BY <1>1 DEF ThreadInv
<1> QED
  BY <1>2, <1>3 DEF ThreadInv

(* A thread that did not take part in the second step of a registration. *)
LEMMA RegisteredThread ==
  ASSUME NEW s, NEW n, NEW d, NEW a, Registers(n, s, d, a),
         NEW late, NEW v, NEW x, ThreadInv(s, late, v, x), NEW left, left \subseteq late,
         x.at \in {"registering", "cancel"} => Epolled
  PROVE  ThreadInv(n, left, v, x)
<1>1. ThreadInv(s, left, v, x)
  BY LessLate
<1>2. CASE Epolled
  <2>1. Kept(n, s)
    BY <1>2 DEF Registers, Kept
  <2> QED
    BY <1>1, <2>1, KeptThread
<1>3. CASE ~Epolled
  <2>1. x.at # "registering" /\ x.at # "cancel"
    BY <1>3
  <2>2. n.heap = s.heap
    BY DEF Registers
  <2> QED
    BY <1>1, <2>1, <2>2 DEF ThreadInv, Live
<1> QED
  BY <1>2, <1>3

(* The second step: the event is in the table and with the kernel. *)
LEMMA StepRegisterEnd ==
  ASSUME LoopInv, NEW w \in Workers, RegisterConnEnd(w)
  PROVE  LoopInv'
<1> DEFINE d == work[w].fd
           a == Boxed(d)
           y == [work[w] EXCEPT !.at = "drop", !.fd = 0, !.peer = NoPeer]
           n == RegisterEnd(poll, d, a)
<1>0. /\ work \in [Workers -> Threads] /\ OwnersInv /\ YieldInv /\ work[w] \in Threads
      /\ PollInv(poll, Out, Busy, Late, Held) /\ poll \in Polls
      /\ listen \in Fds /\ conn \in [Peers -> Fds \cup {0}]
      /\ ThreadInv(poll, Late, w, work[w])
      /\ \A v \in Workers \ {w} : ThreadInv(poll, Late, v, work[v]) /\ Apart(work[v], work[w])
      /\ 0 \notin Addresses /\ 0 \notin Fds
  BY Unfolded
<1>1. /\ work[w].at = "registering" /\ poll' = n
      /\ work' = [work EXCEPT ![w] = [work[w] EXCEPT !.at = "drop", !.fd = 0, !.peer = NoPeer]]
      /\ UNCHANGED <<backend, hup, conn, listen>>
  BY <1>0 DEF RegisterConnEnd, At, Threads
<1>2. /\ y \in Threads /\ y.at = "drop" /\ y.guard = work[w].guard
      /\ work' = [work EXCEPT ![w] = y]
  BY <1>0, <1>1 DEF Threads, Points
<1>3. /\ d \in Fds /\ d # YieldFd /\ a \in Addresses /\ Live(poll, a) /\ poll.heap[a].fd = d
      /\ ~Epolled => poll.mutex = w /\ poll.events[d] = 0
  <2>1. PICK b \in Addresses : Live(poll, b) /\ poll.heap[b].fd = d
    BY <1>0, <1>1 DEF ThreadInv
  <2>2. d \in Fds
    BY <1>0, <2>1, EventTypes
  <2>3. a \in Addresses /\ poll.heap[a].fd = d
    BY <2>1 DEF Boxed
  <2>4. E!Free.fd = 0
    BY DEF E!Free
  <2>5. Live(poll, a)
    BY <1>0, <2>2, <2>3, <2>4 DEF Live
  <2> QED
    BY <1>0, <1>1, <2>2, <2>3, <2>5 DEF ThreadInv
<1> HIDE DEF d, a, n, y
<1>4. /\ Busy = WithK(OtherBusy(w), d) /\ Late = WithE(OtherLate(w), d)
      /\ Out' = Out /\ Busy' = OtherBusy(w) /\ Late' = OtherLate(w) /\ Held' = Held
  <2>1. /\ Out = {listen} \cup Connected \cup OtherOut(w) \cup OneOut(work[w])
        /\ Busy = OtherBusy(w) \cup OneBusy(work[w])
        /\ Late = OtherLate(w) \cup OneLate(work[w])
        /\ Held = OtherHeld(w) \cup OneHeld(work[w])
        /\ Out' = {listen} \cup Connected \cup OtherOut(w) \cup OneOut(y)
        /\ Busy' = OtherBusy(w) \cup OneBusy(y)
        /\ Late' = OtherLate(w) \cup OneLate(y)
        /\ Held' = OtherHeld(w) \cup OneHeld(y)
    BY <1>1, <1>2, Sets
  <2>2. OneBusy(y) = {} /\ OneLate(y) = {} /\ OneOut(y) = {} /\ OneOut(work[w]) = {}
    BY <1>1, <1>2 DEF OneBusy, OneLate, HasBusy, HasLate, OneOut, HasOut, HasFd
  <2>3. OneBusy(work[w]) = WithK({}, d) /\ OneLate(work[w]) = WithE({}, d)
    BY <1>1, <1>3 DEF OneBusy, OneLate, HasBusy, HasLate, WithK, WithE, d
  <2>4. OneHeld(y) = OneHeld(work[w])
    BY <1>2 DEF OneHeld
  <2> QED
    BY ONLY <2>1, <2>2, <2>3, <2>4 DEF WithK, WithE
<1>5. ASSUME Epolled PROVE d \notin OtherLate(w) /\ a \notin Held
  <2>1. d \notin OtherLate(w)
    BY <1>0, <1>1, <1>5 DEF OtherLate, HasLate, Apart, d
  <2>2. d \in Late
    BY <1>4, <1>5 DEF WithE
  <2>3. \A v \in Workers : ThreadInv(poll, Late, v, work[v])
    BY DEF LoopInv, WorkInv
  <2>4. ASSUME NEW v \in Workers, work[v].guard = a PROVE FALSE
    <3>1. a # 0
      BY <1>0, <1>3
    <3>2. CASE work[v].at = "cancel"
      BY <1>3, <1>5, <2>3, <2>4, <3>2 DEF ThreadInv
    <3>3. CASE work[v].at # "cancel"
      BY <1>3, <2>2, <2>3, <2>4, <3>1, <3>3 DEF ThreadInv
    <3> QED
      BY <3>2, <3>3
  <2> QED
    BY <2>1, <2>4 DEF Held
<1>6. PollInv(n, Out, OtherBusy(w), OtherLate(w), Held) /\ Registers(n, poll, d, a)
  <2>1. PollInv(poll, Out, WithK(OtherBusy(w), d), WithE(OtherLate(w), d), Held)
    BY <1>0, <1>4
  <2>2. /\ Epolled => d \notin OtherLate(w) /\ a \notin Held
        /\ ~Epolled => poll.events[d] = 0
    BY <1>3, <1>5
  <2> QED
    BY ONLY <1>3, <2>1, <2>2, RegisterEndCall, Zenon DEF n
<1>7. PollInv(poll', Out', Busy', Late', Held')
  BY <1>1, <1>4, <1>6
<1>8. Late' \subseteq Late
  BY <1>4 DEF WithE
<1>9. ThreadInv(poll', Late', w, y)
  <2>1. ThreadInv(poll, Late, w, y) /\ y.at \notin {"registering", "cancel"}
    BY <1>0, <1>1, <1>2 DEF ThreadInv, HasFd
  <2> QED
    BY <1>1, <1>6, <1>8, <2>1, RegisteredThread
<1>10. ASSUME NEW v \in Workers \ {w} PROVE ThreadInv(poll', Late', v, work[v]) /\ Apart(work[v], y)
  <2>1. Apart(work[v], y)
    BY <1>0, <1>2 DEF Apart, HasFd
  <2>2. work[v].at \in {"registering", "cancel"} => Epolled
    <3>1. ThreadInv(poll, Late, v, work[v]) /\ v # w
      BY <1>0
    <3> QED
      BY <1>3, <3>1 DEF ThreadInv
  <2> QED
    BY <1>0, <1>1, <1>6, <1>8, <2>1, <2>2, RegisteredThread
<1>11. OwnersInv'
  <2>1. y.at \notin HasFd
    BY <1>2 DEF HasFd
  <2> QED
    BY <1>1, <1>2, <2>1, OwnersKept
<1>12. YieldInv'
  <2>1. Quiet(poll', poll) /\ poll'.on = poll.on
    BY <1>1, <1>6 DEF Registers
  <2>2. YieldFile \notin hup' /\ work[w].at # "write"
    BY <1>0, <1>1 DEF YieldInv
  <2>3. y.guard = YieldAddress => Writing
    BY <1>0, <1>2 DEF YieldInv
  <2> QED
    BY <1>2, <2>1, <2>2, <2>3, YieldKept
<1>13. backend' = backend
  BY <1>1
<1> QED
  BY <1>2, <1>7, <1>9, <1>10, <1>11, <1>12, <1>13, StepOf

(* While the others are out of the loop they have nothing. *)
LEMMA AloneSets ==
  ASSUME LoopInv, NEW w \in Workers, Alone(w), work[w].at = "write"
  PROVE  /\ Out = {listen} \cup Connected /\ Busy = {} /\ Late = {}
         /\ OtherOut(w) = {} /\ OtherBusy(w) = {} /\ OtherLate(w) = {}
         /\ \A v \in Workers \ {w} : work[v].at = "out" /\ work[v].guard = 0
<1>0. /\ listen \in Fds /\ conn \in [Peers -> Fds \cup {0}]
      /\ \A v \in Workers \ {w} : ThreadInv(poll, Late, v, work[v])
  BY Unfolded
<1>1. \A v \in Workers \ {w} : work[v].at = "out" /\ work[v].guard = 0
  BY <1>0 DEF Alone, At, ThreadInv
<1>2. OtherOut(w) = {} /\ OtherBusy(w) = {} /\ OtherLate(w) = {}
  BY <1>1 DEF OtherOut, OtherBusy, OtherLate, HasOut, HasBusy, HasLate, HasFd
<1>3. OneOut(work[w]) = {} /\ OneBusy(work[w]) = {} /\ OneLate(work[w]) = {}
  BY NoSets
<1>4. /\ Out = {listen} \cup Connected \cup OtherOut(w) \cup OneOut(work[w])
      /\ Busy = OtherBusy(w) \cup OneBusy(work[w])
      /\ Late = OtherLate(w) \cup OneLate(work[w])
  BY <1>0, SetsBefore
<1> QED
  BY ONLY <1>1, <1>2, <1>3, <1>4

(* Stopping the notification neither takes memory nor gives it back. *)
LEMMA StopMemory ==
  ASSUME LoopInv, Unlocked, FreeAddresses(poll) # {}
  PROVE  LET s == stop_notification(poll, YieldFd) IN
         /\ PollInv(s, Out, Busy, Late, Held) /\ Kept(s, poll) /\ SameFds(s, poll)
         /\ Disabled(s, YieldAddress) \/ ~s.on
         /\ FreeAddresses(s) # {}
<1> DEFINE s == stop_notification(poll, YieldFd)
<1>1. /\ PollInv(s, Out, Busy, Late, Held) /\ Kept(s, poll) /\ SameFds(s, poll)
      /\ Disabled(s, YieldAddress) \/ ~s.on
      /\ Epolled => s.reg = poll.reg
  <2>1. PollInv(poll, Out, Busy, Late, Held)
    BY DEF LoopInv
  <2>2. YieldFd \notin Busy
    BY Idling
  <2> QED
    BY <2>1, <2>2, NotifyCalls
<1> HIDE DEF s
<1>2. s.heap = poll.heap /\ Watched(s, Late, Held)
  BY <1>1, Parts DEF Kept
<1>3. PICK a \in Addresses : /\ poll.heap[a] = E!Free /\ \A r \in poll.reg : r.event # a
                             /\ \A v \in Workers : work[v].guard # a
  BY DEF FreeAddresses
<1>4. \A r \in s.reg : r.event # a
  <2>1. CASE Epolled
    BY <1>1, <1>3, <2>1
  <2>2. CASE ~Epolled
    BY <1>2, <1>3, <2>2 DEF Watched, Current, Stale, Live
  <2> QED
    BY <2>1, <2>2
<1>5. a \in FreeAddresses(s)
  BY <1>2, <1>3, <1>4 DEF FreeAddresses
<1> QED
  BY <1>1, <1>5 DEF s

(* connect_endpoint: the two new descriptors belong to the endpoint and to *)
(* the thread.                                                             *)
LEMMA StepConnect ==
  ASSUME Supply, LoopInv, NEW w \in Workers, NEW p \in Peers, ConnectEndpoint(w, p)
  PROVE  LoopInv'
<1> DEFINE first == SocketPair(poll).first
           second == SocketPair(poll).second
           y == [work[w] EXCEPT !.at = "register", !.fd = first, !.peer = p]
<1>0. /\ work \in [Workers -> Threads] /\ OwnersInv /\ YieldInv /\ work[w] \in Threads
      /\ PollInv(poll, Out, Busy, Late, Held) /\ poll \in Polls
      /\ listen \in Fds /\ conn \in [Peers -> Fds \cup {0}]
      /\ ThreadInv(poll, Late, w, work[w])
      /\ \A v \in Workers \ {w} : ThreadInv(poll, Late, v, work[v]) /\ Apart(work[v], work[w])
      /\ 0 \notin Addresses /\ 0 \notin Fds
  BY Unfolded
<1>1. /\ work[w].at \in {"run", "connect"} /\ Cardinality(FreeFds(poll)) >= 2
      /\ poll' = SocketPair(poll).s /\ conn' = [conn EXCEPT ![p] = second]
      /\ work' = [work EXCEPT ![w] = [work[w] EXCEPT !.at = "register", !.fd = first, !.peer = p]]
      /\ backend' = backend /\ hup' = hup /\ listen' = listen
  BY <1>0 DEF ConnectEndpoint, Connect, Runs, At, Threads
<1>2. /\ PollInv(SocketPair(poll).s, Out \cup {first, second}, Busy, Late, Held)
      /\ Opened(SocketPair(poll), poll)
  BY ONLY Supply, <1>0, <1>1, NewSocket, Zenon
<1>3. /\ first \in Fds /\ second \in Fds /\ first # second
      /\ poll.fd[first] = 0 /\ poll.fd[second] = 0
      /\ poll'.reg = poll.reg /\ poll'.on = poll.on /\ Kept(poll', poll)
      /\ PollInv(poll', Out \cup {first, second}, Busy, Late, Held)
  BY <1>1, <1>2 DEF Opened, Kept
<1>4. /\ y \in Threads /\ y.at = "register" /\ y.fd = first /\ y.guard = work[w].guard
      /\ work' = [work EXCEPT ![w] = y]
  BY <1>0, <1>1, <1>3 DEF Threads, Points
<1> HIDE DEF first, second, y
<1>5. first \notin Out /\ second \notin Out
  BY <1>3, Disjoint
<1>6. /\ conn' \in [Peers -> Fds \cup {0}] /\ listen' \in Fds
      /\ Connected' \subseteq Connected \cup {second}
      /\ \A q \in Peers : conn'[q] = IF q = p THEN second ELSE conn[q]
  <2>1. \A q \in Peers : conn'[q] = IF q = p THEN second ELSE conn[q]
    BY <1>0, <1>1
  <2> QED
    BY <1>0, <1>1, <1>3, <2>1 DEF Connected
<1>7. Out' \subseteq Out \cup {first, second} /\ Busy' = Busy /\ Late' = Late /\ Held' = Held
  <2>1. /\ Out = {listen} \cup Connected \cup OtherOut(w) \cup OneOut(work[w])
        /\ Busy = OtherBusy(w) \cup OneBusy(work[w])
        /\ Late = OtherLate(w) \cup OneLate(work[w])
        /\ Held = OtherHeld(w) \cup OneHeld(work[w])
    BY <1>0, SetsBefore
  <2>2. /\ Out' = {listen'} \cup Connected' \cup OtherOut(w) \cup OneOut(y)
        /\ Busy' = OtherBusy(w) \cup OneBusy(y)
        /\ Late' = OtherLate(w) \cup OneLate(y)
        /\ Held' = OtherHeld(w) \cup OneHeld(y)
    BY <1>0, <1>1, <1>4, <1>6, SetsAfter
  <2>3. OneBusy(work[w]) = {} /\ OneLate(work[w]) = {}
    BY <1>1, NoSets
  <2>4. OneBusy(y) = {} /\ OneLate(y) = {} /\ OneOut(y) \subseteq {first}
    BY <1>4 DEF OneOut, OneBusy, OneLate, HasOut, HasBusy, HasLate
  <2>5. OneHeld(y) = OneHeld(work[w])
    BY <1>4 DEF OneHeld
  <2> QED
    BY ONLY <1>1, <1>6, <2>1, <2>2, <2>3, <2>4, <2>5
<1>8. PollInv(poll', Out', Busy', Late', Held')
  <2>1. PollInv(poll', Out', Busy, Late, Held)
    BY <1>3, <1>7, LessOut
  <2> QED
    BY <1>7, <2>1
<1>9. ThreadInv(poll', Late', w, y)
  <2>1. ThreadInv(poll, Late, w, y)
    BY <1>0, <1>1, <1>3, <1>4 DEF ThreadInv, HasFd
  <2> QED
    BY <1>3, <1>7, <2>1, KeptThread
<1>10. ASSUME NEW v \in Workers \ {w} PROVE ThreadInv(poll', Late', v, work[v]) /\ Apart(work[v], y)
  <2>1. work[v].at \in HasFd => work[v].fd \in Out
    BY <1>0, SMT DEF Out, HasOut, ThreadInv, Threads
  <2>2. Apart(work[v], y)
    BY <1>0, <1>4, <1>5, <2>1 DEF Apart, HasFd
  <2> QED
    BY <1>0, <1>3, <1>7, <2>2, KeptThread
<1>11. OwnersInv'
  <2>1. /\ listen \in Out /\ \A q \in Peers : conn[q] # 0 => conn[q] \in Out
        /\ \A v \in Workers : work[v].at \in HasFd => work[v].fd \in Out
    BY <1>0, SMT DEF Out, HasOut, ThreadInv, Threads, Connected, LoopInv, WorkInv
  <2>2. \A q \in Peers : conn'[q] # listen'
    BY <1>0, <1>1, <1>5, <1>6, <2>1 DEF OwnersInv
  <2>3. \A q, r \in Peers : q # r /\ conn'[q] # 0 => conn'[q] # conn'[r]
    BY <1>0, <1>3, <1>5, <1>6, <2>1, SMT DEF OwnersInv
  <2>4. ASSUME NEW v \in Workers, work'[v].at \in HasFd
        PROVE  work'[v].fd # listen' /\ \A q \in Peers : conn'[q] # work'[v].fd
    <3>1. CASE v = w
      <4>1. work'[v].fd = first
        BY <1>0, <1>4, <3>1
      <4> QED
        BY <1>0, <1>1, <1>3, <1>5, <1>6, <2>1, <4>1, SMT
    <3>2. CASE v # w
      <4>1. work'[v] = work[v]
        BY <1>0, <1>4, <3>2
      <4>2. /\ work[v].fd \in Out /\ work[v].fd # listen
            /\ \A q \in Peers : conn[q] # work[v].fd
        BY <1>0, <2>1, <2>4, <4>1 DEF OwnersInv
      <4> QED
        BY ONLY <1>1, <1>5, <1>6, <4>1, <4>2, Zenon
    <3> QED
      BY <3>1, <3>2
  <2> QED
    BY <1>6, <2>2, <2>3, <2>4 DEF OwnersInv
<1>12. YieldInv'
  <2>1. Quiet(poll', poll) /\ poll'.on = poll.on
    BY <1>3 DEF Quiet
  <2>2. YieldFile \notin hup' /\ work[w].at # "write"
    BY <1>0, <1>1 DEF YieldInv
  <2>3. y.guard = YieldAddress => Writing
    BY <1>0, <1>4 DEF YieldInv
  <2> QED
    BY <1>4, <2>1, <2>2, <2>3, YieldKept
<1> QED
  BY <1>1, <1>4, <1>8, <1>9, <1>10, <1>11, <1>12, StepOf

(* register_conn_handler, the first step: the descriptor goes over to the  *)
(* event.                                                                  *)
LEMMA StepRegisterBegin ==
  ASSUME Supply, LoopInv, NEW w \in Workers, RegisterConnBegin(w)
  PROVE  LoopInv'
<1> DEFINE d == work[w].fd
           a == NewAddress(poll)
           y == [work[w] EXCEPT !.at = "registering"]
           n == RegisterBegin(poll, w, E!new_event(d, "conn"), a)
<1>0. /\ work \in [Workers -> Threads] /\ OwnersInv /\ YieldInv /\ work[w] \in Threads
      /\ PollInv(poll, Out, Busy, Late, Held) /\ poll \in Polls
      /\ listen \in Fds /\ conn \in [Peers -> Fds \cup {0}]
      /\ ThreadInv(poll, Late, w, work[w])
      /\ \A v \in Workers \ {w} : ThreadInv(poll, Late, v, work[v]) /\ Apart(work[v], work[w])
      /\ 0 \notin Addresses /\ 0 \notin Fds
  BY Unfolded
<1>1. /\ work[w].at = "register" /\ Unlocked /\ FreeAddresses(poll) # {}
      /\ poll' = n
      /\ work' = [work EXCEPT ![w] = [work[w] EXCEPT !.at = "registering"]]
      /\ UNCHANGED <<backend, hup, conn, listen>>
  BY <1>0 DEF RegisterConnBegin, At, GoTo, MemoryLeft, Threads
<1>2. /\ y \in Threads /\ y.at = "registering" /\ y.fd = d /\ y.guard = work[w].guard
      /\ work' = [work EXCEPT ![w] = y]
  BY <1>0, <1>1 DEF Threads, Points
<1>3. work[w].at \in HasFd
  BY <1>1 DEF HasFd
<1>4. /\ d \in Fds /\ d # listen /\ d \notin Connected /\ d \notin OtherOut(w) /\ d \in Out
      /\ OneOut(work[w]) = {d}
  BY <1>3, OwnFd
<1>5. Unused(poll, Held, a)
  BY <1>1, NewMemory
<1>6. /\ Busy = {} /\ (~Epolled => Late = {})
      /\ \A v \in Workers : work[v].at # "cancel" /\ (~Epolled => work[v].at # "registering")
  BY <1>1, Idling
<1>7. d # YieldFd /\ \A b \in Addresses : Live(poll, b) => poll.heap[b].fd # d
  BY <1>4, Disjoint
<1>8. PollInv(n, Out \ {d}, WithK(Busy, d), WithE(Late, d), Held) /\ Boxes(n, poll, w, d, "conn", a)
  <2>1. Epolled \/ d \notin Late
    BY <1>6
  <2> HIDE DEF d, a
  <2> QED
    BY ONLY <1>0, <1>4, <1>5, <2>1, RegisterBeginCall
<1> HIDE DEF d, a, n, y
<1>9. Out' = Out \ {d} /\ Busy' = WithK(Busy, d) /\ Late' = WithE(Late, d) /\ Held' = Held
  <2>1. /\ Out = {listen} \cup Connected \cup OtherOut(w) \cup OneOut(work[w])
        /\ Busy = OtherBusy(w) \cup OneBusy(work[w])
        /\ Late = OtherLate(w) \cup OneLate(work[w])
        /\ Held = OtherHeld(w) \cup OneHeld(work[w])
        /\ Out' = {listen} \cup Connected \cup OtherOut(w) \cup OneOut(y)
        /\ Busy' = OtherBusy(w) \cup OneBusy(y)
        /\ Late' = OtherLate(w) \cup OneLate(y)
        /\ Held' = OtherHeld(w) \cup OneHeld(y)
    BY <1>1, <1>2, Sets
  <2>2. OneBusy(work[w]) = {} /\ OneLate(work[w]) = {} /\ OneOut(y) = {}
    BY <1>1, <1>2 DEF OneBusy, OneLate, HasBusy, HasLate, OneOut, HasOut, HasFd
  <2>3. OneBusy(y) = WithK({}, d) /\ OneLate(y) = WithE({}, d)
    BY <1>2, <1>4 DEF OneBusy, OneLate, HasBusy, HasLate, WithK, WithE
  <2>4. OneHeld(y) = OneHeld(work[w])
    BY <1>2 DEF OneHeld
  <2> QED
    BY ONLY <1>4, <2>1, <2>2, <2>3, <2>4 DEF WithK, WithE
<1>10. PollInv(poll', Out', Busy', Late', Held')
  BY <1>1, <1>8, <1>9
<1>11. ASSUME NEW v \in Workers, NEW x, ThreadInv(poll, Late, v, x), x.guard = work[v].guard,
              x.at # "cancel", x.at = "registering" => Epolled
       PROVE  ThreadInv(poll', Late', v, x)
  <2>1. poll.heap \in [Addresses -> EventType \cup {E!Free}]
    BY <1>0, Types
  <2>2. ~Live(poll, a) /\ a \in Addresses
    BY <1>5 DEF Unused, Live
  <2>3. x.guard # a
    BY <1>5, <1>11 DEF Unused, Held
  <2>4. ThreadInv(n, WithE(Late, d), v, x)
    BY ONLY <1>7, <1>8, <1>11, <2>1, <2>2, <2>3, BoxedThread, Zenon
  <2> QED
    BY <1>1, <1>9, <2>4
<1>12. ThreadInv(poll', Late', w, y)
  <2>1. ThreadInv(poll', Late', w, work[w])
    BY <1>0, <1>1, <1>11
  <2>2. /\ d # YieldFd /\ Live(poll', a) /\ poll'.heap[a].fd = d /\ a \in Addresses
        /\ ~Epolled => poll'.mutex = w /\ poll'.events[d] = 0
    BY <1>1, <1>8 DEF Boxes, Live
  <2> QED
    BY <1>1, <1>2, <2>1, <2>2 DEF ThreadInv, HasFd
<1>13. ASSUME NEW v \in Workers \ {w} PROVE ThreadInv(poll', Late', v, work[v]) /\ Apart(work[v], y)
  <2>1. ThreadInv(poll', Late', v, work[v])
    <3>1. ThreadInv(poll, Late, v, work[v]) /\ work[v].at # "cancel" /\ (work[v].at = "registering" => Epolled)
      BY <1>0, <1>6
    <3> QED
      BY <3>1, <1>11
  <2>2. ASSUME work[v].at = "registering" PROVE work[v].fd # d
    <3>1. ThreadInv(poll, Late, v, work[v])
      BY <1>0
    <3>2. PICK b \in Addresses : Live(poll, b) /\ poll.heap[b].fd = work[v].fd
      BY <2>2, <3>1 DEF ThreadInv
    <3> QED
      BY <1>7, <3>2
  <2> QED
    BY <1>0, <1>2, <2>1, <2>2 DEF Apart, HasFd
<1>14. OwnersInv'
  <2>1. y.at \notin HasFd
    BY <1>2 DEF HasFd
  <2> QED
    BY <1>1, <1>2, <2>1, OwnersKept
<1>15. YieldInv'
  <2>1. Quiet(poll', poll) /\ poll'.on = poll.on
    BY <1>1, <1>8 DEF Boxes
  <2>2. YieldFile \notin hup' /\ work[w].at # "write"
    BY <1>0, <1>1 DEF YieldInv
  <2>3. y.guard = YieldAddress => Writing
    BY <1>0, <1>2 DEF YieldInv
  <2> QED
    BY <1>2, <2>1, <2>2, <2>3, YieldKept
<1>16. backend' = backend
  BY <1>1
<1> QED
  BY <1>2, <1>10, <1>12, <1>13, <1>14, <1>15, <1>16, StepOf

(* The control socket opens a new listening socket. *)
LEMMA StepReopen ==
  ASSUME Supply, LoopInv, NEW w \in Workers, work[w].at = "write", Alone(w), Unlocked, MemoryLeft,
         work' = [work EXCEPT ![w].at = "drop"], NEW s, s = stop_notification(poll, YieldFd),
         Cardinality(FreeFds(s)) >= 2,
         poll' = OpenListenSocket(s, w).s, listen' = OpenListenSocket(s, w).listen,
         hup' = StillOpen(CloseSockets(s, w), hup \cup {s.fd[d] : d \in Connected}),
         conn' = [p \in Peers |-> 0], backend' = backend
  PROVE  LoopInv'
<1> DEFINE y == [work[w] EXCEPT !.at = "drop"]
<1>0. /\ work \in [Workers -> Threads] /\ YieldInv /\ work[w] \in Threads
      /\ listen \in Fds /\ conn \in [Peers -> Fds \cup {0}]
      /\ ThreadInv(poll, Late, w, work[w])
      /\ \A v \in Workers \ {w} : Apart(work[v], work[w])
      /\ 0 \notin Addresses /\ 0 \notin Fds
  BY Unfolded
<1>1. /\ y \in Threads /\ y.at = "drop" /\ y.guard = work[w].guard
      /\ work' = [work EXCEPT ![w] = y]
  BY <1>0 DEF Threads, Points
<1> HIDE DEF y
<1>2. /\ Out = {listen} \cup Connected /\ Busy = {} /\ Late = {}
      /\ OtherOut(w) = {} /\ OtherBusy(w) = {} /\ OtherLate(w) = {}
      /\ \A v \in Workers \ {w} : work[v].at = "out" /\ work[v].guard = 0
  BY AloneSets
<1>3. /\ PollInv(s, Out, Busy, Late, Held) /\ Kept(s, poll) /\ SameFds(s, poll)
      /\ Disabled(s, YieldAddress) \/ ~s.on
      /\ FreeAddresses(s) # {}
  BY StopMemory DEF MemoryLeft
<1>4. /\ PollInv(poll', {listen'}, {}, {}, Held) /\ listen' \in Fds /\ poll'.on = s.on
      /\ Quiet(poll', s) /\ \A x : Live(s, x) => Live(poll', x)
  <2>1. PollInv(s, {listen} \cup Connected, {}, {}, Held)
    BY <1>2, <1>3
  <2>2. /\ PollInv(OpenListenSocket(s, w).s, {OpenListenSocket(s, w).listen}, {}, {}, Held)
        /\ Reopened(OpenListenSocket(s, w), s)
    BY <1>3, <2>1, OpenCall
  <2> QED
    BY <2>2 DEF Reopened
<1>5. conn' \in [Peers -> Fds \cup {0}] /\ Connected' = {} /\ \A p \in Peers : conn'[p] = 0
  BY DEF Connected
<1>6. Out' = {listen'} /\ Busy' = {} /\ Late' = {} /\ Held' = Held
  <2>1. /\ Out' = {listen'} \cup Connected' \cup OtherOut(w) \cup OneOut(y)
        /\ Busy' = OtherBusy(w) \cup OneBusy(y)
        /\ Late' = OtherLate(w) \cup OneLate(y)
        /\ Held' = OtherHeld(w) \cup OneHeld(y)
    BY <1>0, <1>1, <1>4, <1>5, SetsAfter
  <2>2. Held = OtherHeld(w) \cup OneHeld(work[w])
    BY <1>0, SetsBefore
  <2>3. OneOut(y) = {} /\ OneBusy(y) = {} /\ OneLate(y) = {}
    BY <1>1, NoSets
  <2>4. OneHeld(y) = OneHeld(work[w])
    BY <1>1 DEF OneHeld
  <2> QED
    BY ONLY <1>2, <1>5, <2>1, <2>2, <2>3, <2>4
<1>7. PollInv(poll', Out', Busy', Late', Held')
  BY <1>4, <1>6
<1>8. ThreadInv(poll', Late', w, y) /\ y.guard # YieldAddress
  <2>1. work[w].guard # 0 /\ Live(poll, work[w].guard) /\ work[w].guard # YieldAddress
    BY <1>0 DEF ThreadInv
  <2>2. Live(poll', work[w].guard)
    BY <1>3, <1>4, <2>1 DEF Kept, Live
  <2> QED
    BY <1>1, <1>6, <2>1, <2>2 DEF ThreadInv, HasFd
<1>9. ASSUME NEW v \in Workers \ {w} PROVE ThreadInv(poll', Late', v, work[v]) /\ Apart(work[v], y)
  <2>1. work[v].at = "out" /\ work[v].guard = 0
    BY <1>2
  <2> QED
    BY <2>1 DEF ThreadInv, Apart, HasFd
<1>10. \A v \in Workers : work'[v] = IF v = w THEN y ELSE work[v]
  BY <1>0, <1>1
<1>11. OwnersInv'
  <2>1. \A v \in Workers : work'[v].at \notin HasFd
    BY <1>1, <1>2, <1>10 DEF HasFd
  <2>2. \A p \in Peers : conn'[p] # listen'
    BY <1>0, <1>4, <1>5
  <2> QED
    BY <1>4, <1>5, <2>1, <2>2 DEF OwnersInv
<1>12. YieldInv'
  <2>1. ASSUME NEW v \in Workers PROVE work'[v].guard # YieldAddress
    <3>1. CASE v = w
      BY <1>8, <1>10, <3>1
    <3>2. 0 # YieldAddress
      BY SMT DEF YieldAddress
    <3>3. CASE v # w
      <4>1. work'[v] = work[v] /\ work[v].guard = 0
        BY <1>2, <1>10, <3>3
      <4> QED
        BY <3>2, <4>1
    <3> QED
      BY <3>1, <3>3
  <2>2. \A r \in poll'.reg : r.event = YieldAddress /\ r.armed => ~poll'.on
    <3>1. CASE ~s.on
      BY <1>4, <3>1
    <3>2. CASE Disabled(s, YieldAddress)
      BY <1>4, <3>2 DEF Disabled, Quiet
    <3> QED
      BY <1>3, <3>1, <3>2
  <2>3. YieldFile \notin hup'
    <3>1. \A d \in Connected : s.fd[d] # YieldFile
      BY <1>2, <1>3, Disjoint DEF SameFds
    <3> QED
      BY <1>0, <3>1 DEF YieldInv, StillOpen
  <2> QED
    BY <2>1, <2>2, <2>3 DEF YieldInv
<1> QED
  BY <1>1, <1>7, <1>8, <1>9, <1>11, <1>12, StepOf

(* The writer's turn. *)
LEMMA StepApiWrite ==
  ASSUME Supply, LoopInv, NEW w \in Workers, ApiWrite(w)
  PROVE  LoopInv'
<1> DEFINE s == stop_notification(poll, YieldFd)
<1>1. /\ work[w].at = "write" /\ Alone(w) /\ Unlocked
      /\ work' = [work EXCEPT ![w].at = "drop"] /\ backend' = backend
  BY DEF ApiWrite, At, GoTo
<1>2. CASE poll' = s /\ UNCHANGED <<hup, conn, listen>>
  <2>1. "drop" \in {"drop", "write"} /\ "drop" # "write"
    OBVIOUS
  <2>2. UNCHANGED <<backend, hup, conn, listen>>
    BY <1>1, <1>2
  <2>3. poll' = IF "drop" = "write" THEN trigger_notification(poll, YieldFd)
                                    ELSE stop_notification(poll, YieldFd)
    BY <1>2, <2>1
  <2> QED
    BY <1>1, <2>1, <2>2, <2>3, StepNotify
<1>3. CASE /\ MemoryLeft /\ Cardinality(FreeFds(s)) >= 2
           /\ poll' = OpenListenSocket(s, w).s /\ listen' = OpenListenSocket(s, w).listen
           /\ hup' = StillOpen(CloseSockets(s, w), hup \cup {s.fd[d] : d \in Connected})
           /\ conn' = [p \in Peers |-> 0]
  BY ONLY Supply, LoopInv, w \in Workers, <1>1, <1>3, StepReopen, Zenon
<1> QED
  BY <1>2, <1>3 DEF ApiWrite

-----------------------------------------------------------------------------
(* The invariant, and what it says *)

(* Every step of the loop keeps the invariant. *)
LEMMA StepLoop ==
  ASSUME Supply, LoopInv, [Next]_vars
  PROVE  LoopInv'
<1>1. ASSUME NEW w \in Workers, Wait(w) PROVE LoopInv'
  BY <1>1, StepWait DEF Wait
<1>2. ASSUME NEW w \in Workers, Return(w) \/ Reenter(w) \/ NotConnected(w) PROVE LoopInv'
  BY <1>2, StepPlain
<1>3. ASSUME NEW w \in Workers, Handle(w) PROVE LoopInv'
  BY <1>3, StepShutdown, StepConnect, StepApiSet DEF Handle
<1>4. ASSUME NEW w \in Workers, GuardDrop(w) \/ CancelBegin(w) \/ CancelEnd(w) PROVE LoopInv'
  BY <1>4, StepGuardDrop, StepCancelBegin, StepCancelEnd
<1>5. ASSUME NEW w \in Workers, CloseConn(w) \/ RegisterConnBegin(w) \/ RegisterConnEnd(w) PROVE LoopInv'
  BY <1>5, StepCloseConn, StepRegisterBegin, StepRegisterEnd
<1>6. ASSUME NEW w \in Workers, ApiWrite(w) PROVE LoopInv'
  BY <1>6, StepApiWrite
<1>7. ASSUME NEW w \in Workers, Continue(w) PROVE LoopInv'
  BY <1>2, <1>4, <1>5, <1>6, <1>7 DEF Continue
<1>8. CASE Next
  BY <1>1, <1>2, <1>3, <1>7, <1>8 DEF Next
<1>9. CASE UNCHANGED vars
  <2>1. /\ backend' = backend /\ poll' = poll /\ hup' = hup /\ conn' = conn /\ listen' = listen
        /\ work' = work
    BY <1>9 DEF vars
  <2>2. Out' = Out /\ Busy' = Busy /\ Late' = Late /\ Held' = Held
    BY <2>1 DEF Out, Busy, Late, Held, HasOut, HasBusy, HasLate, Connected, Epolled
  <2>3. PollInv(poll, Out, Busy, Late, Held)'
    BY <2>1, <2>2, PrimedPoll DEF LoopInv
  <2>4. \A w \in Workers : ThreadInv(poll, Late, w, work[w])'
    BY <2>1, <2>2, PrimedThread DEF LoopInv, WorkInv
  <2>5. (\A v, w \in Workers : v # w => Apart(work[v], work[w]))'
    BY <2>1 DEF LoopInv, WorkInv, Apart
  <2>6. WorkInv'
    BY <2>1, <2>4, <2>5 DEF LoopInv, WorkInv
  <2>7. OwnersInv' /\ YieldInv'
    BY <2>1 DEF LoopInv, OwnersInv, YieldInv, Writing
  <2> QED
    BY <2>1, <2>3, <2>6, <2>7 DEF LoopInv
<1> QED
  BY <1>8, <1>9

(* Threads apart have no event in common but the yield notifier. *)
LEMMA OneHolderHolds ==
  ASSUME LoopInv
  PROVE  OneHolder
<1>1. SUFFICES ASSUME NEW v \in Workers, NEW w \in Workers, v # w,
                      work[v].guard # 0, work[v].guard = work[w].guard
               PROVE  poll.heap[work[v].guard].notifier
  BY DEF OneHolder
<1>2. work[v].guard = YieldAddress
  BY <1>1 DEF LoopInv, WorkInv, Apart
<1>3. poll.heap[YieldAddress].notifier
  BY Parts DEF LoopInv
<1> QED
  BY <1>2, <1>3

(* What threads hold and what is armed is live. *)
LEMMA NoDanglingHolds ==
  ASSUME LoopInv
  PROVE  NoDangling
<1>1. PollInv(poll, Out, Busy, Late, Held) /\ \A w \in Workers : ThreadInv(poll, Late, w, work[w])
  BY DEF LoopInv, WorkInv
<1>2. Watched(poll, Late, Held)
  BY <1>1, Parts
<1>3. \A w \in Workers : work[w].guard # 0 /\ ~At(w, "cancel") => poll.heap[work[w].guard] # E!Free
  BY <1>1 DEF ThreadInv, At, Live
<1>4. \A r \in poll.reg : r.armed => poll.heap[r.event] # E!Free
  BY <1>2 DEF Watched, Current, Stale, Live
<1> QED
  BY <1>3, <1>4 DEF NoDangling

(* A filed event that is not late has its registration. *)
LEMMA NoLostEventHolds ==
  ASSUME LoopInv
  PROVE  NoLostEvent
<1>1. SUFFICES ASSUME NEW d \in Fds, poll.events[d] # 0, ~InFlight(d)
               PROVE  /\ poll.heap[poll.events[d]].fd = d
                      /\ \E r \in poll.reg :
                           /\ r.fd = d /\ r.file = poll.fd[d] /\ r.event = poll.events[d]
                           /\ r.armed \/ d = YieldFd \/ \E w \in Workers : Holds(w, r.event)
  BY DEF NoLostEvent
<1> DEFINE a == poll.events[d]
<1>2. PollInv(poll, Out, Busy, Late, Held)
  BY DEF LoopInv
<1>3. /\ Filed(poll, Busy) /\ Watched(poll, Late, Held)
      /\ poll.heap[YieldAddress].fd = YieldFd
  BY <1>2, Parts
<1>4. Live(poll, a) /\ poll.heap[a].fd = d /\ a \in Addresses
  BY <1>1, <1>3 DEF Filed, Live
<1>5. d \notin Late
  BY <1>1 DEF Late, HasLate, InFlight
<1>6. PICK r \in poll.reg : r.event = a /\ (r.armed \/ a = YieldAddress \/ a \in Held)
  BY <1>3, <1>4, <1>5 DEF Watched
<1>7. Current(poll, r)
  BY <1>3, <1>4, <1>6 DEF Watched, Stale
<1>8. r.fd = d /\ r.file = poll.fd[d]
  BY <1>4, <1>6, <1>7 DEF Current
<1>9. r.armed \/ d = YieldFd \/ \E w \in Workers : Holds(w, r.event)
  BY <1>3, <1>4, <1>6 DEF Held, Holds
<1> QED
  BY <1>4, <1>6, <1>8, <1>9

(* A live event is filed or busy. *)
LEMMA NoLeakHolds ==
  ASSUME LoopInv
  PROVE  NoLeak
<1>1. Filed(poll, Busy)
  BY Parts DEF LoopInv
<1>2. \A d : d \in Busy => InFlight(d)
  BY DEF Busy, HasBusy, InFlight
<1> QED
  BY <1>1, <1>2 DEF Filed, NoLeak, Live

(* A thread that was told to yield has the notifier, so there is a writer. *)
LEMMA YieldForWriterHolds ==
  ASSUME LoopInv
  PROVE  YieldForWriter
<1>1. SUFFICES ASSUME NEW w \in Workers, work[w].guard # 0, ~At(w, "cancel"), Handler(w) = "yield"
               PROVE  \E v \in Workers : At(v, "write")
  BY DEF YieldForWriter
<1>2. Notifier(poll) /\ ThreadInv(poll, Late, w, work[w]) /\ YieldInv
  BY Parts DEF LoopInv, WorkInv
<1>3. Live(poll, work[w].guard)
  BY <1>1, <1>2 DEF ThreadInv, At
<1>4. work[w].guard = YieldAddress
  BY <1>1, <1>2, <1>3 DEF Notifier, Handler, Live
<1> QED
  BY <1>2, <1>4 DEF YieldInv, Writing, At

-----------------------------------------------------------------------------
(* The theorems *)

(* The library's facts, which nothing above needs. *)
INSTANCE FiniteSetTheorems

(* A set of numbers has a least one. *)
LEMMA MinIsIn ==
  ASSUME NEW S, S \subseteq Nat, S # {}
  PROVE  Min(S) \in S
<1>1. PICK x \in S : \A y \in S : ~(<<y, x>> \in OpToRel(<, Nat))
  BY NatLessThanWellFounded, WFMin
<1>2. \A y \in S : x =< y
  <2>1. SUFFICES ASSUME NEW y \in S, y < x PROVE FALSE
    BY SMT
  <2>2. <<y, x>> \in Nat \X Nat /\ <<y, x>>[1] < <<y, x>>[2]
    BY <2>1
  <2>3. <<y, x>> \in OpToRel(<, Nat)
    BY <2>2 DEF OpToRel
  <2> QED
    BY <1>1, <2>3
<1> QED
  BY <1>2 DEF Min

(* While a descriptor is free, so is a file: there are no more open files  *)
(* than descriptors in use.                                                *)
LEMMA FileLeft ==
  ASSUME NEW fd \in [Fds -> Fds \cup {0}], NEW d \in Fds, fd[d] = 0
  PROVE  \E f \in Fds : \A e \in Fds : fd[e] # f
<1> DEFINE Used == {e \in Fds : fd[e] # 0}
           g == [e \in Used |-> fd[e]]
<1>1. SUFFICES ASSUME \A f \in Fds : \E e \in Fds : fd[e] = f PROVE FALSE
  OBVIOUS
<1>2. IsFiniteSet(Fds) /\ 0 \notin Fds
  BY PollAssumption
<1>3. Used \in SUBSET Fds /\ Used # Fds
  OBVIOUS
<1>4. IsFiniteSet(Used) /\ Cardinality(Used) <= Cardinality(Fds) /\ Cardinality(Used) # Cardinality(Fds)
  BY <1>2, <1>3, FS_Subset
<1>5. g \in [Used -> Fds] /\ \A f \in Fds : \E e \in Used : g[e] = f
  BY <1>1, <1>2
<1>6. g \in Surjection(Used, Fds)
  BY <1>5 DEF Surjection
<1>7. Cardinality(Fds) <= Cardinality(Used)
  BY <1>4, <1>6, FS_Surjection
<1>8. Cardinality(Fds) \in Nat /\ Cardinality(Used) \in Nat
  BY <1>2, <1>4, FS_CardinalityType
<1> QED
  BY <1>4, <1>7, <1>8, SMT

(* The system gives out what is free. *)
LEMMA Supplied == Supply
<1>1. ASSUME NEW S \in SUBSET Fds, Cardinality(S) >= 2 PROVE \E a, b \in S : a # b
  <2>1. Cardinality({}) = 0 /\ \A a : Cardinality({a}) = 1
    BY FS_EmptySet, FS_Singleton
  <2>2. ~(0 >= 2) /\ ~(1 >= 2)
    BY SMT
  <2>3. S # {} /\ \A a : S # {a}
    BY <1>1, <2>1, <2>2
  <2> QED
    BY <2>3, SMT
<1>2. ASSUME NEW S \in SUBSET Fds, NEW T \in SUBSET Fds, S \subseteq T, Cardinality(S) >= 2
      PROVE  Cardinality(T) >= 2
  <2>1. IsFiniteSet(T)
    BY FS_Subset, PollAssumption
  <2>2. IsFiniteSet(S) /\ Cardinality(S) <= Cardinality(T)
    BY <1>2, <2>1, FS_Subset
  <2>3. Cardinality(S) \in Nat /\ Cardinality(T) \in Nat
    BY <2>1, <2>2, FS_CardinalityType
  <2> QED
    BY <1>2, <2>2, <2>3, SMT
<1> QED
  BY <1>1, <1>2, MinIsIn, FileLeft DEF Supply

(* On either implementation of the poll, whatever order events, shutdowns, *)
(* registrations, cancellations and configuration come in: descriptors     *)
(* have one owner, the table and the kernel agree with the events that     *)
(* there are, and the yield notification is up only for a writer.          *)
THEOREM LoopInvariance == Spec => []LoopInv
<1>1. Init => LoopInv
  BY InitLoop
<1>2. LoopInv /\ [Next]_vars => LoopInv'
  BY StepLoop, Supplied
<1> QED
  BY <1>1, <1>2, PTL DEF Spec

(* Only one thread at a time has the handler of an event (new_event and    *)
(* the one-shot registrations of epoll.rs and kqueue.rs), but for the      *)
(* yield notifier, which every thread may have.                            *)
THEOREM HoldersAreAlone == Spec => []OneHolder
<1>1. LoopInv => OneHolder
  BY OneHolderHolds
<1> QED
  BY <1>1, LoopInvariance, PTL

(* No guard that will be dropped, and no registration that may fire,       *)
(* refers to an event that was given back: the raw pointers that epoll.rs  *)
(* and kqueue.rs keep in the kernel are never followed into freed memory.  *)
THEOREM PointersAreLive == Spec => []NoDangling
<1>1. LoopInv => NoDangling
  BY NoDanglingHolds
<1> QED
  BY <1>1, LoopInvariance, PTL

(* An event of the table is watched under its own descriptor and file, and *)
(* enabled unless a thread has the guard whose drop enables it: no order   *)
(* of closing, reuse and cancellation leaves a socket that is never read   *)
(* again.                                                                  *)
THEOREM EventsAreWatched == Spec => []NoLostEvent
<1>1. LoopInv => NoLostEvent
  BY NoLostEventHolds
<1> QED
  BY <1>1, LoopInvariance, PTL

(* An event that is still allocated is in the table or in the hands of the *)
(* thread that registers or cancels it: no box of register_event leaks.    *)
THEOREM EventsAreReachable == Spec => []NoLeak
<1>1. LoopInv => NoLeak
  BY NoLeakHolds
<1> QED
  BY <1>1, LoopInvariance, PTL

(* A thread is told to yield only while a writer waits in try_writeable:   *)
(* no guard that is dropped late enables the notification again after      *)
(* stop_notification.                                                      *)
THEOREM YieldsAreForWriters == Spec => []YieldForWriter
<1>1. LoopInv => YieldForWriter
  BY YieldForWriterHolds
<1> QED
  BY <1>1, LoopInvariance, PTL
=============================================================================
