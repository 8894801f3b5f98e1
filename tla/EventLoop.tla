----------------------------- MODULE EventLoop -----------------------------
(***************************************************************************)
(* The worker threads of a device at the event poll (DeviceHandle's        *)
(* event_loop): waiting for an event, running its handler with the         *)
(* EventGuard, and giving the guard back, on either implementation of the  *)
(* poll.  The handlers do what changes the poll: the one of a listening    *)
(* socket connects a socket for a peer and registers it, it and the timer  *)
(* shut down a peer's socket, the one of the control socket triggers the   *)
(* yield notification, waits to be alone and opens a new listening socket. *)
(* A handler that serves several packets or peers in one call does here    *)
(* what as many calls would.                                               *)
(* A connected socket has two descriptors: its handler's, under which it   *)
(* is registered, and the one in the peer's endpoint.  The lock of the     *)
(* device is DevLock's subject; here a writer waits until the others are   *)
(* out of the loop, and they stay out until it has finished.               *)
(***************************************************************************)
EXTENDS Naturals, FiniteSets, FiniteSetsExt

CONSTANTS
  Workers, Peers, NoThread, NoPeer,
  Fds, Addresses,
  MaxListeners     \* bound: how often a listening socket is opened

ASSUME PollAssumption ==
  /\ IsFiniteSet(Fds) /\ Fds \subseteq Nat \ {0} /\ 1..5 \subseteq Fds
  /\ Addresses \subseteq Nat \ {0} /\ 1..4 \subseteq Addresses
  /\ NoThread \notin Workers

E == INSTANCE Epoll
K == INSTANCE Kqueue

VARIABLES
  backend,         \* "epoll" or "kqueue": which of the two was compiled
  poll,            \* the EventPoll and the descriptors
  hup,             \* the files that were shut down
  conn,            \* endpoint.conn of each peer: a descriptor, or 0
  plock,           \* who holds the Mutex of a peer
  listen,          \* udp4 of the device
  work             \* the workers

vars == <<backend, poll, hup, conn, plock, listen, work>>

UdpFd == 2
TimerFd == 3
ApiFd == 4
YieldFd == 5

(* What the connected sockets use, as descriptors and as files. *)
SocketFds == Fds \ (1..YieldFd)
SocketFiles == Fds \ (1..YieldFd - 1)

Idle == [at |-> "wait", guard |-> 0, fd |-> 0, peer |-> NoPeer]

FirstEvents ==
  <<E!new_event(UdpFd, "udp"), E!new_periodic_event(TimerFd, "timer"),
    E!new_event(ApiFd, "api"), E!new_notifier(YieldFd, "yield")>>

(* Device::new: the timers, the notifiers, the control socket and a first  *)
(* listening socket (descriptor 1, its clone registered) are in place      *)
(* before the first worker starts.                                         *)
Init ==
  /\ backend \in {"epoll", "kqueue"}
  /\ poll = LET evs == FirstEvents
                fd0 == [d \in Fds |-> IF d \in {1, UdpFd} THEN 1
                                      ELSE IF d \in 3..5 THEN d - 1 ELSE 0]
            IN  [fd |-> fd0, on |-> FALSE, mutex |-> NoThread,
                 heap |-> [a \in Addresses |-> IF a \in 1..4 THEN evs[a] ELSE E!Free],
                 events |-> [d \in Fds |-> IF d \in 2..5 THEN d - 1 ELSE 0],
                 reg |-> {[fd |-> evs[a].fd, file |-> fd0[evs[a].fd], event |-> a,
                           oneshot |-> evs[a].oneshot, armed |-> TRUE] : a \in 1..4}]
  /\ hup = {}
  /\ conn = [p \in Peers |-> 0]
  /\ plock = [p \in Peers |-> NoThread]
  /\ listen = 1
  /\ work = [w \in Workers |-> Idle]

-----------------------------------------------------------------------------
(* Either implementation. *)

Epolled == backend = "epoll"

close_all(s, fds) == IF Epolled THEN E!close_all(s, fds) ELSE K!close_all(s, fds)

close(s, fd) == close_all(s, {fd})

RegisterBegin(s, t, ev, a) ==
  IF Epolled THEN E!RegisterBegin(s, t, ev, a) ELSE K!RegisterBegin(s, t, ev, a)

RegisterEnd(s, fd, a) == IF Epolled THEN E!RegisterEnd(s, fd, a) ELSE K!RegisterEnd(s, fd, a)

ClearBegin(s, t, fd) == IF Epolled THEN E!ClearBegin(s, t, fd) ELSE K!ClearBegin(s, t, fd)

ClearEnd(s, fd, a) == IF Epolled THEN E!ClearEnd(s, fd, a) ELSE K!ClearEnd(s, fd, a)

wait(s, r) == IF Epolled THEN E!wait(s, r) ELSE K!wait(s, r)

guard_drop(s, a) == IF Epolled THEN E!guard_drop(s, a) ELSE K!guard_drop(s, a)

trigger_notification(s, fd) ==
  IF Epolled THEN E!trigger_notification(s, fd) ELSE K!trigger_notification(s, fd)

stop_notification(s, fd) ==
  IF Epolled THEN E!stop_notification(s, fd) ELSE K!stop_notification(s, fd)

Triggered(s, r) == IF Epolled THEN E!Triggered(s, r) ELSE K!Triggered(s, r)

-----------------------------------------------------------------------------
(* What the system gives out is the least that is free.  An address, or a  *)
(* file, that something still refers to is not given out again: a          *)
(* reference to memory that was given back would show as one to Free.      *)

FreeFds(s) == {d \in Fds : s.fd[d] = 0}

NewFd(s) == Min(FreeFds(s))

NewFile(s) == Min({f \in Fds : (\A d \in Fds : s.fd[d] # f) /\ (\A r \in s.reg : r.file # f)})

FreeAddresses(s) ==
  {a \in Addresses : /\ s.heap[a] = E!Free
                     /\ \A r \in s.reg : r.event # a
                     /\ \A w \in Workers : work[w].guard # a}

(* bound: an allocation that fails ends the program *)
MemoryLeft == FreeAddresses(poll) # {}

NewAddress(s) == Min(FreeAddresses(s))

(* A new socket, and the clone that try_clone makes of it.                 *)
SocketPair(s) ==
  LET f == NewFile(s)
      a == NewFd(s)
      one == [s EXCEPT !.fd[a] = f]
      b == NewFd(one)
  IN  [s |-> [one EXCEPT !.fd[b] = f], first |-> a, second |-> b]

(* A file that nobody has open is gone, and its number with it.            *)
StillOpen(s, files) == {f \in files : \E d \in Fds : s.fd[d] = f}

Unlocked == poll.mutex = NoThread

At(w, at) == work[w].at = at

Handler(w) == poll.heap[work[w].guard].handler

Runs(w, handlers) == At(w, "run") /\ Handler(w) \in handlers

GoTo(w, at) == work' = [work EXCEPT ![w].at = at]

-----------------------------------------------------------------------------
(* A thread gets an event that is ready.  A shut down socket reports the   *)
(* end of file (EPOLLHUP, EV_EOF); whether another descriptor or a timer   *)
(* is ready is left open.                                                  *)
WaitFor(w, r) ==
  /\ At(w, "wait")
  /\ Triggered(poll, r)
  /\ poll' = wait(poll, r)
  /\ work' = [work EXCEPT ![w].guard = r.event,
                         ![w].at = IF r.file \in hup THEN "eof" ELSE "run"]
  /\ UNCHANGED <<backend, hup, conn, plock, listen>>

Wait(w) == \E r \in poll.reg : WaitFor(w, r)

(* The handler returns. *)
Return(w) ==
  /\ At(w, "run")
  /\ GoTo(w, "drop")
  /\ UNCHANGED <<backend, poll, hup, conn, plock, listen>>

(* EventGuard::drop.  After a Yield the thread gives its read lock back.   *)
GuardDrop(w) ==
  /\ At(w, "drop")
  /\ poll' = guard_drop(poll, work[w].guard)
  /\ work' = [work EXCEPT ![w] = [Idle EXCEPT !.at = IF Handler(w) = "yield" THEN "out"
                                                   ELSE "wait"]]
  /\ UNCHANGED <<backend, hup, conn, plock, listen>>

(* A new round of the outer loop; readers wait while a writer does.        *)
Reenter(w) ==
  /\ At(w, "out")
  /\ \A v \in Workers : ~At(v, "write")
  /\ GoTo(w, "wait")
  /\ UNCHANGED <<backend, poll, hup, conn, plock, listen>>

-----------------------------------------------------------------------------
(* Mutant: the end of a socket is taken for any other event. *)
CancelBegin_Ignored(w) ==
  /\ At(w, "eof") /\ Unlocked
  /\ GoTo(w, "drop")
  /\ UNCHANGED <<backend, poll, hup, conn, plock, listen>>

(* WaitResult::EoF: EventGuard::cancel, which takes the event out and      *)
(* forgets the guard.                                                      *)
CancelBegin(w) ==
  /\ At(w, "eof") /\ Unlocked
  /\ poll' = ClearBegin(poll, w, poll.heap[work[w].guard].fd)
  /\ work' = [work EXCEPT ![w].at = "cancel", ![w].fd = poll.heap[work[w].guard].fd]
  /\ hup' = StillOpen(poll', hup)
  /\ UNCHANGED <<backend, conn, plock, listen>>

(* Mutant: the guard is dropped after all. *)
CancelEnd_NoForget(w) ==
  /\ At(w, "cancel")
  /\ poll' = ClearEnd(poll, work[w].fd, work[w].guard)
  /\ GoTo(w, "drop")
  /\ hup' = StillOpen(poll', hup)
  /\ UNCHANGED <<backend, conn, plock, listen>>

CancelEnd(w) ==
  /\ At(w, "cancel")
  /\ poll' = ClearEnd(poll, work[w].fd, work[w].guard)
  /\ work' = [work EXCEPT ![w] = Idle]
  /\ hup' = StillOpen(poll', hup)
  /\ UNCHANGED <<backend, conn, plock, listen>>

-----------------------------------------------------------------------------
(* shutdown_endpoint, by the timer, and the same in set_endpoint when a    *)
(* datagram came from a new address: the descriptor is taken from the      *)
(* endpoint, the socket shut down, and the descriptor closed.              *)
ShutdownEndpoint(w, p) ==
  /\ Runs(w, {"timer", "udp"})
  /\ plock[p] = NoThread /\ conn[p] # 0
  /\ plock' = [plock EXCEPT ![p] = w]
  /\ hup' = hup \cup {poll.fd[conn[p]]}
  /\ conn' = [conn EXCEPT ![p] = 0]
  /\ work' = [work EXCEPT ![w].at = "close", ![w].fd = conn[p], ![w].peer = p]
  /\ UNCHANGED <<backend, poll, listen>>

CloseConn(w) ==
  /\ At(w, "close")
  /\ poll' = close(poll, work[w].fd)
  /\ hup' = StillOpen(poll', hup)
  /\ IF Handler(w) = "udp"
     THEN /\ work' = [work EXCEPT ![w].at = "connect", ![w].fd = 0]
          /\ UNCHANGED plock
     ELSE /\ work' = [work EXCEPT ![w].at = "drop", ![w].fd = 0, ![w].peer = NoPeer]
          /\ plock' = [plock EXCEPT ![work[w].peer] = NoThread]
  /\ UNCHANGED <<backend, conn, listen>>

(* connect_endpoint for the peer whose Mutex the thread has.               *)
Connect(w, p) ==
  /\ Cardinality(FreeFds(poll)) >= 2
  /\ LET new == SocketPair(poll)
     IN  /\ poll' = new.s
         /\ conn' = [conn EXCEPT ![p] = new.second]
         /\ work' = [work EXCEPT ![w].at = "register", ![w].fd = new.first, ![w].peer = p]
  /\ plock' = [plock EXCEPT ![p] = w]
  /\ UNCHANGED <<backend, hup, listen>>

(* The peer has no connected socket, or has just lost it.                  *)
ConnectEndpoint(w, p) ==
  \/ Runs(w, {"udp"}) /\ plock[p] = NoThread /\ conn[p] = 0 /\ Connect(w, p)
  \/ At(w, "connect") /\ work[w].peer = p /\ Connect(w, p)

(* connect_endpoint failed, or connected sockets are not in use.           *)
NotConnected(w) ==
  /\ At(w, "connect")
  /\ plock' = [plock EXCEPT ![work[w].peer] = NoThread]
  /\ work' = [work EXCEPT ![w].at = "drop", ![w].peer = NoPeer]
  /\ UNCHANGED <<backend, poll, hup, conn, listen>>

(* register_conn_handler *)
RegisterConnBegin(w) ==
  /\ At(w, "register") /\ Unlocked /\ MemoryLeft
  /\ poll' = RegisterBegin(poll, w, E!new_event(work[w].fd, "conn"), NewAddress(poll))
  /\ GoTo(w, "registering")
  /\ UNCHANGED <<backend, hup, conn, plock, listen>>

(* The box that is not yet known to both the table and the kernel.         *)
Boxed(fd) == CHOOSE a \in Addresses : poll.heap[a].fd = fd

RegisterConnEnd(w) ==
  /\ At(w, "registering")
  /\ poll' = RegisterEnd(poll, work[w].fd, Boxed(work[w].fd))
  /\ plock' = [plock EXCEPT ![work[w].peer] = NoThread]
  /\ work' = [work EXCEPT ![w].at = "drop", ![w].fd = 0, ![w].peer = NoPeer]
  /\ UNCHANGED <<backend, hup, conn, listen>>

-----------------------------------------------------------------------------
(* The control socket: try_writeable triggers the yield notification and   *)
(* gives the read lock back.                                               *)
ApiSet(w) ==
  /\ Runs(w, {"api"}) /\ Unlocked
  /\ poll' = trigger_notification(poll, YieldFd)
  /\ GoTo(w, "write")
  /\ UNCHANGED <<backend, hup, conn, plock, listen>>

(* Mutant: a thread that yields has given its lock back before its guard.  *)
Alone_BeforeGuard(w) ==
  \A v \in Workers \ {w} : At(v, "out") \/ (At(v, "drop") /\ Handler(v) = "yield")

Alone(w) == \A v \in Workers \ {w} : At(v, "out")

(* open_listen_socket on the poll s: the old socket goes, with the event   *)
(* under its own descriptor if there is one, the peers' sockets are shut   *)
(* down, and a clone of the new socket is registered.                      *)
ClearEvent(s, w, fd) ==
  IF s.events[fd] = 0 THEN s ELSE ClearEnd(ClearBegin(s, w, fd), fd, s.events[fd])

Connected == {conn[p] : p \in Peers} \ {0}

CloseSockets(s, w) ==
  close_all(ClearEvent(s, w, listen), {listen} \cup Connected)

OpenListenSocket(s, w) ==
  LET new == SocketPair(CloseSockets(s, w))
      a == NewAddress(new.s)
  IN  [s |-> RegisterEnd(RegisterBegin(new.s, w, E!new_event(new.second, "udp"), a),
                         new.second, a),
       listen |-> new.first]

Listeners == Cardinality({a \in Addresses : poll.heap[a].handler = "udp"})

(* Alone, the writer stops the notification and changes the device.        *)
ApiWrite(w) ==
  /\ At(w, "write") /\ Alone(w) /\ Unlocked
  /\ LET s == stop_notification(poll, YieldFd)
     IN  \/ poll' = s /\ UNCHANGED <<hup, conn, listen>>
         \/ /\ Listeners < MaxListeners /\ MemoryLeft
            /\ Cardinality(FreeFds(s)) >= 2
            /\ poll' = OpenListenSocket(s, w).s
            /\ listen' = OpenListenSocket(s, w).listen
            /\ hup' = StillOpen(CloseSockets(s, w), hup \cup {s.fd[d] : d \in Connected})
            /\ conn' = [p \in Peers |-> 0]
  /\ GoTo(w, "drop")
  /\ UNCHANGED <<backend, plock>>

Handle(w) ==
  \/ \E p \in Peers : ShutdownEndpoint(w, p) \/ ConnectEndpoint(w, p)
  \/ ApiSet(w)

(* What a thread has begun and goes on with. *)
Continue(w) ==
  \/ GuardDrop(w) \/ CancelBegin(w) \/ CancelEnd(w)
  \/ CloseConn(w) \/ NotConnected(w)
  \/ RegisterConnBegin(w) \/ RegisterConnEnd(w) \/ ApiWrite(w)

Next == \E w \in Workers : Wait(w) \/ Return(w) \/ Reenter(w) \/ Handle(w) \/ Continue(w)

Spec == Init /\ [][Next]_vars

(* Threads run, and get a parking_lot Mutex, which is eventually fair, in  *)
(* the end; the kernel reports what is ready in turn.  Handlers return: it *)
(* is assumed that datagrams which are refused, and which the loop of the  *)
(* UDP handler does not count, do not come without a pause, and that a     *)
(* client of the control socket ends its request (DevLock has those that   *)
(* do not).                                                                *)
Fairness ==
  /\ \A w \in Workers : SF_vars(Return(w) \/ Continue(w))
  /\ \A w \in Workers : SF_vars(\E r \in poll.reg : r.fd = YieldFd /\ WaitFor(w, r))
  /\ \A d \in SocketFds : SF_vars(\E w \in Workers : \E r \in poll.reg : r.fd = d /\ WaitFor(w, r))

FairSpec == Spec /\ Fairness

-----------------------------------------------------------------------------
Holds(w, a) == work[w].guard = a

(* "It is guaranteed that only a single thread can have a reference to the *)
(* handler at any given time" (epoll.rs, new_event): no event but a        *)
(* notifier is ever with two threads.                                      *)
OneHolder ==
  \A v, w \in Workers :
    v # w /\ work[v].guard # 0 /\ work[v].guard = work[w].guard
      => poll.heap[work[v].guard].notifier

(* No thread has a guard, and the kernel no enabled registration, of an    *)
(* event that was given back, whatever order cancellation, reuse of a      *)
(* descriptor and configuration come in.  The thread that cancels is the   *)
(* one that gives its event back.                                          *)
NoDangling ==
  /\ \A w \in Workers : work[w].guard # 0 /\ ~At(w, "cancel")
                          => poll.heap[work[w].guard] # E!Free
  /\ \A r \in poll.reg : r.armed => poll.heap[r.event] # E!Free

InFlight(fd) == \E w \in Workers : work[w].at \in {"registering", "cancel"} /\ work[w].fd = fd

(* No event is lost: an event of the table is watched on the descriptor    *)
(* and the file it is filed under, and the registration is enabled unless  *)
(* a thread has the guard whose drop enables it.  Closing and deleting are *)
(* two steps, and between them the descriptor may become another socket's. *)
NoLostEvent ==
  \A d \in Fds :
    poll.events[d] # 0 /\ ~InFlight(d) =>
      /\ poll.heap[poll.events[d]].fd = d
      /\ \E r \in poll.reg :
           /\ r.fd = d /\ r.file = poll.fd[d] /\ r.event = poll.events[d]
           /\ r.armed \/ d = YieldFd \/ \E w \in Workers : Holds(w, r.event)

(* Every event still allocated can be reached: through the table, or by    *)
(* the thread that registers or cancels it.                                *)
NoLeak ==
  \A a \in Addresses : poll.heap[a] # E!Free =>
    \/ poll.events[poll.heap[a].fd] = a
    \/ InFlight(poll.heap[a].fd)

(* A thread is told to yield only while a writer waits: no guard dropped   *)
(* late revives a notification that was stopped.                           *)
YieldForWriter ==
  \A w \in Workers :
    work[w].guard # 0 /\ ~At(w, "cancel") /\ Handler(w) = "yield"
      => \E v \in Workers : At(v, "write")

(* A socket that was shut down is closed on every descriptor in the end:   *)
(* the comment "close open udp socket and free the closure"                *)
(* (device/mod.rs, remove_peer) comes true through the event loop.         *)
ShutDownFreed == \A f \in SocketFiles : f \in hup ~> f \notin hup

(* A writer gets its turn: the yield notification reaches every thread,    *)
(* among all the other events that are ready, as long as handlers return.  *)
WriterRuns == \A w \in Workers : At(w, "write") ~> At(w, "drop")
=============================================================================
