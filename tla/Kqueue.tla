------------------------------- MODULE Kqueue -------------------------------
(***************************************************************************)
(* The registry of pollable events on BSD and macOS (device/kqueue.rs), as *)
(* operators on the same poll as Epoll's.  Timers and notifiers, which     *)
(* have a table of their own under negative numbers, are given descriptors *)
(* of their own here.                                                      *)
(***************************************************************************)
EXTENDS Naturals

CONSTANTS Fds, Addresses, NoThread

Free == [fd |-> 0, handler |-> "none", oneshot |-> FALSE, notifier |-> FALSE]

(* new_event, new_signal_event: EV_ENABLE | EV_DISPATCH *)
new_event(fd, handler) == [fd |-> fd, handler |-> handler, oneshot |-> TRUE, notifier |-> FALSE]

new_periodic_event(fd, handler) == new_event(fd, handler)

(* new_notifier: EVFILT_USER without EV_DISPATCH *)
new_notifier(fd, handler) == [new_event(fd, handler) EXCEPT !.oneshot = FALSE, !.notifier = TRUE]

-----------------------------------------------------------------------------
(* The kernel: a registration is known by descriptor and goes with it.     *)

close_all(s, fds) ==
  [s EXCEPT !.fd = [d \in Fds |-> IF d \in fds THEN 0 ELSE @[d]],
            !.reg = {r \in @ : r.fd \notin fds}]

close(s, fd) == close_all(s, {fd})

EvAdd(s, fd, a) ==
  [s EXCEPT !.reg = {r \in @ : r.fd # fd}
                      \cup {[fd |-> fd, file |-> s.fd[fd], event |-> a,
                             oneshot |-> s.heap[a].oneshot, armed |-> TRUE]}]

EvDelete(s, fd) == [s EXCEPT !.reg = {r \in @ : r.fd # fd}]

EvEnable(s, fd, a, enabled) ==
  [s EXCEPT !.reg = {IF r.fd = fd THEN [r EXCEPT !.event = a, !.armed = enabled] ELSE r
                       : r \in @}]

Triggered(s, r) == r.armed /\ (s.heap[r.event].notifier => s.on)

-----------------------------------------------------------------------------
DropEvent(s, a) == close([s EXCEPT !.heap[a] = Free], s.heap[a].fd)

(* register_event: under the mutex, first the kernel, then the table.      *)
RegisterBegin(s, t, ev, a) ==
  [EvAdd([s EXCEPT !.heap[a] = ev], ev.fd, a) EXCEPT !.mutex = t]

RegisterEnd(s, fd, a) ==
  LET prev == s.events[fd]
      rid == IF prev = 0 THEN s ELSE DropEvent(EvDelete(s, fd), prev)
  IN  [rid EXCEPT !.events[fd] = a, !.mutex = NoThread]

(* clear_event_by_fd: first the registration, then the event.              *)
ClearBegin(s, t, index) ==
  IF s.events[index] = 0 THEN s
  ELSE [EvDelete(s, index) EXCEPT !.events[index] = 0, !.mutex = t]

(* Mutant: the event is leaked. *)
ClearEnd_Leaks(s, index, a) == [s EXCEPT !.mutex = NoThread]

ClearEnd(s, index, a) == [DropEvent(s, a) EXCEPT !.mutex = NoThread]

(* wait: EV_DISPATCH disables what is delivered. *)
wait(s, r) == [s EXCEPT !.reg = (@ \ {r}) \cup {[r EXCEPT !.armed = ~r.oneshot]}]

(* EventGuard::drop *)
guard_drop(s, a) == EvEnable(s, s.heap[a].fd, a, TRUE)

(* NOTE_TRIGGER stays with the event; EV_DISABLE only keeps it from being  *)
(* delivered.                                                              *)
trigger_notification(s, fd) == EvEnable([s EXCEPT !.on = TRUE], fd, s.events[fd], TRUE)

stop_notification(s, fd) == EvEnable(s, fd, s.events[fd], FALSE)
=============================================================================
