-------------------------------- MODULE Epoll --------------------------------
(***************************************************************************)
(* The registry of pollable events on Linux (device/epoll.rs), as          *)
(* operators on a poll `s':                                                *)
(*   fd      the process's descriptors: the open file of each, 0 if free   *)
(*   reg     what the kernel watches                                       *)
(*   on      the notification is triggered                                 *)
(*   heap    the boxed Events, by address; Free is memory given back       *)
(*   events  the table by descriptor; 0 is None                            *)
(*   mutex   who holds the table's Mutex across two steps                  *)
(* A handler owns the descriptor that its event was registered under, so   *)
(* dropping the event closes it.  A call that others can come in between   *)
(* is two operators, Begin and End.                                        *)
(***************************************************************************)
EXTENDS Naturals

CONSTANTS
  Fds,             \* descriptors
  Addresses,       \* where events may be allocated
  NoThread

Free == [fd |-> 0, handler |-> "none", oneshot |-> FALSE, notifier |-> FALSE]

(* Mutant: without EPOLLONESHOT. *)
new_event_Level(fd, handler) == [fd |-> fd, handler |-> handler, oneshot |-> FALSE, notifier |-> FALSE]

(* new_event, new_signal_event: EPOLLIN | EPOLLONESHOT *)
new_event(fd, handler) == [fd |-> fd, handler |-> handler, oneshot |-> TRUE, notifier |-> FALSE]

(* new_periodic_event: a timerfd.  The read that resets it when its guard  *)
(* is dropped changes when it is ready next, which is left open here.      *)
new_periodic_event(fd, handler) == new_event(fd, handler)

(* new_notifier: an eventfd, level-triggered and not one-shot.             *)
new_notifier(fd, handler) == [new_event(fd, handler) EXCEPT !.oneshot = FALSE, !.notifier = TRUE]

-----------------------------------------------------------------------------
(* The kernel: a registration is known by descriptor and open file, and    *)
(* goes when the last descriptor of the file is closed.                    *)

Watches(s, r, fd) == s.fd[fd] # 0 /\ r.fd = fd /\ r.file = s.fd[fd]

(* Closing several descriptors, one after the other. *)
close_all(s, fds) ==
  LET left == [d \in Fds |-> IF d \in fds THEN 0 ELSE s.fd[d]]
  IN  [s EXCEPT !.fd = left,
                !.reg = {r \in @ : \E d \in Fds : left[d] = r.file}]

close(s, fd) == close_all(s, {fd})

CtlAdd(s, fd, a) ==
  [s EXCEPT !.reg = @ \cup {[fd |-> fd, file |-> s.fd[fd], event |-> a,
                             oneshot |-> s.heap[a].oneshot, armed |-> TRUE]}]

(* On a closed descriptor, or one that is not watched, this only fails.    *)
CtlDel(s, fd) == [s EXCEPT !.reg = {r \in @ : ~Watches(s, r, fd)}]

CtlMod(s, fd, a) ==
  [s EXCEPT !.reg = {IF Watches(s, r, fd) THEN [r EXCEPT !.event = a, !.armed = TRUE] ELSE r
                       : r \in @}]

Triggered(s, r) == r.armed /\ (s.heap[r.event].notifier => s.on)

-----------------------------------------------------------------------------
(* Dropping the box of an event. *)
DropEvent(s, a) == close([s EXCEPT !.heap[a] = Free], s.heap[a].fd)

(* insert_at, with the event at address a.                                 *)
insert_at(s, fd, a) ==
  LET prev == s.events[fd]
      rid == IF prev = 0 THEN s ELSE CtlDel(DropEvent(s, prev), fd)
  IN  [rid EXCEPT !.events[fd] = a]

(* register_event: first the table, under its mutex, then the kernel.      *)
RegisterBegin(s, t, ev, a) == insert_at([s EXCEPT !.heap[a] = ev], ev.fd, a)

RegisterEnd(s, fd, a) == CtlAdd(s, fd, a)

(* Mutant: the registration is deleted after the mutex is given back. *)
ClearBegin_Unlocked(s, t, index) ==
  LET a == s.events[index]
  IN  IF a = 0 THEN s ELSE [DropEvent(s, a) EXCEPT !.events[index] = 0]

(* clear_event_by_fd: the event and the descriptor of its handler go       *)
(* first, then the registration, all under the mutex.                      *)
ClearBegin(s, t, index) ==
  LET a == s.events[index]
  IN  IF a = 0 THEN s
      ELSE [DropEvent(s, a) EXCEPT !.events[index] = 0, !.mutex = t]

ClearEnd(s, index, a) == [CtlDel(s, index) EXCEPT !.mutex = NoThread]

(* wait: the kernel hands a registration that is ready to one thread, and  *)
(* disables it if it is one-shot.                                          *)
wait(s, r) == [s EXCEPT !.reg = (@ \ {r}) \cup {[r EXCEPT !.armed = ~r.oneshot]}]

(* EventGuard::drop *)
guard_drop(s, a) == CtlMod(s, s.heap[a].fd, a)

(* Mutant: nothing is written to the eventfd. *)
trigger_notification_NoWrite(s, fd) == s

(* The counter of the eventfd is not zero, then zero again.                *)
trigger_notification(s, fd) == [s EXCEPT !.on = TRUE]

stop_notification(s, fd) == [s EXCEPT !.on = FALSE]
=============================================================================
