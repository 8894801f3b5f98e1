------------------------------- MODULE DevLock -------------------------------
(***************************************************************************)
(* The device's lock (device/dev_lock.rs) and the event loops of the       *)
(* worker threads that share it (device/mod.rs, device/api.rs).  A worker  *)
(* keeps a read lock while it waits for events; the handler of an API      *)
(* request upgrades it with try_writeable, which marks the wish to write,  *)
(* asks the other workers to yield through a level-triggered notification, *)
(* writes, and lets them in again.                                         *)
(*                                                                         *)
(* A step of a thread is what it does between two blocking points: a lock, *)
(* the poll, or the stream of an API client, which is read and written     *)
(* without a timeout while the worker holds the lock.  A client goes on in *)
(* the end or it never does; Stall is the moment from which it never does. *)
(* The inner RwLock is parking_lot's: a writer first sets a bit that keeps *)
(* new readers out, then waits for the readers to leave.                   *)
(***************************************************************************)
EXTENDS Naturals, FiniteSets

CONSTANTS
  Threads,         \* the n_threads workers
  ApiSources,      \* event sources whose handler serves an API client
  MaxRequests,     \* bound: API requests
  NoThread

ASSUME LockAssumption ==
  /\ NoThread \notin Threads
  /\ ApiSources \in Nat \ {0} /\ MaxRequests \in Nat

VARIABLES
  pc,              \* [Threads -> the blocking point the thread is at]
  mutex,           \* who holds the Mutex of wants_write across a blocking point
  wants_write,
  readers,         \* who holds inner for reading
  writer,          \* who has set the writer bit of inner
  yield_notice,    \* the notification is on
  exit_notice,
  requests,        \* API requests so far
  stalled          \* workers that a client will never let go on

vars == <<pc, mutex, wants_write, readers, writer, yield_notice, exit_notice, requests, stalled>>

Holding ==         \* with a read lock
  {"loop", "command", "mark", "prep", "unlock", "clear", "get", "answer", "peer"}
Writing == {"relock", "prep", "unlock", "write", "drain", "mutate", "reread", "clear"}
Points == Holding \cup Writing \cup {"read", "read_wait", "read_inner", "mark_wait", "remark", "done"}
AtClient == {"command", "mutate", "get", "answer"}   \* in read_line, or writing to the client
Serving == AtClient \cup Writing \cup {"mark", "mark_wait", "remark"}

Init ==
  /\ pc = [t \in Threads |-> "read"]
  /\ mutex = NoThread
  /\ wants_write = FALSE
  /\ readers = {}
  /\ writer = NoThread
  /\ yield_notice = FALSE
  /\ exit_notice = FALSE
  /\ requests = 0
  /\ stalled = {}

Goto(t, from, to) == pc[t] = from /\ pc' = [pc EXCEPT ![t] = to]

-----------------------------------------------------------------------------
(* Lock::read *)

(* Mutant: a reader does not wait for an announced writer. *)
Read_NoFlag(t) ==
  /\ mutex = NoThread
  /\ Goto(t, "read", "read_inner")
  /\ mutex' = t
  /\ UNCHANGED <<wants_write, readers, writer, yield_notice, exit_notice, requests, stalled>>

(* Take the mutex; wait while a writer is announced, else keep the mutex   *)
(* while waiting for inner.                                                *)
Read(t) ==
  /\ mutex = NoThread
  /\ IF wants_write
     THEN Goto(t, "read", "read_wait") /\ UNCHANGED mutex
     ELSE Goto(t, "read", "read_inner") /\ mutex' = t
  /\ UNCHANGED <<wants_write, readers, writer, yield_notice, exit_notice, requests, stalled>>

ReadInner(t) ==
  /\ Goto(t, "read_inner", "loop")
  /\ writer = NoThread
  /\ readers' = readers \cup {t}
  /\ mutex' = NoThread
  /\ UNCHANGED <<wants_write, writer, yield_notice, exit_notice, requests, stalled>>

-----------------------------------------------------------------------------
(* LockReadGuard::try_writeable *)

(* Mutant: a second writer does not wait for the first. *)
MarkWrite_NoWait(t) ==
  /\ pc[t] \in {"mark", "remark"}
  /\ mutex = NoThread
  /\ readers' = readers \ {t}
  /\ pc' = [pc EXCEPT ![t] = "relock"]
  /\ wants_write' = TRUE
  /\ UNCHANGED <<mutex, writer, yield_notice, exit_notice, requests, stalled>>

(* Under the mutex: give up the read lock, wait for another writer to      *)
(* finish, announce ourselves.                                             *)
MarkWrite(t) ==
  /\ pc[t] \in {"mark", "remark"}
  /\ mutex = NoThread
  /\ readers' = readers \ {t}
  /\ pc' = [pc EXCEPT ![t] = IF wants_write THEN "mark_wait" ELSE "relock"]
  /\ wants_write' = TRUE
  /\ UNCHANGED <<mutex, writer, yield_notice, exit_notice, requests, stalled>>

(* RwLockReadGuard::unlocked takes the read lock again after its closure.  *)
Relock(t) ==
  /\ Goto(t, "relock", "prep")
  /\ writer = NoThread
  /\ readers' = readers \cup {t}
  /\ UNCHANGED <<mutex, wants_write, writer, yield_notice, exit_notice, requests, stalled>>

(* Mutant: the other workers are not asked to yield. *)
TriggerYield_Forgotten(t) ==
  /\ Goto(t, "prep", "unlock")
  /\ UNCHANGED <<mutex, wants_write, readers, writer, yield_notice, exit_notice, requests, stalled>>

(* prep_func: Device::trigger_yield. *)
TriggerYield(t) ==
  /\ Goto(t, "prep", "unlock")
  /\ yield_notice' = TRUE
  /\ UNCHANGED <<mutex, wants_write, readers, writer, exit_notice, requests, stalled>>

Unlock(t) ==
  /\ Goto(t, "unlock", "write")
  /\ readers' = readers \ {t}
  /\ UNCHANGED <<mutex, wants_write, writer, yield_notice, exit_notice, requests, stalled>>

SetWriterBit(t) ==
  /\ Goto(t, "write", "drain")
  /\ writer = NoThread
  /\ writer' = t
  /\ UNCHANGED <<mutex, wants_write, readers, yield_notice, exit_notice, requests, stalled>>

(* Mutant: the writer does not wait for the readers. *)
BeginMutate_NoDrain(t) ==
  /\ Goto(t, "drain", "mutate")
  /\ yield_notice' = FALSE
  /\ UNCHANGED <<mutex, wants_write, readers, writer, exit_notice, requests, stalled>>

(* Mutant: the yield notification stays on. *)
BeginMutate_NoCancel(t) ==
  /\ Goto(t, "drain", "mutate")
  /\ readers = {}
  /\ UNCHANGED <<mutex, wants_write, readers, writer, yield_notice, exit_notice, requests, stalled>>

(* The write lock is gained; mut_func begins with cancel_yield. *)
BeginMutate(t) ==
  /\ Goto(t, "drain", "mutate")
  /\ readers = {}
  /\ yield_notice' = FALSE
  /\ UNCHANGED <<mutex, wants_write, readers, writer, exit_notice, requests, stalled>>

(* mut_func reads lines until the request ends: an empty line, the end of  *)
(* the stream, an error.  What a line does to the device is in Device.     *)
EndMutate(t) ==
  /\ Goto(t, "mutate", "reread")
  /\ t \notin stalled
  /\ writer' = NoThread
  /\ UNCHANGED <<mutex, wants_write, readers, yield_notice, exit_notice, requests, stalled>>

Reread(t) ==
  /\ Goto(t, "reread", "clear")
  /\ writer = NoThread
  /\ readers' = readers \cup {t}
  /\ UNCHANGED <<mutex, wants_write, writer, yield_notice, exit_notice, requests, stalled>>

(* Mutant: the waiting threads are not notified. *)
ClearWrite_NoNotify(t) ==
  /\ Goto(t, "clear", "answer")
  /\ mutex = NoThread
  /\ wants_write' = FALSE
  /\ UNCHANGED <<mutex, readers, writer, yield_notice, exit_notice, requests, stalled>>

(* Under the mutex: wants_write := false and notify_all. *)
ClearWrite(t) ==
  /\ pc[t] = "clear"
  /\ mutex = NoThread
  /\ wants_write' = FALSE
  /\ pc' = [u \in Threads |-> CASE u = t -> "answer"
                                [] pc[u] = "read_wait" -> "read"
                                [] pc[u] = "mark_wait" -> "remark"
                                [] OTHER -> pc[u]]
  /\ UNCHANGED <<mutex, readers, writer, yield_notice, exit_notice, requests, stalled>>

-----------------------------------------------------------------------------
(* DeviceHandle::event_loop *)

(* A handler that returns Action::Continue. *)
HandleEvent(t) == pc[t] = "loop" /\ UNCHANGED vars

(* The handler of the API socket or descriptor accepts a client and waits  *)
(* for its first line.  An event is given to one thread at a time.         *)
HandleApi(t) ==
  /\ Goto(t, "loop", "command")
  /\ requests < MaxRequests
  /\ Cardinality({u \in Threads : pc[u] \in Serving}) < ApiSources
  /\ requests' = requests + 1
  /\ UNCHANGED <<mutex, wants_write, readers, writer, yield_notice, exit_notice, stalled>>

(* The line is set=1 and api_set begins; or it is get=1 and api_get begins *)
(* to write; or it is the end of the stream or anything else, which is     *)
(* answered at once; or it cannot be read, and the handler of the socket   *)
(* returns.                                                                *)
ReadCommand(t) ==
  /\ \E to \in {"mark", "get", "answer", "loop"} : Goto(t, "command", to)
  /\ t \notin stalled
  /\ UNCHANGED <<mutex, wants_write, readers, writer, yield_notice, exit_notice, requests, stalled>>

(* A line that cannot be read from the API descriptor: Action::Exit.       *)
ReadFailed(t) ==
  /\ Goto(t, "command", "done")
  /\ t \notin stalled
  /\ readers' = readers \ {t}
  /\ exit_notice' = TRUE
  /\ UNCHANGED <<mutex, wants_write, writer, yield_notice, requests, stalled>>

(* The answer, with errno last, is written when the BufWriter is full, and *)
(* when it is dropped.                                                     *)
Answer(t) ==
  /\ \E from \in {"get", "answer"} : Goto(t, from, "loop")
  /\ t \notin stalled
  /\ UNCHANGED <<mutex, wants_write, readers, writer, yield_notice, exit_notice, requests, stalled>>

(* The client stops for ever with its stream open, or never ends its       *)
(* request.                                                                *)
Stall(t) ==
  /\ pc[t] \in AtClient
  /\ t \notin stalled
  /\ stalled' = stalled \cup {t}
  /\ UNCHANGED <<pc, mutex, wants_write, readers, writer, yield_notice, exit_notice, requests>>

(* api_get keeps the mutex of a peer while it writes what it reports of    *)
(* it: once its client has stopped, a handler that needs the peer waits.   *)
WaitPeer(t) ==
  /\ Goto(t, "loop", "peer")
  /\ \E u \in stalled : pc[u] = "get"
  /\ stalled' = stalled \cup {t}
  /\ UNCHANGED <<mutex, wants_write, readers, writer, yield_notice, exit_notice, requests>>

(* The worker stays in its system call, or at the mutex of the peer.       *)
Stalled(t) == t \in stalled /\ UNCHANGED vars

(* Action::Yield: drop the read lock and take it again. *)
Yield(t) ==
  /\ yield_notice
  /\ Goto(t, "loop", "read")
  /\ readers' = readers \ {t}
  /\ UNCHANGED <<mutex, wants_write, writer, yield_notice, exit_notice, requests, stalled>>

(* Action::Exit of a signal or of the exit notification, or the end of     *)
(* file of the API descriptor.                                             *)
Exit(t) ==
  /\ Goto(t, "loop", "done")
  /\ readers' = readers \ {t}
  /\ exit_notice' = TRUE
  /\ UNCHANGED <<mutex, wants_write, writer, yield_notice, requests, stalled>>

Terminated == (\A t \in Threads : pc[t] = "done") /\ UNCHANGED vars

-----------------------------------------------------------------------------
LockStep(t) ==
  \/ Read(t) \/ ReadInner(t) \/ MarkWrite(t) \/ Relock(t) \/ TriggerYield(t)
  \/ Unlock(t) \/ SetWriterBit(t) \/ BeginMutate(t) \/ Reread(t) \/ ClearWrite(t)

ClientStep(t) == ReadCommand(t) \/ ReadFailed(t) \/ EndMutate(t) \/ Answer(t)

LoopStep(t) == HandleEvent(t) \/ HandleApi(t) \/ WaitPeer(t) \/ Yield(t) \/ Exit(t)

Next ==
  \/ \E t \in Threads : LockStep(t) \/ ClientStep(t) \/ LoopStep(t) \/ Stall(t) \/ Stalled(t)
  \/ Terminated

Spec == Init /\ [][Next]_vars

(* Threads are scheduled, locks are handed over eventually, and a          *)
(* level-triggered notification that stays on reaches every waiting        *)
(* thread.  Clients are not assumed to go on: one that does is served, and *)
(* one that never does takes Stall.                                        *)
FairSpec ==
  /\ Spec
  /\ \A t \in Threads :
       /\ SF_vars(LockStep(t))
       /\ WF_vars(ClientStep(t) \/ Stall(t))
       /\ WF_vars(Yield(t))
       /\ WF_vars(exit_notice /\ Exit(t))

-----------------------------------------------------------------------------
(* Properties *)

(* Every variable has its type, and a thread is at one of its blocking     *)
(* points.                                                                 *)
TypeOK ==
  /\ pc \in [Threads -> Points]
  /\ mutex \in Threads \cup {NoThread}
  /\ readers \subseteq Threads
  /\ writer \in Threads \cup {NoThread}
  /\ {wants_write, yield_notice, exit_notice} \subseteq BOOLEAN
  /\ requests \in 0..MaxRequests
  /\ stalled \subseteq Threads

(* "There is no race here because wants_write blocks other threads": from  *)
(* the mark to the final notify only one thread is inside try_writeable,   *)
(* although it holds neither lock at three points in between - so what its *)
(* prep_func saw is what its mut_func changes.                             *)
OneWriter ==
  \A t, u \in Threads : (pc[t] \in Writing /\ pc[u] \in Writing) => t = u

(* mut_func runs alone: no other thread is in its event loop or a handler. *)
MutateAlone ==
  \A t, u \in Threads : (pc[t] = "mutate" /\ u # t) => pc[u] \notin Holding

(* The yield notification is on only while a writer is waiting for the     *)
(* readers: no stale notification sends the workers out of their loop.     *)
YieldOnlyForWriter ==
  yield_notice => \E t \in Threads : pc[t] \in {"unlock", "write", "drain"}

(* "this will prevent any new reader from starting until we are done":     *)
(* while a writer is announced, only that writer gains a read lock.        *)
NoNewReader ==
  [][wants_write => \A t \in readers' \ readers : pc[t] \in Writing]_vars

(* Every set request is carried out, and the lock given back, unless some  *)
(* client stops for ever: its worker, and after a get those that need the  *)
(* peer it was about to report, wait for it and keep their locks.          *)
WriterCompletes ==
  \A t \in Threads : pc[t] = "mark" ~> (pc[t] = "answer" \/ stalled # {})

(* A thread that yielded, or that waits for a writer, is let in again.  A  *)
(* stopped client keeps it out only together with a write that was begun.  *)
ReaderReturns ==
  \A t \in Threads : pc[t] = "read" ~> (pc[t] = "loop" \/ (wants_write /\ stalled # {}))

(* Exit reaches every worker, also in the middle of a write, but for the   *)
(* worker of a stopped client, those that wait for the peer it has locked, *)
(* and those that wait for a write behind one of these.                    *)
AllExit ==
  \A t \in Threads :
    exit_notice ~> (pc[t] = "done" \/ t \in stalled \/ (wants_write /\ stalled # {}))
=============================================================================
