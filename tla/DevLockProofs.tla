---------------------------- MODULE DevLockProofs ----------------------------
(***************************************************************************)
(* The safety properties of DevLock, for any number of threads, API event  *)
(* sources and requests.                                                   *)
(***************************************************************************)
EXTENDS DevLock, TLAPS

(* The mutex is held across a blocking point only by a reader about to     *)
(* enter, and then no writer is announced.                                 *)
MutexInv ==
  /\ mutex # NoThread => pc[mutex] = "read_inner" /\ ~wants_write
  /\ \A t \in Threads : pc[t] = "read_inner" => mutex = t

(* The holders of the read lock are the threads at a point that keeps it.  *)
ReadersInv == \A t \in Threads : t \in readers <=> pc[t] \in Holding

(* wants_write is set exactly while a thread is in its write section.      *)
MarkInv ==
  /\ wants_write <=> \E t \in Threads : pc[t] \in Writing
  /\ OneWriter

(* The writer bit belongs to the thread that drains or mutates.            *)
BitInv ==
  /\ \A t \in Threads : writer = t <=> pc[t] \in {"drain", "mutate"}
  /\ \A t \in Threads : pc[t] = "mutate" => readers = {}

(* A stalled worker stays where it waits for its client, or for a peer.    *)
StallInv == \A t \in stalled : pc[t] \in AtClient \cup {"peer"}

LockInv ==
  TypeOK /\ MutexInv /\ ReadersInv /\ MarkInv /\ BitInv /\ YieldOnlyForWriter /\ StallInv

-----------------------------------------------------------------------------
(* The initial state satisfies the invariant: all workers are about to     *)
(* call Lock::read and nothing is held.                                    *)
LEMMA InitLock == Init => LockInv
<1>. SUFFICES ASSUME Init PROVE LockInv  OBVIOUS
<1>. USE LockAssumption DEF Init, Holding, Writing
<1>1. TypeOK
  <2>1. pc \in [Threads -> Points]  BY DEF Points
  <2>2. {wants_write, yield_notice, exit_notice} \subseteq BOOLEAN  OBVIOUS
  <2>. QED  BY <2>1, <2>2 DEF TypeOK
<1>2. MutexInv  BY DEF MutexInv
<1>3. ReadersInv  BY DEF ReadersInv
<1>4. MarkInv  BY DEF MarkInv, OneWriter
<1>5. BitInv  BY DEF BitInv
<1>6. YieldOnlyForWriter  BY DEF YieldOnlyForWriter
<1>7. StallInv  BY DEF StallInv
<1>. QED  BY <1>1, <1>2, <1>3, <1>4, <1>5, <1>6, <1>7 DEF LockInv

(* Lock::read preserves the invariant: the flag is tested and inner taken  *)
(* under one hold of the mutex, so no writer announces itself in between.  *)
LEMMA ReadSteps ==
  ASSUME LockInv, NEW t \in Threads, Read(t) \/ ReadInner(t)
  PROVE  LockInv'
<1>. USE LockAssumption DEF LockInv, Goto
<1>1. CASE Read(t) /\ wants_write
  <2>1. pc[t] = "read" /\ pc' = [pc EXCEPT ![t] = "read_wait"]
        /\ UNCHANGED <<mutex, wants_write, readers, writer, yield_notice, exit_notice, requests, stalled>>
    BY <1>1 DEF Read
  <2>. QED
    BY <2>1, <1>1 DEF TypeOK, MutexInv, ReadersInv, MarkInv, BitInv,
       OneWriter, YieldOnlyForWriter, Points, Holding, Writing, AtClient, StallInv
<1>2. CASE Read(t) /\ ~wants_write
  <2>1. pc[t] = "read" /\ pc' = [pc EXCEPT ![t] = "read_inner"]
        /\ mutex = NoThread /\ mutex' = t
        /\ UNCHANGED <<wants_write, readers, writer, yield_notice, exit_notice, requests, stalled>>
    BY <1>2 DEF Read
  <2>. QED
    BY <2>1, <1>2 DEF TypeOK, MutexInv, ReadersInv, MarkInv, BitInv,
       OneWriter, YieldOnlyForWriter, Points, Holding, Writing, AtClient, StallInv
<1>3. CASE ReadInner(t)
  BY <1>3 DEF ReadInner, TypeOK, MutexInv, ReadersInv, MarkInv, BitInv,
     OneWriter, YieldOnlyForWriter, Points, Holding, Writing, AtClient, StallInv
<1>. QED  BY <1>1, <1>2, <1>3

(* The first half of try_writeable: mark, yield, give up the read lock.    *)
LEMMA MarkSteps ==
  ASSUME LockInv, NEW t \in Threads,
         MarkWrite(t) \/ Relock(t) \/ TriggerYield(t) \/ Unlock(t)
  PROVE  LockInv'
<1>. USE LockAssumption DEF LockInv, Goto
<1>1. CASE MarkWrite(t) /\ wants_write
  BY <1>1 DEF MarkWrite, TypeOK, MutexInv, ReadersInv, MarkInv, BitInv,
     OneWriter, YieldOnlyForWriter, Points, Holding, Writing, AtClient, StallInv
<1>2. CASE MarkWrite(t) /\ ~wants_write
  BY <1>2 DEF MarkWrite, TypeOK, MutexInv, ReadersInv, MarkInv, BitInv,
     OneWriter, YieldOnlyForWriter, Points, Holding, Writing, AtClient, StallInv
<1>3. CASE Relock(t)
  BY <1>3 DEF Relock, TypeOK, MutexInv, ReadersInv, MarkInv, BitInv,
     OneWriter, YieldOnlyForWriter, Points, Holding, Writing, AtClient, StallInv
<1>4. CASE TriggerYield(t)
  BY <1>4 DEF TriggerYield, TypeOK, MutexInv, ReadersInv, MarkInv, BitInv,
     OneWriter, YieldOnlyForWriter, Points, Holding, Writing, AtClient, StallInv
<1>5. CASE Unlock(t)
  BY <1>5 DEF Unlock, TypeOK, MutexInv, ReadersInv, MarkInv, BitInv,
     OneWriter, YieldOnlyForWriter, Points, Holding, Writing, AtClient, StallInv
<1>. QED  BY <1>1, <1>2, <1>3, <1>4, <1>5

(* The second half: write, take the read lock again, let the others in.    *)
LEMMA WriteSteps ==
  ASSUME LockInv, NEW t \in Threads,
         SetWriterBit(t) \/ BeginMutate(t) \/ Reread(t) \/ ClearWrite(t)
  PROVE  LockInv'
<1>. USE LockAssumption DEF LockInv, Goto
<1>1. CASE SetWriterBit(t)
  BY <1>1 DEF SetWriterBit, TypeOK, MutexInv, ReadersInv, MarkInv, BitInv,
     OneWriter, YieldOnlyForWriter, Points, Holding, Writing, AtClient, StallInv
<1>2. CASE BeginMutate(t)
  <2>. USE <1>2 DEF BeginMutate, Holding, Writing
  <2>1. TypeOK'  BY DEF TypeOK, Points
  <2>2. MutexInv'  BY DEF MutexInv, TypeOK
  <2>3. ReadersInv'  BY DEF ReadersInv, TypeOK
  <2>4. MarkInv'  BY DEF MarkInv, OneWriter, TypeOK
  <2>5. BitInv'  BY DEF BitInv, TypeOK
  <2>6. YieldOnlyForWriter'  BY DEF YieldOnlyForWriter
  <2>7. StallInv'  BY DEF StallInv, AtClient, TypeOK
  <2>. QED  BY <2>1, <2>2, <2>3, <2>4, <2>5, <2>6, <2>7
<1>3. CASE Reread(t)
  BY <1>3 DEF Reread, TypeOK, MutexInv, ReadersInv, MarkInv, BitInv,
     OneWriter, YieldOnlyForWriter, Points, Holding, Writing, AtClient, StallInv
<1>4. CASE ClearWrite(t)
  <2>. USE <1>4 DEF ClearWrite, Holding, Writing
  <2>1. pc' \in [Threads -> Points] /\ pc'[t] = "answer"
    BY DEF TypeOK, Points
  <2>2. \A u \in Threads \ {t} :
          /\ pc'[u] = pc[u] \/ (pc[u] = "read_wait" /\ pc'[u] = "read")
                          \/ (pc[u] = "mark_wait" /\ pc'[u] = "remark")
          /\ pc[u] \notin Writing /\ pc'[u] \notin Writing
          /\ pc'[u] = pc[u] \/ pc[u] \notin Holding \cup {"read_inner"}
          /\ pc'[u] = pc[u] \/ pc'[u] \notin Holding \cup {"read_inner"}
    BY DEF TypeOK, MarkInv, OneWriter
  <2>. HIDE DEF ClearWrite
  <2>3. /\ pc[t] = "clear" /\ mutex = NoThread /\ wants_write' = FALSE
        /\ UNCHANGED <<mutex, readers, writer, yield_notice, exit_notice, requests, stalled>>
    BY DEF ClearWrite
  <2>4. TypeOK'  BY <2>1, <2>3 DEF TypeOK
  <2>5. MutexInv'  BY <2>1, <2>2, <2>3 DEF MutexInv
  <2>6. ReadersInv'  BY <2>1, <2>2, <2>3 DEF ReadersInv
  <2>7. MarkInv'  BY <2>1, <2>2, <2>3 DEF MarkInv, OneWriter
  <2>8. BitInv'  BY <2>1, <2>2, <2>3 DEF BitInv
  <2>9. YieldOnlyForWriter'  BY <2>1, <2>2, <2>3 DEF YieldOnlyForWriter
  <2>10. StallInv'  BY <2>1, <2>2, <2>3 DEF StallInv, AtClient, TypeOK
  <2>. QED  BY <2>4, <2>5, <2>6, <2>7, <2>8, <2>9, <2>10
<1>. QED  BY <1>1, <1>2, <1>3, <1>4

(* What a client does: its command, the end of its request, reading the    *)
(* answer, or none of these any more.                                      *)
LEMMA ClientSteps ==
  ASSUME LockInv, NEW t \in Threads, ClientStep(t) \/ Stall(t)
  PROVE  LockInv'
<1>. USE LockAssumption DEF LockInv, Goto
<1>1. CASE ReadCommand(t)
  <2>1. PICK to \in {"mark", "get", "answer", "loop"} : Goto(t, "command", to)
    BY <1>1 DEF ReadCommand
  <2>. QED
    BY <2>1, <1>1 DEF ReadCommand, TypeOK, MutexInv, ReadersInv, MarkInv, BitInv,
       OneWriter, YieldOnlyForWriter, Points, Holding, Writing, AtClient, StallInv
<1>2. CASE ReadFailed(t)
  BY <1>2 DEF ReadFailed, TypeOK, MutexInv, ReadersInv, MarkInv, BitInv,
     OneWriter, YieldOnlyForWriter, Points, Holding, Writing, AtClient, StallInv
<1>3. CASE EndMutate(t)
  BY <1>3 DEF EndMutate, TypeOK, MutexInv, ReadersInv, MarkInv, BitInv,
     OneWriter, YieldOnlyForWriter, Points, Holding, Writing, AtClient, StallInv
<1>4. CASE Answer(t)
  <2>1. PICK from \in {"get", "answer"} : Goto(t, from, "loop")
    BY <1>4 DEF Answer
  <2>. QED
    BY <2>1, <1>4 DEF Answer, TypeOK, MutexInv, ReadersInv, MarkInv, BitInv,
       OneWriter, YieldOnlyForWriter, Points, Holding, Writing, AtClient, StallInv
<1>5. CASE Stall(t)
  BY <1>5 DEF Stall, TypeOK, MutexInv, ReadersInv, MarkInv, BitInv,
     OneWriter, YieldOnlyForWriter, StallInv
<1>. QED  BY <1>1, <1>2, <1>3, <1>4, <1>5 DEF ClientStep

(* The event loop: an API client, a peer that is not released, a yield, an *)
(* exit.                                                                   *)
LEMMA LoopSteps ==
  ASSUME LockInv, NEW t \in Threads, HandleApi(t) \/ WaitPeer(t) \/ Yield(t) \/ Exit(t)
  PROVE  LockInv'
<1>. USE LockAssumption DEF LockInv, Goto
<1>1. CASE HandleApi(t)
  BY <1>1 DEF HandleApi, TypeOK, MutexInv, ReadersInv, MarkInv, BitInv,
     OneWriter, YieldOnlyForWriter, Points, Holding, Writing, AtClient, StallInv
<1>2. CASE Yield(t)
  BY <1>2 DEF Yield, TypeOK, MutexInv, ReadersInv, MarkInv, BitInv,
     OneWriter, YieldOnlyForWriter, Points, Holding, Writing, AtClient, StallInv
<1>3. CASE Exit(t)
  BY <1>3 DEF Exit, TypeOK, MutexInv, ReadersInv, MarkInv, BitInv,
     OneWriter, YieldOnlyForWriter, Points, Holding, Writing, AtClient, StallInv
<1>4. CASE WaitPeer(t)
  BY <1>4 DEF WaitPeer, TypeOK, MutexInv, ReadersInv, MarkInv, BitInv,
     OneWriter, YieldOnlyForWriter, Points, Holding, Writing, AtClient, StallInv
<1>. QED  BY <1>1, <1>2, <1>3, <1>4

(* Every step preserves the invariant. *)
LEMMA NextLock == LockInv /\ [Next]_vars => LockInv'
<1>. SUFFICES ASSUME LockInv, [Next]_vars PROVE LockInv'  OBVIOUS
<1>1. CASE UNCHANGED vars
  BY <1>1 DEF vars, LockInv, TypeOK, MutexInv, ReadersInv, MarkInv, BitInv,
     OneWriter, YieldOnlyForWriter, StallInv
<1>2. ASSUME NEW t \in Threads, LockStep(t)  PROVE LockInv'
  BY <1>2, ReadSteps, MarkSteps, WriteSteps DEF LockStep
<1>3. ASSUME NEW t \in Threads, HandleApi(t) \/ WaitPeer(t) \/ Yield(t) \/ Exit(t)
      PROVE  LockInv'
  BY <1>3, LoopSteps
<1>4. ASSUME NEW t \in Threads, ClientStep(t) \/ Stall(t)  PROVE LockInv'
  BY <1>4, ClientSteps
<1>. QED
  BY <1>1, <1>2, <1>3, <1>4 DEF Next, LoopStep, HandleEvent, Stalled, Terminated

(* The invariant holds in every state, whatever the number of threads.     *)
THEOREM LockInvariance == Spec => []LockInv
  BY InitLock, NextLock, PTL DEF Spec

-----------------------------------------------------------------------------
(* Every thread is at a point of Lock::read, try_writeable or event_loop,  *)
(* and the lock's state keeps its type, for any number of threads.         *)
THEOREM LockTypeCorrect == Spec => []TypeOK
<1>1. LockInv => TypeOK  BY DEF LockInv
<1>. QED  BY <1>1, LockInvariance, PTL

(* Only one thread at a time is inside try_writeable, from its mark to the *)
(* final notify: the comment "There is no race here because wants_write    *)
(* blocks other threads" holds for any number of writers.                  *)
THEOREM SingleWriter == Spec => []OneWriter
<1>1. LockInv => OneWriter  BY DEF LockInv, MarkInv
<1>. QED  BY <1>1, LockInvariance, PTL

(* While mut_func runs, no other thread is in its event loop or a handler. *)
THEOREM WriterAlone == Spec => []MutateAlone
<1>1. LockInv => MutateAlone
  BY DEF LockInv, BitInv, ReadersInv, MutateAlone
<1>. QED  BY <1>1, LockInvariance, PTL

(* The yield notification is never left on after its writer got the lock.  *)
THEOREM YieldAccounted == Spec => []YieldOnlyForWriter
<1>1. LockInv => YieldOnlyForWriter  BY DEF LockInv
<1>. QED  BY <1>1, LockInvariance, PTL

(* Once a writer is announced no other thread is granted the read lock:    *)
(* the only steps that grant it are those of Lock::read, which is past the *)
(* flag only while nobody is announced, and those of the writer itself.    *)
THEOREM ReadersKeptOut == Spec => NoNewReader
<1>1. LockInv /\ [Next]_vars =>
        [wants_write => \A t \in readers' \ readers : pc[t] \in Writing]_vars
  <2>. SUFFICES ASSUME LockInv, Next, wants_write, NEW u \in readers' \ readers
                PROVE  pc[u] \in Writing
    OBVIOUS
  <2>1. ASSUME NEW t \in Threads, LockStep(t)  PROVE pc[u] \in Writing
    <3>1. CASE ReadInner(t)
      BY <3>1, LockAssumption DEF ReadInner, Goto, LockInv, MutexInv, TypeOK
    <3>2. CASE Relock(t) \/ Reread(t)
      BY <3>2 DEF Relock, Reread, Goto, Writing
    <3>3. CASE Read(t) \/ MarkWrite(t) \/ TriggerYield(t) \/ Unlock(t)
      BY <3>3 DEF Read, MarkWrite, TriggerYield, Unlock
    <3>4. CASE SetWriterBit(t) \/ BeginMutate(t) \/ ClearWrite(t)
      BY <3>4 DEF SetWriterBit, BeginMutate, ClearWrite
    <3>. QED  BY <2>1, <3>1, <3>2, <3>3, <3>4 DEF LockStep
  <2>. QED
    BY <2>1 DEF Next, LoopStep, HandleEvent, HandleApi, WaitPeer, Yield, Exit, ClientStep,
       ReadCommand, ReadFailed, EndMutate, Answer, Stall, Stalled, Terminated, vars
<1>. QED  BY <1>1, LockInvariance, PTL DEF Spec, NoNewReader
=============================================================================
