---------------------- MODULE ExecutionModeGuardProofs ----------------------
(***************************************************************************)
(* Proofs about ExecutionModeGuard for any number of triggers and          *)
(* releases, any queue depth and every guarded mode: its invariants, and   *)
(* that the guard with its lock, futures and done-callbacks implements     *)
(* SerialExecution.                                                        *)
(***************************************************************************)
EXTENDS ExecutionModeGuard, SequenceTheorems, TLAPS

\* Leaving the critical section keeps the lock and its waiters well typed.
LEMMA UnlockType ==
    ASSUME lock \in Agents \cup {None}, waiters \in Seq(Agents), Unlock
    PROVE  lock' \in Agents \cup {None} /\ waiters' \in Seq(Agents)
<1>1. CASE waiters = <<>>
  BY <1>1 DEF Unlock
<1>2. CASE waiters # <<>>
  <2>1. Head(waiters) \in Agents /\ Tail(waiters) \in Seq(Agents)
    BY <1>2, HeadTailProperties
  <2> QED BY <1>2, <2>1 DEF Unlock
<1> QED BY <1>1, <1>2

\* run_and_track() under the lock keeps the types.
LEMMA StartType ==
    ASSUME TypeOK, NEW t \in Triggers, NEW pd \in SUBSET Triggers, Start(t, pd),
           awaited' \in [Agents -> Triggers \cup {None}]
    PROVE  TypeOK'
<1>1. lock' \in Agents \cup {None} /\ waiters' \in Seq(Agents)
  BY UnlockType DEF TypeOK, Start
<1>2. t \in Agents
  BY DEF Agents
<1> QED BY <1>1, <1>2 DEF TypeOK, Start

LEMMA RefuseType ==
    ASSUME TypeOK, NEW t \in Triggers, NEW pd \in SUBSET Triggers,
           NEW out \in {"SUPPRESSED", "DROPPED"}, Refuse(t, pd, out),
           suppressed' \in Nat, dropped' \in Nat
    PROVE  TypeOK'
<1>1. lock' \in Agents \cup {None} /\ waiters' \in Seq(Agents)
  BY UnlockType DEF TypeOK, Refuse
<1>2. t \in Agents
  BY DEF Agents
<1> QED BY <1>1, <1>2 DEF TypeOK, Refuse

\* guard.run() of every mode keeps the types.
LEMMA RunType ==
    ASSUME TypeOK, NEW t \in Triggers, NEW pd \in SUBSET Triggers, Run(t, pd)
    PROVE  TypeOK'
<1>0. t \in Agents
  BY DEF Agents
<1>1. CASE RunSingle(t, pd)
  <2>1. CASE Refuse(t, pd, "SUPPRESSED") /\ suppressed' = suppressed + 1 /\ UNCHANGED dropped
    BY <2>1, RefuseType DEF TypeOK
  <2>2. CASE Start(t, pd) /\ UNCHANGED awaited
    BY <2>2, StartType DEF TypeOK
  <2> QED BY <1>1, <2>1, <2>2 DEF RunSingle
<1>2. CASE RunRestart(t, pd)
  <2>1. CASE IsRunning /\ ~ Start(t, pd)
    BY <1>0, <1>2, <2>1 DEF RunRestart, TypeOK, IsRunning
  <2>2. CASE Start(t, pd) /\ UNCHANGED awaited
    BY <2>2, StartType DEF TypeOK
  <2>3. CASE IsRunning
    BY <1>0, <1>2, <2>3 DEF RunRestart, TypeOK, IsRunning
  <2> QED BY <1>2, <2>1, <2>2, <2>3 DEF RunRestart
<1>3. CASE RunQueued(t, pd)
  <2>1. CASE Refuse(t, pd, "DROPPED") /\ dropped' = dropped + 1 /\ UNCHANGED suppressed
    BY <2>1, RefuseType DEF TypeOK
  <2>2. CASE Start(t, pd) /\ UNCHANGED awaited
    BY <2>2, StartType DEF TypeOK
  <2>3. CASE /\ pending' = Append(pending, t)
             /\ outcome' = [outcome EXCEPT ![t] = "QUEUED_ACCEPTED"]
             /\ pc' = [pc EXCEPT ![t] = "parked"]
             /\ pendingDone' = pd
             /\ Unlock
             /\ UNCHANGED <<mode, task, cancelled, current, suppressed, dropped, awaited>>
    <3>1. lock' \in Agents \cup {None} /\ waiters' \in Seq(Agents)
      BY <2>3, UnlockType DEF TypeOK
    <3>2. pending' \in Seq(Triggers)
      BY <2>3 DEF TypeOK
    <3> QED BY <1>0, <2>3, <3>1, <3>2 DEF TypeOK
  <2> QED BY <1>3, <2>1, <2>2, <2>3 DEF RunQueued
<1> QED BY <1>1, <1>2, <1>3 DEF Run

\* release() with the lock held keeps the types.
LEMMA ReleaseBodyType ==
    ASSUME TypeOK, NEW r \in Releases, ReleaseBody(r)
    PROVE  TypeOK'
<1>0. r \in Agents
  BY DEF Agents
<1>1. CASE IsRunning
  BY <1>0, <1>1 DEF ReleaseBody, TypeOK, IsRunning
<1>2. CASE ~IsRunning
  <2>1. lock' \in Agents \cup {None} /\ waiters' \in Seq(Agents)
    BY <1>2, UnlockType DEF TypeOK, ReleaseBody
  <2> QED BY <1>0, <1>2, <2>1 DEF ReleaseBody, TypeOK
<1> QED BY <1>1, <1>2

LEMMA WaitForLockType ==
    ASSUME TypeOK, NEW a \in Agents, WaitForLock(a), pendingDone' \subseteq Triggers
    PROVE  TypeOK'
BY DEF WaitForLock, TypeOK

\* drain_next and the other done-callbacks keep the types.
LEMMA RunDoneCallbacksType ==
    ASSUME TypeOK, NEW t \in Triggers, RunDoneCallbacks(t)
    PROVE  TypeOK'
<1>1. CASE \E i \in Startable :
            /\ current' = pending[i]
            /\ pending' = SubSeq(pending, i + 1, Len(pending))
            /\ task' = [task EXCEPT ![t] = "settled", ![pending[i]] = "running"]
  <2>1. PICK i \in Startable :
            /\ current' = pending[i]
            /\ pending' = SubSeq(pending, i + 1, Len(pending))
            /\ task' = [task EXCEPT ![t] = "settled", ![pending[i]] = "running"]
    BY <1>1
  <2>2. i \in 1..Len(pending) /\ pending[i] \in Triggers
    BY DEF TypeOK, Startable
  <2>3. pending' \in Seq(Triggers)
    BY <2>1, <2>2, SubSeqProperties DEF TypeOK
  <2>4. current' \in Triggers \cup {None}
    BY <2>1, <2>2
  <2>5. task' \in [Triggers -> {"none", "running", "finished", "settled"}]
    BY <2>1, <2>2 DEF TypeOK
  <2> QED BY <2>3, <2>4, <2>5 DEF TypeOK, RunDoneCallbacks
<1>2. CASE /\ task' = [task EXCEPT ![t] = "settled"]
           /\ current' \in {current, None}
           /\ pending' \in {pending, <<>>}
  <2>0. <<>> \in Seq(Triggers)
    OBVIOUS
  <2>1. pending' \in Seq(Triggers)
    BY <1>2, <2>0, Zenon DEF TypeOK
  <2>2. current' \in Triggers \cup {None}
    BY <1>2 DEF TypeOK
  <2>3. task' \in [Triggers -> {"none", "running", "finished", "settled"}]
    BY <1>2 DEF TypeOK
  <2> QED BY <2>1, <2>2, <2>3 DEF TypeOK, RunDoneCallbacks
<1> QED BY <1>1, <1>2 DEF RunDoneCallbacks, DrainNext

\* A waiter that leaves the queue of the lock leaves a queue of waiters.
LEMMA LeaveWaitersType ==
    ASSUME NEW i \in DOMAIN waiters, waiters \in Seq(Agents)
    PROVE  SubSeq(waiters, 1, i - 1) \o SubSeq(waiters, i + 1, Len(waiters)) \in Seq(Agents)
<1>1. i \in 1..Len(waiters) /\ Len(waiters) \in Nat
  OBVIOUS
<1>2. SubSeq(waiters, 1, i - 1) \in Seq(Agents)
  BY <1>1, SubSeqProperties
<1>3. SubSeq(waiters, i + 1, Len(waiters)) \in Seq(Agents)
  BY <1>1, SubSeqProperties
<1> QED BY <1>2, <1>3, ConcatProperties

\* The cancellation of a caller keeps the types.
LEMMA CancelType ==
    ASSUME TypeOK, NEW t \in Triggers, Cancel(t)
    PROVE  TypeOK'
<1>0. t \in Agents
  BY DEF Agents
<1>1. CASE StopLocking(t)
  <2>1. lock' \in Agents \cup {None} /\ waiters' \in Seq(Agents)
    BY <1>1, UnlockType, LeaveWaitersType DEF TypeOK, StopLocking
  <2> QED BY <1>0, <1>1, <2>1 DEF Cancel, StopLocking, TypeOK
<1>2. CASE StopAwaitingDone(t)
  BY <1>0, <1>2 DEF Cancel, StopAwaitingDone, TypeOK
<1>3. CASE StopReplacing(t)
  BY <1>0, <1>3 DEF Cancel, StopReplacing, TypeOK
<1> QED BY <1>1, <1>2, <1>3 DEF Cancel

\* TypeOK is inductive.
LEMMA TypeStep ==
    ASSUME TypeOK, [Next]_vars
    PROVE  TypeOK'
<1>1. ASSUME NEW t \in Triggers, TriggerStep(t) PROVE TypeOK'
  <2>0. t \in Agents /\ pendingDone \cup {t} \in SUBSET Triggers /\ pendingDone \in SUBSET Triggers
    BY DEF Agents, TypeOK
  <2>1. CASE RunThroughGuard(t)
    BY <2>0, <2>1, RunType, WaitForLockType DEF RunThroughGuard
  <2>2. CASE AcquiredByTrigger(t)
    BY <2>0, <2>2, RunType DEF AcquiredByTrigger
  <2>3. CASE ReplaceCancelled(t)
    <3>1. awaited' \in [Agents -> Triggers \cup {None}]
      BY <2>3 DEF ReplaceCancelled, TypeOK
    <3> QED BY <2>0, <2>3, <3>1, StartType DEF ReplaceCancelled
  <2>4. CASE ReturnToCaller(t)
    BY <2>0, <2>4 DEF ReturnToCaller, TypeOK
  <2>5. CASE Cancel(t)
    BY <2>0, <2>5, CancelType
  <2>6. CASE UnwindReplacing(t)
    <3>1. lock' \in Agents \cup {None} /\ waiters' \in Seq(Agents)
      BY <2>6, UnlockType DEF TypeOK, UnwindReplacing
    <3> QED BY <2>0, <2>6, <3>1 DEF UnwindReplacing, TypeOK
  <2> QED BY <1>1, <2>1, <2>2, <2>3, <2>4, <2>5, <2>6 DEF TriggerStep
<1>2. ASSUME NEW t \in Triggers, TaskStep(t) PROVE TypeOK'
  <2>1. CASE Finish(t)
    BY <2>1 DEF Finish, TypeOK
  <2>2. CASE RunDoneCallbacks(t)
    BY <2>2, RunDoneCallbacksType
  <2> QED BY <1>2, <2>1, <2>2 DEF TaskStep
<1>3. ASSUME NEW r \in Releases, ReleaseStep(r) PROVE TypeOK'
  <2>0. r \in Agents
    BY DEF Agents
  <2>1. CASE Release(r)
    BY <2>0, <2>1, ReleaseBodyType, WaitForLockType DEF Release, TypeOK
  <2>2. CASE AcquiredByRelease(r)
    BY <2>2, ReleaseBodyType DEF AcquiredByRelease
  <2>3. CASE DrainPendingDone(r)
    <3>1. lock' \in Agents \cup {None} /\ waiters' \in Seq(Agents)
      BY <2>3, UnlockType DEF TypeOK, DrainPendingDone
    <3> QED BY <2>0, <2>3, <3>1 DEF DrainPendingDone, TypeOK
  <2> QED BY <1>3, <2>1, <2>2, <2>3 DEF ReleaseStep
<1>4. CASE UNCHANGED vars
  BY <1>4 DEF vars, TypeOK
<1> QED BY <1>1, <1>2, <1>3, <1>4 DEF Next

LEMMA InitType == ASSUME Init PROVE TypeOK
BY DEF Init, TypeOK

\* Every state of the guard and of its callers is well typed: in particular
\* the lock is never handed to somebody who does not wait for it as an agent
\* and drain_next only ever starts triggers.
THEOREM TypeCorrect == Spec => []TypeOK
<1>1. Init => TypeOK
  BY InitType
<1>2. TypeOK /\ [Next]_vars => TypeOK'
  BY TypeStep
<1> QED BY <1>1, <1>2, PTL DEF Spec

----------------------------------------------------------------------------
(* Serial execution *)

\* Whoever suspends in a gather() holds the lock, and what it waits for is
\* still tracked (a restart) or already detached (a release).
LockDiscipline ==
    \A a \in Agents : pc[a] \in {"cancelling", "unwinding"} =>
        /\ lock = a
        /\ awaited[a] \in Triggers
        /\ a \in Releases => current = None /\ pc[a] = "cancelling"
        /\ a \in Triggers => current = awaited[a] /\ mode = "restart"

\* Only a queued guard has a queue.
OnlyQueuedHasQueue == mode # "queued" => pending = <<>>

GuardInv ==
    /\ TypeOK
    /\ LockDiscipline
    /\ NoDetachedInvocation
    /\ OnlyQueuedHasQueue
    /\ QueueNeverStranded

\* The inductive invariant implies that invocations never overlap.
LEMMA GuardInvImpliesSerial == ASSUME GuardInv PROVE AtMostOneRunning
<1> SUFFICES ASSUME NEW t \in Triggers, NEW u \in Triggers,
                    task[t] = "running", task[u] = "running"
             PROVE  t = u
  BY DEF AtMostOneRunning
<1>1. CASE current \in Triggers
  <2>1. \A r \in Releases : pc[r] \notin {"cancelling", "unwinding"}
    BY <1>1, GuardAssumption DEF GuardInv, LockDiscipline, Agents
  <2> QED BY <2>1 DEF GuardInv, NoDetachedInvocation
<1>2. CASE current = None
  <2>1. t # None /\ u # None
    BY GuardAssumption DEF Agents
  <2>2. PICK r \in Releases : pc[r] = "cancelling" /\ awaited[r] = t
    BY <1>2, <2>1 DEF GuardInv, NoDetachedInvocation
  <2>3. PICK q \in Releases : pc[q] = "cancelling" /\ awaited[q] = u
    BY <1>2, <2>1 DEF GuardInv, NoDetachedInvocation
  <2>4. r = q
    BY <2>2, <2>3 DEF GuardInv, LockDiscipline, Agents
  <2> QED BY <2>2, <2>3, <2>4
<1> QED BY <1>1, <1>2 DEF GuardInv, TypeOK

\* With the lock in hand, or free, nobody else is suspended in a gather().
LEMMA NobodyElseCancelling ==
    ASSUME GuardInv, NEW a \in Agents, lock = None \/ lock = a
    PROVE  \A b \in Agents \ {a} : pc[b] \notin {"cancelling", "unwinding"}
BY GuardAssumption DEF GuardInv, LockDiscipline, Agents

\* Starting an invocation while none runs, with the lock in hand.
LEMMA StartStep ==
    ASSUME GuardInv, TypeOK', NEW t \in Triggers, NEW pd \in SUBSET Triggers,
           Start(t, pd), lock = None \/ lock = t,
           \A u \in Triggers : task[u] # "running",
           \A a \in Agents \ {t} : awaited'[a] = awaited[a]
    PROVE  GuardInv'
<1>0. t \in Agents
  BY DEF Agents
<1>1. \A b \in Agents : pc'[b] \notin {"cancelling", "unwinding"}
  BY <1>0, NobodyElseCancelling DEF GuardInv, TypeOK, Start
<1>2. LockDiscipline'
  BY <1>1 DEF LockDiscipline
<1>3. CASE t \in Faulty
  <2>1. UNCHANGED <<mode, task, current, pending>>
    BY <1>3 DEF Start
  <2>2. NoDetachedInvocation'
    BY <2>1 DEF NoDetachedInvocation
  <2>3. OnlyQueuedHasQueue' /\ QueueNeverStranded'
    BY <2>1 DEF GuardInv, OnlyQueuedHasQueue, QueueNeverStranded
  <2> QED BY <1>2, <2>2, <2>3 DEF GuardInv
<1>4. CASE t \notin Faulty
  <2>1. /\ task' = [task EXCEPT ![t] = "running"]
        /\ current' = t
        /\ UNCHANGED <<mode, pending>>
    BY <1>4 DEF Start
  <2>2. NoDetachedInvocation'
    BY <2>1 DEF NoDetachedInvocation, GuardInv, TypeOK
  <2>3. OnlyQueuedHasQueue'
    BY <2>1 DEF GuardInv, OnlyQueuedHasQueue
  <2>4. t # None /\ task'[t] = "running"
    BY <2>1, <1>0, GuardAssumption DEF GuardInv, TypeOK
  <2>5. QueueNeverStranded'
    BY <2>1, <2>4 DEF GuardInv, QueueNeverStranded
  <2> QED BY <1>2, <2>2, <2>3, <2>5 DEF GuardInv
<1> QED BY <1>3, <1>4

\* A trigger that finds nothing running under the lock finds no live
\* invocation at all.
LEMMA IdleMeansNoneLive ==
    ASSUME GuardInv, NEW a \in Agents, lock = None \/ lock = a,
           pc[a] \notin {"cancelling", "unwinding"}, ~IsRunning
    PROVE  \A u \in Triggers : task[u] # "running"
<1>1. \A b \in Agents : pc[b] \notin {"cancelling", "unwinding"}
  BY NobodyElseCancelling
<1>2. \A u \in Triggers : u # None
  BY GuardAssumption DEF Agents
<1> QED BY <1>1, <1>2 DEF GuardInv, NoDetachedInvocation, IsRunning, Agents

\* A step that touches neither invocations, nor the tracked task, nor the
\* queue, nor anybody suspended in a gather().
LEMMA FrameStep ==
    ASSUME GuardInv, TypeOK', UNCHANGED <<mode, task, current, pending>>,
           \A a \in Agents :
              pc'[a] \in {"cancelling", "unwinding"} <=> pc[a] \in {"cancelling", "unwinding"},
           \A a \in Agents :
              pc[a] \in {"cancelling", "unwinding"} => lock' = lock /\ awaited'[a] = awaited[a],
           \A r \in Releases : pc[r] = "cancelling" => pc'[r] = "cancelling"
    PROVE  GuardInv'
<1>1. LockDiscipline'
  BY DEF GuardInv, LockDiscipline
<1>2. NoDetachedInvocation'
  BY DEF GuardInv, NoDetachedInvocation, Agents
<1>3. OnlyQueuedHasQueue' /\ QueueNeverStranded'
  BY DEF GuardInv, OnlyQueuedHasQueue, QueueNeverStranded
<1> QED BY <1>1, <1>2, <1>3 DEF GuardInv

\* guard.run() with the lock in hand preserves the invariant.
LEMMA RunStep ==
    ASSUME GuardInv, TypeOK', NEW t \in Triggers, NEW pd \in SUBSET Triggers,
           Run(t, pd), lock = None \/ lock = t, pc[t] \notin {"cancelling", "unwinding"}
    PROVE  GuardInv'
<1>0. t \in Agents
  BY DEF Agents
<1>a. \A b \in Agents : pc[b] \notin {"cancelling", "unwinding"}
  BY <1>0, NobodyElseCancelling
<1>1. CASE Start(t, pd) /\ ~IsRunning /\ UNCHANGED awaited
  <2>1. \A u \in Triggers : task[u] # "running"
    BY <1>0, <1>1, IdleMeansNoneLive
  <2> QED BY <1>1, <2>1, StartStep
<1>2. CASE \E out \in {"SUPPRESSED", "DROPPED"} : Refuse(t, pd, out)
  <2>1. UNCHANGED <<mode, task, current, pending>>
    BY <1>2 DEF Refuse
  <2>2. \A b \in Agents : pc'[b] \notin {"cancelling", "unwinding"}
    BY <1>2, <1>a DEF Refuse, GuardInv, TypeOK
  <2> QED BY <1>a, <2>1, <2>2, FrameStep DEF Agents
<1>3. CASE mode = "restart" /\ IsRunning /\ RunRestart(t, pd)
  <2>1. /\ awaited' = [awaited EXCEPT ![t] = current]
        /\ pc' = [pc EXCEPT ![t] = "cancelling"]
        /\ lock' = t
        /\ UNCHANGED <<mode, task, current, pending>>
    BY <1>3 DEF RunRestart
  <2>2. \A b \in Agents : pc'[b] \in {"cancelling", "unwinding"} => b = t
    BY <1>a, <2>1 DEF GuardInv, TypeOK
  <2>3. current \in Triggers
    BY <1>3 DEF IsRunning, GuardInv, TypeOK
  <2>4. LockDiscipline'
    BY <1>0, <1>3, <2>1, <2>2, <2>3, GuardAssumption DEF LockDiscipline, GuardInv, TypeOK
  <2>5. NoDetachedInvocation'
    BY <1>a, <2>1 DEF NoDetachedInvocation, GuardInv, Agents
  <2>6. OnlyQueuedHasQueue' /\ QueueNeverStranded'
    BY <2>1 DEF GuardInv, OnlyQueuedHasQueue, QueueNeverStranded
  <2> QED BY <2>4, <2>5, <2>6 DEF GuardInv
<1>4. CASE /\ mode = "queued"
           /\ IsRunning
           /\ Len(pending) < Cap
           /\ pending' = Append(pending, t)
           /\ pc' = [pc EXCEPT ![t] = "parked"]
           /\ UNCHANGED <<mode, task, current>>
  <2>1. \A b \in Agents : pc'[b] \notin {"cancelling", "unwinding"}
    BY <1>a, <1>4 DEF GuardInv, TypeOK
  <2>2. LockDiscipline' /\ OnlyQueuedHasQueue'
    BY <2>1, <1>4 DEF LockDiscipline, OnlyQueuedHasQueue
  <2>3. NoDetachedInvocation'
    BY <1>a, <1>4 DEF NoDetachedInvocation, GuardInv, Agents
  <2>4. Len(pending') <= Cap
    BY <1>4, GuardAssumption DEF GuardInv, TypeOK
  <2>5. QueueNeverStranded'
    BY <1>4, <2>4 DEF QueueNeverStranded, IsRunning
  <2> QED BY <2>2, <2>3, <2>5 DEF GuardInv
<1> QED BY <1>1, <1>2, <1>3, <1>4 DEF Run, RunSingle, RunRestart, RunQueued

\* release() with the lock in hand preserves the invariant.
LEMMA ReleaseBodyStep ==
    ASSUME GuardInv, TypeOK', NEW r \in Releases, ReleaseBody(r),
           lock = None \/ lock = r, pc[r] \notin {"cancelling", "unwinding"}
    PROVE  GuardInv'
<1>0. r \in Agents /\ r \notin Triggers
  BY GuardAssumption DEF Agents
<1>a. \A b \in Agents : pc[b] \notin {"cancelling", "unwinding"}
  BY <1>0, NobodyElseCancelling
<1>b. pending' = <<>> /\ current' = None /\ UNCHANGED <<mode, task>>
  BY DEF ReleaseBody
<1>1. OnlyQueuedHasQueue' /\ QueueNeverStranded'
  BY <1>b, GuardAssumption DEF OnlyQueuedHasQueue, QueueNeverStranded
<1>2. CASE IsRunning
  <2>1. /\ awaited' = [awaited EXCEPT ![r] = current]
        /\ pc' = [pc EXCEPT ![r] = "cancelling"]
        /\ lock' = r
    BY <1>2 DEF ReleaseBody
  <2>2. \A b \in Agents : pc'[b] \in {"cancelling", "unwinding"} => b = r
    BY <1>a, <2>1 DEF GuardInv, TypeOK
  <2>3. current \in Triggers
    BY <1>2 DEF IsRunning, GuardInv, TypeOK
  <2>4. LockDiscipline'
    BY <1>0, <1>b, <2>1, <2>2, <2>3 DEF LockDiscipline, GuardInv, TypeOK
  <2>5. pc'[r] = "cancelling" /\ awaited'[r] = current
    BY <1>0, <2>1 DEF GuardInv, TypeOK
  <2>6. \A u \in Triggers : task[u] = "running" => u = current
    BY <1>a DEF NoDetachedInvocation, GuardInv, Agents
  <2>7. NoDetachedInvocation'
    BY <1>b, <2>5, <2>6 DEF NoDetachedInvocation
  <2> QED BY <1>1, <2>4, <2>7 DEF GuardInv
<1>3. CASE ~IsRunning
  <2>1. pc' = [pc EXCEPT ![r] = "returned"]
    BY <1>3 DEF ReleaseBody
  <2>2. \A b \in Agents : pc'[b] \notin {"cancelling", "unwinding"}
    BY <1>a, <2>1 DEF GuardInv, TypeOK
  <2>3. \A u \in Triggers : task[u] # "running"
    BY <1>0, <1>3, IdleMeansNoneLive
  <2>4. LockDiscipline' /\ NoDetachedInvocation'
    BY <1>b, <2>2, <2>3 DEF LockDiscipline, NoDetachedInvocation
  <2> QED BY <1>1, <2>4 DEF GuardInv
<1> QED BY <1>2, <1>3

\* The done-callbacks, drain_next among them, preserve the invariant.
LEMMA RunDoneCallbacksStep ==
    ASSUME GuardInv, TypeOK', NEW t \in Triggers, RunDoneCallbacks(t)
    PROVE  GuardInv'
<1>0. task[t] = "finished" /\ UNCHANGED <<mode, pc, lock, awaited>> /\ t # None
  BY GuardAssumption DEF RunDoneCallbacks, Agents
<1>1. CASE mode # "queued"
  <2>1. task' = [task EXCEPT ![t] = "settled"] /\ UNCHANGED <<current, pending>>
    BY <1>1 DEF RunDoneCallbacks
  <2>2. pending = <<>>
    BY <1>1 DEF GuardInv, OnlyQueuedHasQueue
  <2>3. LockDiscipline' /\ NoDetachedInvocation'
    BY <1>0, <2>1 DEF GuardInv, LockDiscipline, NoDetachedInvocation, TypeOK
  <2>4. OnlyQueuedHasQueue' /\ QueueNeverStranded'
    BY <2>1, <2>2 DEF GuardInv, OnlyQueuedHasQueue, QueueNeverStranded
  <2> QED BY <2>3, <2>4 DEF GuardInv
<1>2. CASE mode = "queued" /\ current # t
  <2>1. task' = [task EXCEPT ![t] = "settled"] /\ UNCHANGED <<current, pending>>
    BY <1>2 DEF RunDoneCallbacks, DrainNext
  <2>2. LockDiscipline' /\ NoDetachedInvocation'
    BY <1>0, <2>1 DEF GuardInv, LockDiscipline, NoDetachedInvocation, TypeOK
  <2>3. OnlyQueuedHasQueue'
    BY <1>0, <1>2 DEF OnlyQueuedHasQueue
  <2>4. current \in Triggers => task'[current] = task[current]
    BY <1>2, <2>1 DEF GuardInv, TypeOK
  <2>5. QueueNeverStranded'
    BY <2>1, <2>4 DEF GuardInv, QueueNeverStranded, TypeOK
  <2> QED BY <2>2, <2>3, <2>5 DEF GuardInv
<1>3. CASE mode = "queued" /\ current = t
  <2>1. \A a \in Agents : pc[a] \notin {"cancelling", "unwinding"}
    <3> SUFFICES ASSUME NEW a \in Agents, pc[a] \in {"cancelling", "unwinding"} PROVE FALSE
      OBVIOUS
    <3>1. a \in Releases => current = None
      BY DEF GuardInv, LockDiscipline
    <3>2. a \in Triggers => mode = "restart"
      BY DEF GuardInv, LockDiscipline
    <3> QED BY <1>0, <1>3, <3>1, <3>2 DEF Agents
  <2>2. \A u \in Triggers : task[u] # "running"
    BY <1>0, <1>3, <2>1 DEF GuardInv, NoDetachedInvocation, Agents
  <2>3. LockDiscipline' /\ OnlyQueuedHasQueue'
    BY <1>0, <1>3, <2>1 DEF LockDiscipline, OnlyQueuedHasQueue
  <2>4. CASE /\ current' = None
             /\ pending' = <<>>
             /\ task' = [task EXCEPT ![t] = "settled"]
    <3>1. NoDetachedInvocation'
      BY <2>2, <2>4 DEF NoDetachedInvocation, GuardInv, TypeOK
    <3>2. QueueNeverStranded'
      BY <2>4, GuardAssumption DEF QueueNeverStranded
    <3> QED BY <2>3, <3>1, <3>2 DEF GuardInv
  <2>5. ASSUME NEW i \in Startable,
               current' = pending[i],
               pending' = SubSeq(pending, i + 1, Len(pending)),
               task' = [task EXCEPT ![t] = "settled", ![pending[i]] = "running"]
        PROVE  GuardInv'
    <3>1. i \in 1..Len(pending) /\ pending[i] \in Triggers /\ pending[i] # None
      BY GuardAssumption DEF GuardInv, TypeOK, Startable, Agents
    <3>2. task'[pending[i]] = "running" /\ \A u \in Triggers : task'[u] = "running" => u = pending[i]
      BY <2>2, <2>5, <3>1 DEF GuardInv, TypeOK
    <3>3. NoDetachedInvocation'
      BY <2>5, <3>2 DEF NoDetachedInvocation
    <3>4. Len(pending') <= Len(pending)
      BY <2>5, <3>1, SubSeqProperties DEF GuardInv, TypeOK
    <3>5. Len(pending') <= Cap
      BY <3>4, LenProperties, GuardAssumption DEF GuardInv, QueueNeverStranded, TypeOK
    <3>6. QueueNeverStranded'
      BY <2>5, <3>1, <3>2, <3>5 DEF QueueNeverStranded
    <3> QED BY <2>3, <3>3, <3>6 DEF GuardInv
  <2> QED BY <1>3, <2>4, <2>5 DEF RunDoneCallbacks, DrainNext
<1> QED BY <1>1, <1>2, <1>3

\* The cancellation of a caller preserves the invariant: it neither ends an
\* invocation nor lets go of the lock before a gather() is over.
LEMMA CancelStep ==
    ASSUME GuardInv, TypeOK', NEW t \in Triggers, Cancel(t)
    PROVE  GuardInv'
<1>0. t \in Agents /\ TypeOK /\ UNCHANGED <<mode, task, current, pending, awaited>>
  BY DEF Agents, GuardInv, Cancel, StopLocking, StopAwaitingDone, StopReplacing
<1>1. CASE StopLocking(t)
  <2>1. \A a \in Agents : pc[a] \in {"cancelling", "unwinding"} => lock' = lock
    BY <1>0, <1>1, NobodyElseCancelling DEF StopLocking
  <2>2. pc' = [pc EXCEPT ![t] = "cancelled"] /\ pc[t] = "locking"
    BY <1>1 DEF StopLocking
  <2>3. \A a \in Agents :
          pc'[a] \in {"cancelling", "unwinding"} <=> pc[a] \in {"cancelling", "unwinding"}
    BY <1>0, <2>2 DEF TypeOK
  <2>4. \A r \in Releases : pc[r] = "cancelling" => pc'[r] = "cancelling"
    BY <1>0, <2>2 DEF Agents, TypeOK
  <2> QED BY <1>0, <2>1, <2>3, <2>4, FrameStep
<1>2. CASE StopAwaitingDone(t)
  BY <1>0, <1>2, FrameStep DEF StopAwaitingDone, TypeOK
<1>3. CASE StopReplacing(t)
  <2>1. pc' = [pc EXCEPT ![t] = "unwinding"] /\ pc[t] = "cancelling" /\ UNCHANGED lock
    BY <1>3 DEF StopReplacing
  <2>2. \A a \in Agents :
          pc'[a] \in {"cancelling", "unwinding"} <=> pc[a] \in {"cancelling", "unwinding"}
    BY <1>0, <2>1 DEF TypeOK
  <2>3. \A r \in Releases : pc[r] = "cancelling" => pc'[r] = "cancelling"
    BY <1>0, <2>1, GuardAssumption DEF Agents, TypeOK
  <2> QED BY <1>0, <2>1, <2>2, <2>3, FrameStep
<1> QED BY <1>1, <1>2, <1>3 DEF Cancel

\* So does the end of a run_restart() cancelled in its gather().
LEMMA UnwindStep ==
    ASSUME GuardInv, TypeOK', NEW t \in Triggers, UnwindReplacing(t)
    PROVE  GuardInv'
<1>0. t \in Agents /\ t \notin Releases /\ TypeOK
  BY GuardAssumption DEF Agents, GuardInv
<1>1. /\ pc' = [pc EXCEPT ![t] = "cancelled"]
      /\ UNCHANGED <<mode, task, current, pending>>
  BY DEF UnwindReplacing
<1>2. lock = t
  BY <1>0 DEF UnwindReplacing, GuardInv, LockDiscipline
<1>3. \A b \in Agents \ {t} : pc[b] \notin {"cancelling", "unwinding"}
  BY <1>0, <1>2, NobodyElseCancelling
<1>4. \A b \in Agents : pc'[b] \notin {"cancelling", "unwinding"}
  BY <1>0, <1>1, <1>3 DEF TypeOK
<1>5. \A u \in Triggers : task[u] = "running" => current = u
  BY <1>0, <1>3 DEF GuardInv, NoDetachedInvocation, Agents
<1>6. LockDiscipline' /\ NoDetachedInvocation'
  BY <1>1, <1>4, <1>5 DEF LockDiscipline, NoDetachedInvocation
<1>7. OnlyQueuedHasQueue' /\ QueueNeverStranded'
  BY <1>1 DEF GuardInv, OnlyQueuedHasQueue, QueueNeverStranded
<1> QED BY <1>6, <1>7 DEF GuardInv

\* GuardInv is inductive.
LEMMA GuardInvStep ==
    ASSUME GuardInv, [Next]_vars
    PROVE  GuardInv'
<1>0. TypeOK /\ TypeOK'
  BY TypeStep DEF GuardInv
<1>1. ASSUME NEW t \in Triggers, TriggerStep(t) PROVE GuardInv'
  <2>0. t \in Agents /\ pendingDone \cup {t} \in SUBSET Triggers /\ pendingDone \in SUBSET Triggers
    BY <1>0 DEF Agents, TypeOK
  <2>1. CASE RunThroughGuard(t)
    <3>1. CASE LockFree /\ Run(t, pendingDone \cup {t})
      BY <1>0, <2>0, <2>1, <3>1, RunStep DEF RunThroughGuard, LockFree
    <3>2. CASE WaitForLock(t)
      BY <1>0, <2>0, <2>1, <3>2, FrameStep DEF RunThroughGuard, WaitForLock, TypeOK
    <3> QED BY <2>1, <3>1, <3>2 DEF RunThroughGuard
  <2>2. CASE AcquiredByTrigger(t)
    BY <1>0, <2>0, <2>2, RunStep DEF AcquiredByTrigger
  <2>3. CASE ReplaceCancelled(t)
    <3>1. lock = t /\ awaited[t] = current /\ current \in Triggers
      BY <2>0, <2>3, GuardAssumption DEF ReplaceCancelled, GuardInv, LockDiscipline
    <3>2. \A b \in Agents \ {t} : pc[b] \notin {"cancelling", "unwinding"}
      BY <2>0, <3>1, NobodyElseCancelling
    <3>3. \A u \in Triggers : task[u] # "running"
      BY <2>3, <3>1, <3>2, GuardAssumption
      DEF ReplaceCancelled, GuardInv, NoDetachedInvocation, Agents
    <3>4. \A a \in Agents \ {t} : awaited'[a] = awaited[a]
      BY <1>0, <2>3 DEF ReplaceCancelled, TypeOK
    <3> QED BY <1>0, <2>0, <2>3, <3>1, <3>3, <3>4, StartStep DEF ReplaceCancelled
  <2>4. CASE ReturnToCaller(t)
    BY <1>0, <2>0, <2>4, FrameStep DEF ReturnToCaller, TypeOK
  <2>5. CASE Cancel(t)
    BY <1>0, <2>5, CancelStep
  <2>6. CASE UnwindReplacing(t)
    BY <1>0, <2>6, UnwindStep
  <2> QED BY <1>1, <2>1, <2>2, <2>3, <2>4, <2>5, <2>6 DEF TriggerStep
<1>2. ASSUME NEW t \in Triggers, TaskStep(t) PROVE GuardInv'
  <2>1. CASE Finish(t)
    <3>1. /\ task' = [task EXCEPT ![t] = "finished"]
          /\ UNCHANGED <<mode, pc, current, pending, lock, awaited>>
      BY <2>1 DEF Finish
    <3>2. LockDiscipline' /\ OnlyQueuedHasQueue'
      BY <3>1 DEF GuardInv, LockDiscipline, OnlyQueuedHasQueue
    <3>3. NoDetachedInvocation'
      BY <1>0, <3>1 DEF GuardInv, NoDetachedInvocation, TypeOK
    <3>4. QueueNeverStranded'
      BY <1>0, <3>1 DEF GuardInv, QueueNeverStranded, TypeOK
    <3> QED BY <1>0, <3>2, <3>3, <3>4 DEF GuardInv
  <2>2. CASE RunDoneCallbacks(t)
    BY <1>0, <2>2, RunDoneCallbacksStep
  <2> QED BY <1>2, <2>1, <2>2 DEF TaskStep
<1>3. ASSUME NEW r \in Releases, ReleaseStep(r) PROVE GuardInv'
  <2>0. r \in Agents
    BY DEF Agents
  <2>1. CASE Release(r)
    <3>1. CASE LockFree /\ ReleaseBody(r)
      BY <1>0, <2>1, <3>1, ReleaseBodyStep DEF Release, LockFree
    <3>2. CASE WaitForLock(r)
      BY <1>0, <2>0, <2>1, <3>2, FrameStep DEF Release, WaitForLock, TypeOK
    <3> QED BY <2>1, <3>1, <3>2 DEF Release
  <2>2. CASE AcquiredByRelease(r)
    BY <1>0, <2>2, ReleaseBodyStep DEF AcquiredByRelease
  <2>3. CASE DrainPendingDone(r)
    <3>1. /\ pc' = [pc EXCEPT ![r] = "returned"]
          /\ awaited' = [awaited EXCEPT ![r] = None]
          /\ UNCHANGED <<mode, task, current, pending>>
      BY <2>3 DEF DrainPendingDone
    <3>2. lock = r
      BY <2>0, <2>3 DEF DrainPendingDone, GuardInv, LockDiscipline
    <3>3. \A b \in Agents \ {r} : pc[b] \notin {"cancelling", "unwinding"}
      BY <2>0, <3>2, NobodyElseCancelling
    <3>4. \A b \in Agents : pc'[b] \notin {"cancelling", "unwinding"}
      BY <1>0, <2>0, <3>1, <3>3 DEF TypeOK
    <3>5. \A u \in Triggers : task[u] = "running" => current = u
      BY <2>3, <3>3 DEF DrainPendingDone, GuardInv, NoDetachedInvocation, Agents
    <3>6. LockDiscipline' /\ NoDetachedInvocation'
      BY <3>1, <3>4, <3>5 DEF LockDiscipline, NoDetachedInvocation
    <3>7. OnlyQueuedHasQueue' /\ QueueNeverStranded'
      BY <3>1 DEF GuardInv, OnlyQueuedHasQueue, QueueNeverStranded
    <3> QED BY <1>0, <3>6, <3>7 DEF GuardInv
  <2> QED BY <1>3, <2>1, <2>2, <2>3 DEF ReleaseStep
<1>4. CASE UNCHANGED vars
  BY <1>0, <1>4, FrameStep DEF vars
<1> QED BY <1>1, <1>2, <1>3, <1>4 DEF Next

LEMMA InitGuardInv == ASSUME Init PROVE GuardInv
<1>1. TypeOK
  BY InitType
<1>2. LockDiscipline /\ NoDetachedInvocation
  BY DEF Init, LockDiscipline, NoDetachedInvocation
<1>3. OnlyQueuedHasQueue /\ QueueNeverStranded
  BY GuardAssumption DEF Init, OnlyQueuedHasQueue, QueueNeverStranded
<1> QED BY <1>1, <1>2, <1>3 DEF GuardInv

\* Serial execution: two invocations of one listener or job never overlap, in
\* any mode and whatever triggers, releases, raising factories and
\* done-callbacks interleave; and no invocation ever escapes the guard (the
\* release/drain_next interleaving run_through_guard's docstring worries about
\* does not lose one).
THEOREM SerialExecutionHolds == Spec => []TrackedAlone
<1>1. Init => GuardInv
  BY InitGuardInv
<1>2. GuardInv /\ [Next]_vars => GuardInv'
  BY GuardInvStep
<1>3. GuardInv => TrackedAlone
  BY GuardInvImpliesSerial DEF TrackedAlone, GuardInv
<1> QED BY <1>1, <1>2, <1>3, PTL DEF Spec

\* The queue stays within its cap and always has a live task that drains it.
THEOREM QueueHasDrainer == Spec => []QueueNeverStranded
<1>1. Init => GuardInv
  BY InitGuardInv
<1>2. GuardInv /\ [Next]_vars => GuardInv'
  BY GuardInvStep
<1>3. GuardInv => QueueNeverStranded
  BY DEF GuardInv
<1> QED BY <1>1, <1>2, <1>3, PTL DEF Spec

----------------------------------------------------------------------------
(* The refinement of SerialExecution *)

\* The end a trigger met is recorded once: what guard.run() returned to it,
\* the invocation it got and its place in the queue agree.
OneEnd ==
    \A t \in Triggers :
        /\ task[t] # "none" => outcome[t] \in {"RAN", "QUEUED_ACCEPTED"} /\ t \notin Queued
        /\ outcome[t] = "RAN" => task[t] # "none"
        /\ t \in Queued => outcome[t] = "QUEUED_ACCEPTED"
        /\ pc[t] \in {"idle", "locking", "cancelling", "unwinding", "raised"} => outcome[t] = "none"

QueuedOnce == \A i, j \in DOMAIN pending : pending[i] = pending[j] => i = j

RefinementInv == GuardInv /\ OneEnd /\ QueuedOnce

\* The image of the state under the refinement mapping.
Image == [t \in Triggers |-> StatusOf(t)]

Promise == INSTANCE SerialExecution WITH status <- Image

\* With OneEnd the cases of StatusOf exclude each other.
ImageIsExact ==
    \A t \in Triggers :
        /\ task[t] = "running" => Image[t] = "running"
        /\ task[t] \in {"finished", "settled"} => Image[t] = "over"
        /\ t \in Queued => Image[t] = "waiting"
        /\ Discarded(t) => Image[t] = "discarded"
        /\ outcome[t] \in {"SUPPRESSED", "DROPPED"} => Image[t] = "refused"
        /\ pc[t] = "raised" => Image[t] = "failed"
        /\ task[t] = "none" /\ outcome[t] = "none" /\ pc[t] # "raised" => Image[t] = "new"

LEMMA ImageExact == TypeOK /\ OneEnd => ImageIsExact
BY DEF TypeOK, OneEnd, ImageIsExact, Image, StatusOf, Discarded

LEMMA ImageExactAfter == TypeOK' /\ OneEnd' => ImageIsExact'
BY DEF TypeOK, OneEnd, ImageIsExact, Image, StatusOf, Discarded, Queued

----------------------------------------------------------------------------
(* Steps of the promise *)

\* A state function of one trigger changes; the image of no other does.
OnlyImageOf(t, s) == Image' = [Image EXCEPT ![t] = s]

\* A step that changes neither invocations, outcomes, queue nor who raised.
LEMMA SameImage ==
    ASSUME UNCHANGED <<task, outcome, pending>>,
           \A t \in Triggers : pc'[t] = "raised" <=> pc[t] = "raised"
    PROVE  Image' = Image
BY DEF Image, StatusOf, Discarded, Queued

\* Agreement of images, trigger by trigger.
LEMMA ImageOf ==
    ASSUME NEW t \in Triggers, NEW s, Image'[t] = s,
           \A u \in Triggers \ {t} : Image'[u] = Image[u]
    PROVE  OnlyImageOf(t, s)
BY DEF OnlyImageOf, Image

\* A trigger whose call has not met its end is new to the promise.
LEMMA NewImage ==
    ASSUME RefinementInv, NEW t \in Triggers,
           pc[t] \in {"idle", "locking", "cancelling"}
    PROVE  /\ task[t] = "none" /\ outcome[t] = "none" /\ t \notin Queued
           /\ Image[t] = "new"
<1>1. outcome[t] = "none" /\ task[t] = "none" /\ t \notin Queued
  BY DEF RefinementInv, OneEnd
<1>2. ImageIsExact
  BY ImageExact DEF RefinementInv, GuardInv
<1>. QED BY <1>1, <1>2 DEF ImageIsExact

\* What the promise calls busy.
LEMMA BusyImage ==
    ASSUME RefinementInv
    PROVE  /\ Promise!Busy <=> \E u \in Triggers : task[u] = "running"
           /\ Promise!With("waiting") = Queued
<1>1. ImageIsExact
  BY ImageExact DEF RefinementInv, GuardInv
<1>2. ASSUME NEW u \in Triggers PROVE (Image[u] = "running") <=> (task[u] = "running")
  BY <1>1 DEF ImageIsExact, RefinementInv, GuardInv, TypeOK, OneEnd, Discarded
<1>3. ASSUME NEW u \in Triggers PROVE (Image[u] = "waiting") <=> (u \in Queued)
  BY <1>1 DEF ImageIsExact, RefinementInv, GuardInv, TypeOK, OneEnd, Discarded
<1>4. Queued \subseteq Triggers
  BY DEF Queued, RefinementInv, GuardInv, TypeOK
<1>. QED BY <1>2, <1>3, <1>4 DEF Promise!Busy, Promise!With

----------------------------------------------------------------------------
(* Invocations start, end and are refused *)

\* What a step preserves and what it is in the promise.
Refines == OneEnd' /\ QueuedOnce' /\ (Promise!Next \/ Image' = Image)

\* run_and_track() with the lock in hand, while none is running.
LEMMA StartRefines ==
    ASSUME RefinementInv, TypeOK', NEW t \in Triggers, NEW pd, Start(t, pd),
           pc[t] \in {"idle", "locking", "cancelling"},
           \A u \in Triggers : task[u] # "running"
    PROVE  Refines
<1>0. t \in Agents /\ TypeOK /\ UNCHANGED pending
  BY DEF Agents, RefinementInv, GuardInv, Start
<1>1. task[t] = "none" /\ outcome[t] = "none" /\ t \notin Queued /\ Image[t] = "new"
  BY NewImage
<1>2. QueuedOnce' /\ Queued' = Queued
  BY <1>0 DEF RefinementInv, QueuedOnce, Queued
<1>3. ~Promise!Busy
  BY BusyImage
<1>4. CASE t \in Faulty
  <2>1. pc' = [pc EXCEPT ![t] = "raised"] /\ UNCHANGED <<task, outcome>>
    BY <1>4 DEF Start
  <2>2. OneEnd'
    BY <1>0, <1>1, <1>2, <2>1 DEF OneEnd, RefinementInv, TypeOK
  <2>3. Image'[t] = "failed"
    BY <1>0, <2>1, <2>2, ImageExactAfter DEF ImageIsExact, TypeOK
  <2>4. \A u \in Triggers \ {t} : Image'[u] = Image[u]
    BY <1>0, <1>2, <2>1 DEF Image, StatusOf, Discarded, TypeOK
  <2>5. OnlyImageOf(t, "failed")
    BY <2>3, <2>4, ImageOf
  <2>6. Promise!Fail(t)
    BY <1>1, <1>3, <2>5 DEF Promise!Fail, OnlyImageOf
  <2>. QED BY <1>2, <2>2, <2>6 DEF Refines, Promise!Next
<1>5. CASE t \notin Faulty
  <2>1. /\ pc' = [pc EXCEPT ![t] = "parked"]
        /\ task' = [task EXCEPT ![t] = "running"]
        /\ outcome' = [outcome EXCEPT ![t] = "RAN"]
    BY <1>5 DEF Start
  <2>2. OneEnd'
    BY <1>0, <1>1, <1>2, <2>1 DEF OneEnd, RefinementInv, TypeOK
  <2>3. Image'[t] = "running"
    BY <1>0, <2>1, <2>2, ImageExactAfter DEF ImageIsExact, TypeOK
  <2>4. \A u \in Triggers \ {t} : Image'[u] = Image[u]
    BY <1>0, <1>2, <2>1 DEF Image, StatusOf, Discarded, TypeOK
  <2>5. OnlyImageOf(t, "running")
    BY <2>3, <2>4, ImageOf
  <2>6. Promise!Begin(t)
    BY <1>1, <1>3, <2>5 DEF Promise!Begin, OnlyImageOf
  <2>. QED BY <1>2, <2>2, <2>6 DEF Refines, Promise!Next
<1>. QED BY <1>4, <1>5

\* The overlap mode refuses the trigger.
LEMMA RefuseRefines ==
    ASSUME RefinementInv, TypeOK', NEW t \in Triggers, NEW pd,
           NEW out \in {"SUPPRESSED", "DROPPED"}, Refuse(t, pd, out),
           pc[t] \in {"idle", "locking"}, IsRunning
    PROVE  Refines
<1>0. t \in Agents /\ TypeOK
  BY DEF Agents, RefinementInv, GuardInv
<1>1. task[t] = "none" /\ outcome[t] = "none" /\ t \notin Queued /\ Image[t] = "new"
  BY NewImage
<1>2. Promise!Busy
  BY <1>0, BusyImage DEF IsRunning, TypeOK
<1>3. QueuedOnce' /\ Queued' = Queued
  BY DEF Refuse, RefinementInv, QueuedOnce, Queued
<1>4. OneEnd'
  BY <1>0, <1>1, <1>3 DEF Refuse, OneEnd, RefinementInv, TypeOK
<1>5. Image'[t] = "refused"
  BY <1>0, <1>4, ImageExactAfter DEF Refuse, ImageIsExact, TypeOK
<1>6. \A u \in Triggers \ {t} : Image'[u] = Image[u]
  BY <1>0, <1>3 DEF Refuse, Image, StatusOf, Discarded, TypeOK
<1>7. OnlyImageOf(t, "refused")
  BY <1>5, <1>6, ImageOf
<1>8. Promise!Overlap(t)
  BY <1>1, <1>2, <1>7 DEF Promise!Overlap, OnlyImageOf
<1>. QED BY <1>3, <1>4, <1>8 DEF Refines, Promise!Next

\* The overlap mode queues the trigger.
LEMMA QueueRefines ==
    ASSUME RefinementInv, TypeOK', NEW t \in Triggers,
           pc[t] \in {"idle", "locking"}, IsRunning, UNCHANGED task,
           outcome' = [outcome EXCEPT ![t] = "QUEUED_ACCEPTED"],
           pending' = Append(pending, t), pc' = [pc EXCEPT ![t] = "parked"]
    PROVE  Refines
<1>0. t \in Agents /\ TypeOK
  BY DEF Agents, RefinementInv, GuardInv
<1>1. task[t] = "none" /\ outcome[t] = "none" /\ t \notin Queued /\ Image[t] = "new"
  BY NewImage
<1>2. Promise!Busy
  BY <1>0, BusyImage DEF IsRunning, TypeOK
<1>3. QueuedOnce' /\ Queued' = Queued \cup {t}
  <2>1. /\ DOMAIN pending = 1..Len(pending)
        /\ DOMAIN pending' = 1..(Len(pending) + 1)
        /\ \A i \in 1..Len(pending) : pending'[i] = pending[i]
        /\ pending'[Len(pending) + 1] = t
        /\ Len(pending) \in Nat
    BY <1>0, AppendProperties DEF TypeOK
  <2>2. \A i \in 1..Len(pending) : pending[i] # t
    BY <1>1, <2>1 DEF Queued
  <2>3. QueuedOnce'
    BY <2>1, <2>2 DEF RefinementInv, QueuedOnce
  <2>4. Queued' = Queued \cup {t}
    BY <2>1 DEF Queued
  <2>. QED BY <2>3, <2>4
<1>4. OneEnd'
  BY <1>0, <1>1, <1>3 DEF OneEnd, RefinementInv, TypeOK
<1>5. Image'[t] = "waiting"
  BY <1>0, <1>3, <1>4, ImageExactAfter DEF ImageIsExact
<1>6. \A u \in Triggers \ {t} : Image'[u] = Image[u]
  BY <1>0, <1>3 DEF Image, StatusOf, Discarded, TypeOK
<1>7. OnlyImageOf(t, "waiting")
  BY <1>5, <1>6, ImageOf
<1>8. Promise!Overlap(t)
  BY <1>1, <1>2, <1>7 DEF Promise!Overlap, OnlyImageOf
<1>. QED BY <1>3, <1>4, <1>8 DEF Refines, Promise!Next

\* A step in which nobody meets an end, is queued or discarded.
LEMMA QuietRefines ==
    ASSUME RefinementInv, UNCHANGED <<task, outcome, pending>>,
           \A t \in Triggers : \/ pc'[t] = pc[t]
                               \/ pc[t] \in {"idle", "locking"} /\ pc'[t] \in {"locking", "cancelling"}
                               \/ pc[t] = "parked" /\ pc'[t] = "returned"
                               \/ pc[t] = "cancelling" /\ pc'[t] = "unwinding"
                               \/ pc[t] # "raised" /\ pc'[t] = "cancelled"
    PROVE  Refines
<1>1. QueuedOnce' /\ Queued' = Queued
  BY DEF RefinementInv, QueuedOnce, Queued
<1>2. OneEnd'
  BY <1>1 DEF RefinementInv, OneEnd
<1>3. Image' = Image
  BY SameImage
<1>. QED BY <1>1, <1>2, <1>3 DEF Refines

\* guard.run() with the lock in hand.
LEMMA RunRefines ==
    ASSUME RefinementInv, TypeOK', NEW t \in Triggers, NEW pd \in SUBSET Triggers,
           Run(t, pd), lock = None \/ lock = t, pc[t] \in {"idle", "locking"}
    PROVE  Refines
<1>0. t \in Agents
  BY DEF Agents
<1>1. CASE Start(t, pd) /\ ~IsRunning
  <2>1. \A u \in Triggers : task[u] # "running"
    BY <1>0, <1>1, IdleMeansNoneLive DEF RefinementInv
  <2>. QED BY <1>1, <2>1, StartRefines
<1>2. CASE IsRunning /\ \E out \in {"SUPPRESSED", "DROPPED"} : Refuse(t, pd, out)
  BY <1>2, RefuseRefines
<1>3. CASE /\ IsRunning
           /\ pending' = Append(pending, t)
           /\ outcome' = [outcome EXCEPT ![t] = "QUEUED_ACCEPTED"]
           /\ pc' = [pc EXCEPT ![t] = "parked"]
           /\ UNCHANGED task
  BY <1>3, QueueRefines
<1>4. CASE IsRunning /\ RunRestart(t, pd) /\ ~(Start(t, pd) /\ ~IsRunning)
  <2>1. UNCHANGED <<task, outcome, pending>> /\ pc' = [pc EXCEPT ![t] = "cancelling"]
    BY <1>4 DEF RunRestart
  <2>2. \A u \in Triggers : pc'[u] = pc[u] \/ (u = t /\ pc'[u] \in {"cancelling", "unwinding"})
    BY <1>0, <2>1 DEF RefinementInv, GuardInv, TypeOK, Agents
  <2>. QED BY <2>1, <2>2, QuietRefines
<1>. QED BY <1>1, <1>2, <1>3, <1>4 DEF Run, RunSingle, RunRestart, RunQueued

----------------------------------------------------------------------------
(* The queue moves on *)

\* release() empties the queue.
LEMMA ReleaseRefines ==
    ASSUME RefinementInv, TypeOK', NEW r \in Releases, ReleaseBody(r)
    PROVE  Refines
<1>0. TypeOK /\ r \in Agents /\ r \notin Triggers
  BY GuardAssumption DEF Agents, RefinementInv, GuardInv
<1>1. /\ UNCHANGED <<task, outcome>> /\ pending' = <<>>
      /\ \A t \in Triggers : pc'[t] = pc[t]
  BY <1>0 DEF ReleaseBody, TypeOK, Agents
<1>2. QueuedOnce' /\ Queued' = {}
  BY <1>1 DEF QueuedOnce, Queued
<1>3. OneEnd'
  BY <1>1, <1>2 DEF RefinementInv, OneEnd
<1>4. ASSUME NEW t \in Triggers
      PROVE  Image'[t] = IF Image[t] = "waiting" THEN "discarded" ELSE Image[t]
  <2>1. CASE t \in Queued
    <3>1. Image[t] = "waiting"
      BY <1>0, <2>1, ImageExact DEF RefinementInv, ImageIsExact
    <3>2. Discarded(t)'
      BY <1>1, <1>2, <2>1 DEF RefinementInv, OneEnd, Discarded
    <3>3. Image'[t] = "discarded"
      BY <1>3, <3>2, ImageExactAfter DEF ImageIsExact
    <3>. QED BY <3>1, <3>3
  <2>2. CASE t \notin Queued
    <3>1. Image'[t] = Image[t]
      BY <1>1, <1>2, <2>2 DEF Image, StatusOf, Discarded
    <3>2. Image[t] # "waiting"
      BY <2>2, BusyImage DEF Promise!With
    <3>. QED BY <3>1, <3>2
  <2>. QED BY <2>1, <2>2
<1>5. Promise!Discard
  BY <1>4 DEF Promise!Discard, Image
<1>. QED BY <1>2, <1>3, <1>5 DEF Refines, Promise!Next

\* An invocation ends.
LEMMA FinishRefines ==
    ASSUME RefinementInv, TypeOK', NEW t \in Triggers, Finish(t)
    PROVE  Refines
<1>0. TypeOK /\ UNCHANGED <<pc, outcome, pending>> /\ task[t] = "running"
      /\ task' = [task EXCEPT ![t] = "finished"]
  BY DEF RefinementInv, GuardInv, Finish
<1>1. QueuedOnce' /\ Queued' = Queued
  BY <1>0 DEF RefinementInv, QueuedOnce, Queued
<1>2. OneEnd'
  BY <1>0, <1>1 DEF RefinementInv, OneEnd, TypeOK
<1>3. Image[t] = "running" /\ Image'[t] = "over"
  BY <1>0, <1>2, ImageExact, ImageExactAfter DEF RefinementInv, ImageIsExact, TypeOK
<1>4. \A u \in Triggers \ {t} : Image'[u] = Image[u]
  BY <1>0, <1>1 DEF Image, StatusOf, Discarded, TypeOK
<1>5. OnlyImageOf(t, "over")
  BY <1>3, <1>4, ImageOf
<1>6. Promise!End(t)
  BY <1>3, <1>5 DEF Promise!End, OnlyImageOf
<1>. QED BY <1>1, <1>2, <1>6 DEF Refines, Promise!Next

\* Done-callbacks that start nothing and leave the queue as it is.
LEMMA SettleRefines ==
    ASSUME RefinementInv, TypeOK', NEW t \in Triggers, task[t] = "finished",
           task' = [task EXCEPT ![t] = "settled"], UNCHANGED <<pc, outcome, pending>>
    PROVE  Refines
<1>0. TypeOK
  BY DEF RefinementInv, GuardInv
<1>1. QueuedOnce' /\ Queued' = Queued
  BY DEF RefinementInv, QueuedOnce, Queued
<1>2. OneEnd'
  BY <1>0, <1>1 DEF RefinementInv, OneEnd, TypeOK
<1>3. Image[t] = "over" /\ Image'[t] = "over"
  BY <1>0, <1>2, ImageExact, ImageExactAfter DEF RefinementInv, ImageIsExact, TypeOK
<1>4. \A u \in Triggers \ {t} : Image'[u] = Image[u]
  BY <1>0, <1>1 DEF Image, StatusOf, Discarded, TypeOK
<1>5. OnlyImageOf(t, "over")
  BY <1>3, <1>4, ImageOf
<1>6. Image' = Image
  BY <1>3, <1>5 DEF OnlyImageOf, Image
<1>. QED BY <1>1, <1>2, <1>6 DEF Refines

\* The tracked invocation of a queued guard is done: none is running.
LEMMA DoneMeansNoneLive ==
    ASSUME GuardInv, mode = "queued", current \in Triggers, task[current] = "finished"
    PROVE  \A u \in Triggers : task[u] # "running"
<1>1. ASSUME NEW a \in Agents, pc[a] \in {"cancelling", "unwinding"} PROVE FALSE
  BY <1>1, GuardAssumption DEF GuardInv, LockDiscipline, Agents
<1>. QED BY <1>1 DEF GuardInv, NoDetachedInvocation, Agents

\* drain_next finds nothing it can start: what waited is discarded.
LEMMA DrainNothingRefines ==
    ASSUME RefinementInv, TypeOK', NEW t \in Triggers, task[t] = "finished",
           mode = "queued", current = t,
           pending' = <<>>, task' = [task EXCEPT ![t] = "settled"], UNCHANGED <<pc, outcome>>
    PROVE  Refines
<1>0. TypeOK
  BY DEF RefinementInv, GuardInv
<1>1. QueuedOnce' /\ Queued' = {}
  BY DEF QueuedOnce, Queued
<1>2. OneEnd'
  BY <1>0, <1>1 DEF RefinementInv, OneEnd, TypeOK
<1>3. ASSUME NEW u \in Triggers
      PROVE  Image'[u] = IF u \in Queued THEN "discarded" ELSE Image[u]
  <2>1. CASE u \in Queued
    <3>1. Discarded(u)'
      BY <1>0, <1>1, <2>1 DEF RefinementInv, OneEnd, Discarded, TypeOK
    <3>. QED BY <1>2, <2>1, <3>1, ImageExactAfter DEF ImageIsExact
  <2>2. CASE u = t
    <3>1. Image[t] = "over" /\ Image'[t] = "over" /\ t \notin Queued
      BY <1>0, <1>2, ImageExact, ImageExactAfter DEF RefinementInv, ImageIsExact, OneEnd, TypeOK
    <3>. QED BY <2>2, <3>1
  <2>3. CASE u \notin Queued /\ u # t
    BY <1>0, <1>1, <2>3 DEF Image, StatusOf, Discarded, TypeOK
  <2>. QED BY <2>1, <2>2, <2>3
<1>4. ~Promise!Busy /\ Promise!With("waiting") = Queued
  BY BusyImage, DoneMeansNoneLive DEF RefinementInv
<1>5. Image' = [u \in Triggers |-> IF u \in Queued THEN "discarded" ELSE Image[u]]
  BY <1>3 DEF Image
<1>6. Promise!Drain
  BY <1>4, <1>5 DEF Promise!Drain
<1>. QED BY <1>1, <1>2, <1>6 DEF Refines, Promise!Next

\* drain_next starts the i-th trigger and discards the ones before it.
LEMMA DrainOneRefines ==
    ASSUME RefinementInv, TypeOK', NEW t \in Triggers, task[t] = "finished",
           mode = "queued", current = t, NEW i \in DOMAIN pending,
           pending' = SubSeq(pending, i + 1, Len(pending)),
           task' = [task EXCEPT ![t] = "settled", ![pending[i]] = "running"],
           UNCHANGED <<pc, outcome>>
    PROVE  Refines
<1>. DEFINE next == pending[i]
            skipped == {pending[j] : j \in 1..(i - 1)}
            n == Len(pending)
<1>0. TypeOK /\ n \in Nat /\ DOMAIN pending = 1..n /\ i \in 1..n
  BY DEF RefinementInv, GuardInv, TypeOK
<1>1. /\ next \in Queued /\ next \in Triggers /\ skipped \subseteq Queued \ {next}
      /\ t \notin Queued /\ Queued \subseteq Triggers
  <2>1. next \in Queued
    BY DEF Queued
  <2>2. Queued \subseteq Triggers /\ t \notin Queued
    <3>1. Queued \subseteq Triggers
      BY DEF Queued, RefinementInv, GuardInv, TypeOK
    <3>. QED BY <3>1 DEF RefinementInv, OneEnd
  <2>3. ASSUME NEW j \in 1..(i - 1) PROVE pending[j] \in Queued /\ pending[j] # next
    <3>1. j \in DOMAIN pending /\ j # i
      BY <1>0
    <3>. QED BY <3>1 DEF RefinementInv, QueuedOnce, Queued
  <2>. QED BY <2>1, <2>2, <2>3
<1>2. /\ DOMAIN pending' = 1..(n - i)
      /\ \A j \in 1..(n - i) : pending'[j] = pending[j + i]
  <2>1. pending \in Seq(Triggers) /\ i + 1 \in 1..(n + 1) /\ n \in i..n
    BY <1>0 DEF TypeOK
  <2>2. /\ SubSeq(pending, i + 1, n) \in Seq(Triggers)
        /\ Len(SubSeq(pending, i + 1, n)) = n - (i + 1) + 1
        /\ \A j \in 1..(n - (i + 1) + 1) : SubSeq(pending, i + 1, n)[j] = pending[(i + 1) + j - 1]
    BY <2>1, SubSeqProperties
  <2>3. pending' = SubSeq(pending, i + 1, n)
    OBVIOUS
  <2>4. n - (i + 1) + 1 = n - i /\ \A j \in 1..(n - i) : (i + 1) + j - 1 = j + i
    BY <1>0
  <2>. HIDE DEF n
  <2>5. DOMAIN pending' = 1..(n - i)
    BY <2>2, <2>3, <2>4
  <2>. QED BY <2>2, <2>3, <2>4, <2>5
<1>3. QueuedOnce'
  BY <1>0, <1>2 DEF RefinementInv, QueuedOnce
<1>4. Queued' = Queued \ (skipped \cup {next})
  <2>1. Queued' = {pending[j] : j \in (i + 1)..n}
    <3>1. ASSUME NEW j \in (i + 1)..n PROVE pending[j] \in Queued'
      <4>1. j - i \in 1..(n - i) /\ pending'[j - i] = pending[j]
        BY <1>0, <1>2
      <4>. QED BY <1>2, <4>1 DEF Queued
    <3>2. ASSUME NEW j \in 1..(n - i) PROVE pending'[j] \in {pending[k] : k \in (i + 1)..n}
      <4>1. j + i \in (i + 1)..n /\ pending'[j] = pending[j + i]
        BY <1>0, <1>2
      <4>. QED BY <4>1
    <3>. QED BY <1>2, <3>1, <3>2 DEF Queued
  <2>2. ASSUME NEW j \in 1..n PROVE (pending[j] \in skipped) <=> j < i
    <3>1. j < i => j \in 1..(i - 1)
      BY <1>0
    <3>2. ASSUME NEW k \in 1..(i - 1), pending[k] = pending[j] PROVE j < i
      <4>1. k \in DOMAIN pending /\ j \in DOMAIN pending /\ k < i
        BY <1>0
      <4>. QED BY <3>2, <4>1 DEF RefinementInv, QueuedOnce
    <3>. QED BY <3>1, <3>2
  <2>3. \A j \in 1..n : (pending[j] = next) <=> j = i
    BY <1>0 DEF RefinementInv, QueuedOnce
  <2>4. \A j \in 1..n : j \in (i + 1)..n <=> ~(j < i) /\ j # i
    BY <1>0
  <2>5. Queued = {pending[j] : j \in 1..n}
    BY <1>0 DEF Queued
  <2>6. \A j \in (i + 1)..n : j \in 1..n
    BY <1>0
  <2>. HIDE DEF next, skipped, n
  <2>. QED BY <2>1, <2>2, <2>3, <2>4, <2>5, <2>6
<1>. HIDE DEF next, skipped, n
<1>5. task' = [task EXCEPT ![t] = "settled", ![next] = "running"] /\ DOMAIN task = Triggers
  BY <1>0 DEF next, TypeOK
<1>6. OneEnd'
  <2>1. outcome[next] = "QUEUED_ACCEPTED" /\ outcome[t] \in {"RAN", "QUEUED_ACCEPTED"}
    BY <1>1 DEF RefinementInv, OneEnd
  <2>2. task'[t] = "settled" /\ task'[next] = "running" /\ t # next
    BY <1>1, <1>5
  <2>3. \A u \in Triggers \ {t, next} : task'[u] = task[u]
    BY <1>5
  <2>4. \A u \in Triggers : (u \in Queued') => u \in Queued /\ u # next
    BY <1>4
  <2>. QED BY <1>1, <2>1, <2>2, <2>3, <2>4 DEF RefinementInv, OneEnd
<1>7. ASSUME NEW u \in Triggers
      PROVE  Image'[u] = IF u = next THEN "running"
                         ELSE IF u \in skipped THEN "discarded" ELSE Image[u]
  <2>1. CASE u = next
    <3>1. task'[u] = "running"
      BY <1>1, <1>5, <2>1
    <3>. QED BY <1>6, <2>1, <3>1, ImageExactAfter DEF ImageIsExact
  <2>2. CASE u \in skipped
    <3>1. Discarded(u)'
      BY <1>0, <1>1, <1>4, <1>5, <2>2 DEF RefinementInv, OneEnd, Discarded, TypeOK
    <3>. QED BY <1>1, <1>6, <2>2, <3>1, ImageExactAfter DEF ImageIsExact
  <2>3. CASE u = t
    <3>1. task'[t] = "settled" /\ t # next /\ t \notin skipped
      BY <1>0, <1>1, <1>5 DEF TypeOK
    <3>2. Image[t] = "over" /\ Image'[t] = "over"
      BY <1>0, <1>6, <3>1, ImageExact, ImageExactAfter DEF RefinementInv, ImageIsExact
    <3>. QED BY <2>3, <3>1, <3>2
  <2>4. CASE u # next /\ u \notin skipped /\ u # t
    <3>1. task'[u] = task[u] /\ ((u \in Queued') <=> (u \in Queued))
      BY <1>0, <1>1, <1>4, <1>5, <2>4 DEF TypeOK
    <3>. QED BY <2>4, <3>1 DEF Image, StatusOf, Discarded
  <2>. QED BY <2>1, <2>2, <2>3, <2>4
<1>8. ~Promise!Busy /\ Promise!With("waiting") = Queued
  BY BusyImage, DoneMeansNoneLive DEF RefinementInv
<1>9. Image' = [u \in Triggers |-> IF u = next THEN "running"
                                   ELSE IF u \in skipped THEN "discarded" ELSE Image[u]]
  BY <1>7 DEF Image
<1>10. Promise!Drain
  BY <1>1, <1>8, <1>9 DEF Promise!Drain
<1>. QED BY <1>3, <1>6, <1>10 DEF Refines, Promise!Next

----------------------------------------------------------------------------
(* The theorem *)

LEMMA RunDoneCallbacksRefines ==
    ASSUME RefinementInv, TypeOK', NEW t \in Triggers, RunDoneCallbacks(t)
    PROVE  Refines
<1>0. task[t] = "finished" /\ UNCHANGED <<pc, outcome>>
  BY DEF RunDoneCallbacks
<1>1. CASE task' = [task EXCEPT ![t] = "settled"] /\ UNCHANGED pending
  BY <1>0, <1>1, SettleRefines
<1>2. CASE /\ mode = "queued" /\ current = t
           /\ pending' = <<>> /\ task' = [task EXCEPT ![t] = "settled"]
  BY <1>0, <1>2, DrainNothingRefines
<1>3. ASSUME NEW i \in Startable, mode = "queued", current = t,
             pending' = SubSeq(pending, i + 1, Len(pending)),
             task' = [task EXCEPT ![t] = "settled", ![pending[i]] = "running"]
      PROVE  Refines
  <2>1. i \in DOMAIN pending
    BY DEF Startable
  <2>. QED BY <1>0, <1>3, <2>1, DrainOneRefines
<1>. QED BY <1>1, <1>2, <1>3 DEF RunDoneCallbacks, DrainNext

LEMMA NextRefines ==
    ASSUME RefinementInv, [Next]_vars
    PROVE  RefinementInv' /\ [Promise!Next]_Image
<1>0. TypeOK /\ GuardInv /\ GuardInv' /\ TypeOK'
  BY GuardInvStep DEF RefinementInv, GuardInv
<1>1. ASSUME NEW t \in Triggers, TriggerStep(t) PROVE Refines
  <2>0. t \in Agents /\ pendingDone \cup {t} \in SUBSET Triggers /\ pendingDone \in SUBSET Triggers
    BY <1>0 DEF Agents, TypeOK
  <2>1. CASE RunThroughGuard(t)
    <3>1. CASE LockFree /\ Run(t, pendingDone \cup {t})
      BY <1>0, <2>0, <2>1, <3>1, RunRefines DEF RunThroughGuard, LockFree
    <3>2. CASE WaitForLock(t)
      <4>1. \A u \in Triggers : pc'[u] = pc[u] \/ (u = t /\ pc'[u] = "locking")
        BY <1>0, <2>0, <3>2 DEF WaitForLock, TypeOK, Agents
      <4>. QED BY <2>1, <3>2, <4>1, QuietRefines DEF RunThroughGuard, WaitForLock
    <3>. QED BY <2>1, <3>1, <3>2 DEF RunThroughGuard
  <2>2. CASE AcquiredByTrigger(t)
    BY <1>0, <2>0, <2>2, RunRefines DEF AcquiredByTrigger
  <2>3. CASE ReplaceCancelled(t)
    <3>1. lock = t /\ awaited[t] = current /\ current \in Triggers
      BY <1>0, <2>0, <2>3, GuardAssumption DEF ReplaceCancelled, GuardInv, LockDiscipline
    <3>2. \A b \in Agents \ {t} : pc[b] \notin {"cancelling", "unwinding"}
      BY <1>0, <2>0, <3>1, NobodyElseCancelling
    <3>3. \A u \in Triggers : task[u] # "running"
      BY <1>0, <2>3, <3>1, <3>2, GuardAssumption
      DEF ReplaceCancelled, GuardInv, NoDetachedInvocation, Agents
    <3>. QED BY <1>0, <2>3, <3>3, StartRefines DEF ReplaceCancelled
  <2>4. CASE ReturnToCaller(t)
    <3>1. \A u \in Triggers : pc'[u] = pc[u] \/ (u = t /\ pc'[u] = "returned")
      BY <1>0, <2>0, <2>4 DEF ReturnToCaller, TypeOK, Agents
    <3>. QED BY <2>4, <3>1, QuietRefines DEF ReturnToCaller
  <2>5. CASE Cancel(t) \/ UnwindReplacing(t)
    <3>1. UNCHANGED <<task, outcome, pending>>
      BY <2>5 DEF Cancel, UnwindReplacing
    <3>a. \E p \in {"unwinding", "cancelled"} : pc' = [pc EXCEPT ![t] = p]
      BY <2>5 DEF Cancel, StopLocking, StopAwaitingDone, StopReplacing, UnwindReplacing
    <3>2. \A u \in Triggers : u # t => pc'[u] = pc[u]
      BY <1>0, <3>a DEF TypeOK, Agents
    <3>3. \/ pc[t] = "cancelling" /\ pc'[t] = "unwinding"
          \/ pc[t] # "raised" /\ pc'[t] = "cancelled"
      BY <1>0, <2>0, <2>5
      DEF Cancel, StopLocking, StopAwaitingDone, StopReplacing, UnwindReplacing, TypeOK
    <3>. QED BY <3>1, <3>2, <3>3, QuietRefines
  <2>. QED BY <1>1, <2>1, <2>2, <2>3, <2>4, <2>5 DEF TriggerStep
<1>2. ASSUME NEW t \in Triggers, TaskStep(t) PROVE Refines
  BY <1>0, <1>2, FinishRefines, RunDoneCallbacksRefines DEF TaskStep
<1>3. ASSUME NEW r \in Releases, ReleaseStep(r) PROVE Refines
  <2>1. CASE WaitForLock(r)
    <3>1. \A u \in Triggers : pc'[u] = pc[u]
      BY <1>0, <2>1, GuardAssumption DEF WaitForLock, TypeOK, Agents
    <3>. QED BY <2>1, <3>1, QuietRefines DEF WaitForLock
  <2>2. CASE ReleaseBody(r)
    BY <1>0, <2>2, ReleaseRefines
  <2>3. CASE DrainPendingDone(r)
    <3>1. \A u \in Triggers : pc'[u] = pc[u]
      BY <1>0, <2>3, GuardAssumption DEF DrainPendingDone, TypeOK, Agents
    <3>. QED BY <2>3, <3>1, QuietRefines DEF DrainPendingDone
  <2>. QED BY <1>3, <2>1, <2>2, <2>3 DEF ReleaseStep, Release, AcquiredByRelease
<1>4. ASSUME UNCHANGED vars PROVE Refines
  BY <1>4, QuietRefines DEF vars
<1>5. Refines
  BY <1>1, <1>2, <1>3, <1>4 DEF Next
<1>. QED BY <1>0, <1>5 DEF Refines, RefinementInv

LEMMA InitRefines ==
    ASSUME Init
    PROVE  RefinementInv /\ Promise!Init
<1>1. GuardInv /\ TypeOK
  BY InitGuardInv, InitType
<1>2. QueuedOnce /\ Queued = {}
  BY DEF Init, QueuedOnce, Queued
<1>3. OneEnd
  BY <1>2 DEF Init, OneEnd
<1>4. ASSUME NEW t \in Triggers PROVE Image[t] = "new"
  <2>1. task[t] = "none" /\ outcome[t] = "none" /\ pc[t] # "raised"
    BY DEF Init, Agents
  <2>. QED BY <1>1, <1>3, <2>1, ImageExact DEF ImageIsExact
<1>5. Promise!Init
  BY <1>4 DEF Promise!Init, Image
<1>. QED BY <1>1, <1>2, <1>3, <1>5 DEF RefinementInv

\* The guard keeps the promise of SerialExecution: at most one invocation at a
\* time, no trigger refused or queued unless one runs, and one end for each,
\* through the lock, the futures and the done-callbacks of execution_mode.py.
THEOREM GuardKeepsPromise == Spec => KeepsSerialPromise
<1>1. Init => RefinementInv /\ Promise!Init
  BY InitRefines
<1>2. RefinementInv /\ [Next]_vars => RefinementInv' /\ [Promise!Next]_Image
  BY NextRefines
<1>3. Promise!Init => Abstract!Init
  BY DEF Promise!Init, Abstract!Init, Image
<1>4. [Promise!Next]_Image => [Abstract!Next]_([t \in Triggers |-> StatusOf(t)])
  BY DEF Image, Promise!Next, Promise!Begin, Promise!Overlap, Promise!Fail, Promise!End,
         Promise!Drain, Promise!Discard, Promise!Busy, Promise!With,
         Abstract!Next, Abstract!Begin, Abstract!Overlap, Abstract!Fail, Abstract!End,
         Abstract!Drain, Abstract!Discard, Abstract!Busy, Abstract!With
<1>. QED BY <1>1, <1>2, <1>3, <1>4, PTL DEF Spec, KeepsSerialPromise, Abstract!Spec
=============================================================================
