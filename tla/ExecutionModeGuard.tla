-------------------------- MODULE ExecutionModeGuard --------------------------
(***************************************************************************)
(* execution_mode.py: the overlap state machine of one listener or job     *)
(* (ExecutionModeGuard) together with the completion-future bridge that    *)
(* the bus and the scheduler wrap around it (run_through_guard,            *)
(* drain_pending_done).                                                    *)
(*                                                                         *)
(* Everything runs on one asyncio loop, so an action is the code between   *)
(* two suspension points.  A Trigger is one call of run_through_guard; the *)
(* invocation it may spawn is named after it.  A Release is one call of    *)
(* "await guard.release(); drain_pending_done(...)".  The task a trigger   *)
(* runs in may be cancelled at any of its suspension points.               *)
(***************************************************************************)
EXTENDS Integers, Sequences

CONSTANTS
    Triggers,    \* calls of run_through_guard
    Releases,    \* calls of guard.release() followed by drain_pending_done()
    Faulty,      \* triggers whose run_and_track() raises instead of spawning
    Cancellable, \* triggers whose caller's task may be cancelled
    Modes,       \* the execution modes a guard may be created with
    Cap,         \* the guard's queue depth
    None

Agents == Triggers \cup Releases

ASSUME GuardAssumption ==
    /\ Modes \subseteq {"single", "restart", "queued"}
    /\ Cap \in Nat
    /\ Faulty \subseteq Triggers
    /\ Cancellable \subseteq Triggers
    /\ Triggers \cap Releases = {}
    /\ None \notin Agents

VARIABLES
    mode,         \* guard._mode
    pc,           \* where each call is suspended
    task,         \* the invocation a trigger spawned
    outcome,      \* the Outcome guard.run() returned to a trigger
    cancelled,    \* invocations on which task.cancel() was called
    current,      \* guard.current_task
    pending,      \* guard.pending, a FIFO of factories
    suppressed,   \* guard.suppressed
    dropped,      \* guard.dropped
    lock,         \* holder of guard._lock
    waiters,      \* FIFO of calls waiting for guard._lock
    awaited,      \* the invocation a call waits for in gather()
    pendingDone   \* unresolved completion futures, by trigger

vars == <<mode, pc, task, outcome, cancelled, current, pending, suppressed, dropped,
          lock, waiters, awaited, pendingDone>>

Init ==
    /\ mode \in Modes
    /\ pc = [a \in Agents |-> "idle"]
    /\ task = [t \in Triggers |-> "none"]
    /\ outcome = [t \in Triggers |-> "none"]
    /\ cancelled = {}
    /\ current = None
    /\ pending = <<>>
    /\ suppressed = 0
    /\ dropped = 0
    /\ lock = None
    /\ waiters = <<>>
    /\ awaited = [a \in Agents |-> None]
    /\ pendingDone = {}

----------------------------------------------------------------------------
(* The pieces of a critical section *)

\* Mutant: a finished task still counts as running until it is replaced.
IsRunning_NoDoneCheck == current # None

IsRunning == current # None /\ task[current] = "running"

\* asyncio.Lock is fair: an acquire that finds waiters queues behind them, so
\* leaving the critical section hands the lock to the oldest waiter.
LockFree == lock = None

Unlock ==
    /\ lock' = IF waiters = <<>> THEN None ELSE Head(waiters)
    /\ waiters' = IF waiters = <<>> THEN <<>> ELSE Tail(waiters)

\* run_and_track() spawned the invocation and the guard tracks it, or it
\* raised: then guard.run() and run_through_guard() raise too, the tracked
\* task is unchanged and the future stays in pending_done.
Start(t, pd) ==
    /\ IF t \in Faulty
       THEN /\ pc' = [pc EXCEPT ![t] = "raised"]
            /\ UNCHANGED <<task, outcome, current>>
       ELSE /\ pc' = [pc EXCEPT ![t] = "parked"]
            /\ task' = [task EXCEPT ![t] = "running"]
            /\ outcome' = [outcome EXCEPT ![t] = "RAN"]
            /\ current' = t
    /\ pendingDone' = pd
    /\ Unlock
    /\ UNCHANGED <<mode, cancelled, pending, suppressed, dropped>>

\* SUPPRESSED and DROPPED resolve the future before the call returns.
Refuse(t, pd, out) ==
    /\ pc' = [pc EXCEPT ![t] = "returned"]
    /\ outcome' = [outcome EXCEPT ![t] = out]
    /\ pendingDone' = pd \ {t}
    /\ Unlock
    /\ UNCHANGED <<mode, task, cancelled, current, pending, awaited>>

RunSingle(t, pd) ==
    \/ /\ IsRunning
       /\ suppressed' = suppressed + 1
       /\ Refuse(t, pd, "SUPPRESSED")
       /\ UNCHANGED dropped
    \/ /\ ~IsRunning
       /\ Start(t, pd)
       /\ UNCHANGED awaited

\* Mutant: the replacement starts before the old invocation has unwound.
RunRestart_NoWait(t, pd) ==
    /\ IF IsRunning THEN cancelled' = cancelled \cup {current} ELSE UNCHANGED cancelled
    /\ pc' = [pc EXCEPT ![t] = "parked"]
    /\ task' = [task EXCEPT ![t] = "running"]
    /\ outcome' = [outcome EXCEPT ![t] = "RAN"]
    /\ current' = t
    /\ pendingDone' = pd
    /\ Unlock
    /\ UNCHANGED <<mode, pending, suppressed, dropped, awaited>>

\* The lock stays held while the old invocation unwinds.
RunRestart(t, pd) ==
    \/ /\ IsRunning
       /\ cancelled' = cancelled \cup {current}
       /\ awaited' = [awaited EXCEPT ![t] = current]
       /\ pc' = [pc EXCEPT ![t] = "cancelling"]
       /\ lock' = t
       /\ pendingDone' = pd
       /\ UNCHANGED <<mode, task, outcome, current, pending, suppressed, dropped, waiters>>
    \/ /\ ~IsRunning
       /\ Start(t, pd)
       /\ UNCHANGED awaited

\* Mutant: the drop counter goes the wrong way.
RunQueued_CountsDown(t, pd) ==
    \/ /\ IsRunning
       /\ dropped' = dropped - 1
       /\ Refuse(t, pd, "DROPPED")
       /\ UNCHANGED suppressed
    \/ /\ ~IsRunning
       /\ Start(t, pd)
       /\ UNCHANGED awaited

RunQueued(t, pd) ==
    \/ /\ IsRunning
       /\ Len(pending) >= Cap
       /\ dropped' = dropped + 1
       /\ Refuse(t, pd, "DROPPED")
       /\ UNCHANGED suppressed
    \/ /\ IsRunning
       /\ Len(pending) < Cap
       /\ pending' = Append(pending, t)
       /\ outcome' = [outcome EXCEPT ![t] = "QUEUED_ACCEPTED"]
       /\ pc' = [pc EXCEPT ![t] = "parked"]
       /\ pendingDone' = pd
       /\ Unlock
       /\ UNCHANGED <<mode, task, cancelled, current, suppressed, dropped, awaited>>
    \/ /\ ~IsRunning
       /\ Start(t, pd)
       /\ UNCHANGED awaited

Run(t, pd) ==
    \/ mode = "single" /\ RunSingle(t, pd)
    \/ mode = "restart" /\ RunRestart(t, pd)
    \/ mode = "queued" /\ RunQueued(t, pd)

\* Mutant: release() detaches the task but leaves the queue as it is.
ReleaseBody_KeepsQueue(r) ==
    /\ current' = None
    /\ cancelled' = IF IsRunning THEN cancelled \cup {current} ELSE cancelled
    /\ pc' = [pc EXCEPT ![r] = "returned"]
    /\ pendingDone' = {}
    /\ Unlock
    /\ UNCHANGED <<mode, task, outcome, pending, suppressed, dropped, awaited>>

\* release() with the lock held.  drain_pending_done() follows in the same
\* step when there is nothing to wait for.
ReleaseBody(r) ==
    /\ pending' = <<>>
    /\ current' = None
    /\ \/ /\ IsRunning
          /\ cancelled' = cancelled \cup {current}
          /\ awaited' = [awaited EXCEPT ![r] = current]
          /\ pc' = [pc EXCEPT ![r] = "cancelling"]
          /\ lock' = r
          /\ UNCHANGED <<waiters, pendingDone>>
       \/ /\ ~IsRunning
          /\ pc' = [pc EXCEPT ![r] = "returned"]
          /\ pendingDone' = {}
          /\ Unlock
          /\ UNCHANGED <<cancelled, awaited>>
    /\ UNCHANGED <<mode, task, outcome, suppressed, dropped>>

WaitForLock(a) ==
    /\ pc' = [pc EXCEPT ![a] = "locking"]
    /\ waiters' = Append(waiters, a)
    /\ UNCHANGED <<mode, task, outcome, cancelled, current, pending, suppressed,
                   dropped, lock, awaited>>

----------------------------------------------------------------------------
(* The steps of a trigger *)

\* run_through_guard() up to its first suspension.
RunThroughGuard(t) ==
    /\ pc[t] = "idle"
    /\ LET pd == pendingDone \cup {t} IN
       \/ LockFree /\ Run(t, pd)
       \/ ~LockFree /\ WaitForLock(t) /\ pendingDone' = pd

AcquiredByTrigger(t) ==
    /\ pc[t] = "locking"
    /\ lock = t
    /\ Run(t, pendingDone)

\* gather() of run_restart() returns: the cancelled invocation is over.
ReplaceCancelled(t) ==
    /\ pc[t] = "cancelling"
    /\ task[awaited[t]] = "settled"
    /\ awaited' = [awaited EXCEPT ![t] = None]
    /\ Start(t, pendingDone)

\* "await done" of run_through_guard() returns.
ReturnToCaller(t) ==
    /\ pc[t] = "parked"
    /\ t \notin pendingDone
    /\ pc' = [pc EXCEPT ![t] = "returned"]
    /\ UNCHANGED <<mode, task, outcome, cancelled, current, pending, suppressed,
                   dropped, lock, waiters, awaited, pendingDone>>

\* A waiter of the lock gives up its place, or hands the lock on if it was
\* already woken.
StopLocking(t) ==
    /\ pc[t] = "locking"
    /\ \/ /\ lock = t
          /\ Unlock
       \/ /\ lock # t
          /\ \E i \in DOMAIN waiters :
               /\ waiters[i] = t
               /\ waiters' = SubSeq(waiters, 1, i - 1) \o SubSeq(waiters, i + 1, Len(waiters))
          /\ UNCHANGED lock
    /\ pc' = [pc EXCEPT ![t] = "cancelled"]
    /\ UNCHANGED <<awaited, pendingDone>>

\* "await done" is cancelled, and the future with it.  The invocation, or its
\* factory in the queue, stays: the guard owns it, not the caller.
StopAwaitingDone(t) ==
    /\ pc[t] = "parked"
    /\ pc' = [pc EXCEPT ![t] = "cancelled"]
    /\ pendingDone' = pendingDone \ {t}
    /\ UNCHANGED <<lock, waiters, awaited>>

\* gather() cancels its child once more and raises only when the child is
\* done: the caller stays suspended, with the lock.
StopReplacing(t) ==
    /\ pc[t] = "cancelling"
    /\ pc' = [pc EXCEPT ![t] = "unwinding"]
    /\ UNCHANGED <<lock, waiters, awaited, pendingDone>>

\* The task of the caller is cancelled: a debounced dispatch gives way to the
\* next event, or its task bucket is shut down.
Cancel(t) ==
    /\ t \in Cancellable
    /\ StopLocking(t) \/ StopAwaitingDone(t) \/ StopReplacing(t)
    /\ UNCHANGED <<mode, task, outcome, cancelled, current, pending, suppressed, dropped>>

\* The child is done and run_restart() raises CancelledError: it starts no
\* replacement.
UnwindReplacing(t) ==
    /\ pc[t] = "unwinding"
    /\ task[awaited[t]] = "settled"
    /\ awaited' = [awaited EXCEPT ![t] = None]
    /\ pc' = [pc EXCEPT ![t] = "cancelled"]
    /\ Unlock
    /\ UNCHANGED <<mode, task, outcome, cancelled, current, pending, suppressed,
                   dropped, pendingDone>>

(* The steps of a release *)

Release(r) ==
    /\ pc[r] = "idle"
    /\ \/ LockFree /\ ReleaseBody(r)
       \/ ~LockFree /\ WaitForLock(r) /\ UNCHANGED pendingDone

AcquiredByRelease(r) ==
    /\ pc[r] = "locking"
    /\ lock = r
    /\ ReleaseBody(r)

\* Mutant: the caller forgets drain_pending_done() after release().
DrainPendingDone_Forgotten(r) ==
    /\ pc[r] = "cancelling"
    /\ task[awaited[r]] = "settled"
    /\ awaited' = [awaited EXCEPT ![r] = None]
    /\ pc' = [pc EXCEPT ![r] = "returned"]
    /\ Unlock
    /\ UNCHANGED <<mode, task, outcome, cancelled, current, pending, suppressed, dropped, pendingDone>>

\* gather() of release() returns and the caller drains pending_done.
DrainPendingDone(r) ==
    /\ pc[r] = "cancelling"
    /\ task[awaited[r]] = "settled"
    /\ awaited' = [awaited EXCEPT ![r] = None]
    /\ pc' = [pc EXCEPT ![r] = "returned"]
    /\ pendingDone' = {}
    /\ Unlock
    /\ UNCHANGED <<mode, task, outcome, cancelled, current, pending, suppressed, dropped>>

(* The steps of an invocation *)

\* The handler returns, raises or unwinds its CancelledError: task.done()
\* holds from here on, the done-callbacks are only scheduled.
Finish(t) ==
    /\ task[t] = "running"
    /\ task' = [task EXCEPT ![t] = "finished"]
    /\ UNCHANGED <<mode, pc, outcome, cancelled, current, pending, suppressed,
                   dropped, lock, waiters, awaited, pendingDone>>

\* The first pending factory that does not raise is started; the ones that
\* raise before it are dropped.
Startable == {i \in DOMAIN pending : pending[i] \notin Faulty}

\* Mutant: drain_next does not check that the finished task is the tracked one.
DrainNext_AnyTask(t) ==
    IF pending = <<>>
    THEN task' = [task EXCEPT ![t] = "settled"] /\ UNCHANGED <<current, pending>>
    ELSE /\ current' = Head(pending)
         /\ pending' = Tail(pending)
         /\ task' = [task EXCEPT ![t] = "settled", ![Head(pending)] = "running"]

DrainNext(t) ==
    \/ /\ current # t
       /\ task' = [task EXCEPT ![t] = "settled"]
       /\ UNCHANGED <<current, pending>>
    \/ /\ current = t
       /\ Startable = {}
       /\ current' = None
       /\ pending' = <<>>
       /\ task' = [task EXCEPT ![t] = "settled"]
    \/ /\ current = t
       /\ \E i \in Startable :
            /\ \A j \in Startable : i <= j
            /\ current' = pending[i]
            /\ pending' = SubSeq(pending, i + 1, Len(pending))
            /\ task' = [task EXCEPT ![t] = "settled", ![pending[i]] = "running"]

\* The done-callbacks, scheduled next to each other: resolve_done, then (for
\* a queued guard) drain_next, then the wake-up of a gather().
RunDoneCallbacks(t) ==
    /\ task[t] = "finished"
    /\ pendingDone' = pendingDone \ {t}
    /\ \/ /\ mode = "queued"
          /\ DrainNext(t)
       \/ /\ mode # "queued"
          /\ task' = [task EXCEPT ![t] = "settled"]
          /\ UNCHANGED <<current, pending>>
    /\ UNCHANGED <<mode, pc, outcome, cancelled, suppressed, dropped, lock, waiters, awaited>>

----------------------------------------------------------------------------
TriggerStep(t) ==
    \/ RunThroughGuard(t)
    \/ AcquiredByTrigger(t)
    \/ ReplaceCancelled(t)
    \/ ReturnToCaller(t)
    \/ Cancel(t)
    \/ UnwindReplacing(t)

ReleaseStep(r) ==
    \/ Release(r)
    \/ AcquiredByRelease(r)
    \/ DrainPendingDone(r)

TaskStep(t) ==
    \/ Finish(t)
    \/ RunDoneCallbacks(t)

Next ==
    \/ \E t \in Triggers : TriggerStep(t) \/ TaskStep(t)
    \/ \E r \in Releases : ReleaseStep(r)

\* The loop runs every ready callback, and an invocation ends: a handler
\* runs under the executor's timeout and unwinds when it is cancelled.
\* Nobody is obliged to trigger, to release or to cancel.
Fairness ==
    /\ \A t \in Triggers :
         /\ WF_vars(AcquiredByTrigger(t) \/ ReplaceCancelled(t) \/ ReturnToCaller(t)
                     \/ UnwindReplacing(t))
         /\ WF_vars(TaskStep(t))
    /\ \A r \in Releases : WF_vars(AcquiredByRelease(r) \/ DrainPendingDone(r))

Spec == Init /\ [][Next]_vars

FairSpec == Spec /\ Fairness

----------------------------------------------------------------------------
(* Properties *)

TypeOK ==
    /\ mode \in Modes
    /\ pc \in [Agents -> {"idle", "locking", "cancelling", "unwinding", "parked",
                       "returned", "raised", "cancelled"}]
    /\ task \in [Triggers -> {"none", "running", "finished", "settled"}]
    /\ outcome \in [Triggers -> {"none", "RAN", "QUEUED_ACCEPTED", "SUPPRESSED", "DROPPED"}]
    /\ cancelled \subseteq Triggers
    /\ current \in Triggers \cup {None}
    /\ pending \in Seq(Triggers)
    /\ suppressed \in Nat
    /\ dropped \in Nat
    /\ lock \in Agents \cup {None}
    /\ waiters \in Seq(Agents)
    /\ awaited \in [Agents -> Triggers \cup {None}]
    /\ pendingDone \subseteq Triggers

Queued == {pending[i] : i \in DOMAIN pending}

\* Two invocations of one listener never overlap, although drain_next starts
\* invocations without the lock and run_restart and release suspend while
\* they hold it.
AtMostOneRunning ==
    \A t, u \in Triggers : task[t] = "running" /\ task[u] = "running" => t = u

\* No live invocation escapes the guard: it is current_task, or a release()
\* that detached it still waits for it to unwind.
NoDetachedInvocation ==
    \A t \in Triggers :
        task[t] = "running" =>
            \/ current = t
            \/ \E r \in Releases : pc[r] = "cancelling" /\ awaited[r] = t

\* Invocations never overlap and the guard never loses sight of one, in any mode and
\* whatever triggers, releases and done-callbacks interleave (execution_mode.py:131, :136).
TrackedAlone == AtMostOneRunning /\ NoDetachedInvocation

\* A queued factory never waits without a live task whose done-callback will
\* drain it, also when a trigger slips in between a task's end and its
\* callbacks, and the queue respects its cap.
QueueNeverStranded ==
    /\ Len(pending) <= Cap
    /\ pending # <<>> =>
          current # None /\ task[current] \in {"running", "finished"}

\* Accepted into the queue, gone from it and never run: release() discarded it
\* or its factory raised in drain_next.
Discarded(t) ==
    outcome[t] = "QUEUED_ACCEPTED" /\ task[t] = "none" /\ t \notin Queued

\* Every call of run_through_guard and release ends, also when others are cancelled while
\* they wait: nobody hangs on the lock, on a gather or on a completion future, unless its
\* factory raised inside drain_next;
\* and every accepted trigger leaves the queue: it runs or it is discarded.
EveryCallEnds ==
    /\ \A a \in Agents \ Faulty : pc[a] # "idle" ~> pc[a] \in {"returned", "raised", "cancelled"}
    /\ \A t \in Triggers : t \in Queued ~> t \notin Queued

\* The refinement mapping to the guard's promise.
StatusOf(t) ==
    CASE task[t] = "running" -> "running"
      [] task[t] \in {"finished", "settled"} -> "over"
      [] task[t] = "none" /\ t \in Queued -> "waiting"
      [] Discarded(t) -> "discarded"
      [] outcome[t] \in {"SUPPRESSED", "DROPPED"} -> "refused"
      [] pc[t] = "raised" -> "failed"
      [] OTHER -> "new"

Abstract == INSTANCE SerialExecution WITH status <- [t \in Triggers |-> StatusOf(t)]

\* The guard with its lock, futures and callbacks keeps the promise of
\* SerialExecution.
KeepsSerialPromise == Abstract!Spec
=============================================================================
