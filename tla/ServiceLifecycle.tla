-------------------------- MODULE ServiceLifecycle --------------------------
(***************************************************************************)
(* resources/service.py, base.py, lifecycle.py and operations.py: the life *)
(* of one Service that has started.  Several tasks may call initialize()   *)
(* and shutdown() on it: restarts made by the service watcher and the      *)
(* teardown of the whole process.  Each call is a sequence of steps cut at *)
(* its awaits; flags, not a lock, keep the calls apart.                    *)
(***************************************************************************)
EXTENDS Naturals, Sequences, FiniteSets

CONSTANTS
    Restarters,   \* tasks that restart the service: execute_restart(), cooldown_and_retry()
    ReadyIn,      \* where the service calls mark_ready(): "init" or "serve"
    MaxFailures,  \* bound: failures of hooks, dependencies and serve()
    StopFaults,   \* bound: exceptions in shutdown hooks
    MixedFailures \* bound: failures besides such an exception, of a service with children

ASSUME LifecycleAssumption ==
    /\ ReadyIn \in {"init", "serve"}
    /\ MaxFailures \in Nat
    /\ StopFaults \in Nat
    /\ MixedFailures \in Nat
    /\ "teardown" \notin Restarters

VARIABLES
    status,        \* ResourceStatus
    ready,         \* ready_event
    completed,     \* shutdown_completed
    shuttingDown,  \* shutting_down
    initializing,  \* initializing
    serve,         \* the serve tasks, live or not
    current,       \* _serve_task
    at,            \* where each caller is
    events,        \* FAILED and RUNNING events on their way
    closing,       \* hassette.shutdown_event
    children,      \* the service has children; never changes
    failures,      \* failures so far
    stopFaults     \* shutdown hooks that raised so far

lifecycle == <<status, ready, completed, shuttingDown, initializing, serve, current, at,
               events, failures, stopFaults>>

Callers == Restarters \cup {"teardown"}
Tasks == 1..3
Terminal == {"stopped", "dead"}
Live(k) == serve[k] # "none"

Goes(t, step) == at' = [at EXCEPT ![t] = step]

\* Mutant: a serve task that has not begun is not cancelled.
Cancelled_KeepsNew(s) == IF s \in {"up", "works"} THEN "cancelled" ELSE s

\* What _serve_task.cancel() and TaskBucket.cancel_all() do to a serve task: one
\* that has not run yet never enters its body.
Cancelled(s) ==
    CASE s = "new" -> "none" [] s \in {"up", "works"} -> "cancelled" [] OTHER -> s

\* The bounds, on f failures and s shutdown hooks that have raised.
Bounded(f, s) ==
    /\ f <= MaxFailures /\ s <= StopFaults
    /\ children /\ s > 0 => f <= MixedFailures

----------------------------------------------------------------------------
(* lifecycle.py: the status handlers *)

\* handle_failed(), once the status is s and the events on their way are q.
FailsWith(s, q) ==
    IF s \in Terminal \cup {"failed"}
    THEN status' = s /\ events' = q
    ELSE status' = "failed" /\ events' = Append(q, "failed")

FailsFrom(s) == FailsWith(s, events)

Fails ==
    /\ failures' = failures + 1 /\ Bounded(failures', stopFaults)
    /\ FailsFrom(status)
    /\ ready' = IF status \in Terminal \cup {"failed"} THEN ready ELSE FALSE

----------------------------------------------------------------------------
(* Service.shutdown() *)

\* The call that returns at once.
Returns(t) == completed \/ shuttingDown

HookRaises == stopFaults' = stopFaults + 1 /\ Bounded(failures, stopFaults')

\* Up to the wait for the serve task; before_shutdown() may raise.
Stops(t) ==
    /\ at[t] = "stop" /\ ~Returns(t)
    /\ shuttingDown' = TRUE
    /\ ready' = FALSE
    /\ LET s == IF status \in Terminal THEN status ELSE "stopping" IN
       \/ status' = s /\ UNCHANGED <<events, stopFaults>>
       \/ HookRaises /\ FailsFrom(s)
    /\ IF current # 0 /\ Live(current)
       THEN serve' = [serve EXCEPT ![current] = Cancelled(@)] /\ Goes(t, "join")
       ELSE UNCHANGED serve /\ Goes(t, "hooks")
    /\ UNCHANGED <<completed, initializing, current, closing, children, failures>>

Joins(t) ==
    /\ at[t] = "join" /\ ~Live(current)
    /\ Goes(t, "hooks")
    /\ UNCHANGED <<status, ready, completed, shuttingDown, initializing, serve, current, events,
                   closing, children, failures, stopFaults>>

\* on_shutdown() and after_shutdown(); then cleanup() cancels the task bucket, which
\* holds every serve task.
Hooks(t) ==
    /\ at[t] = "hooks"
    /\ \/ UNCHANGED <<status, events, stopFaults>>
       \/ HookRaises /\ FailsFrom(status)
    /\ serve' = [k \in Tasks |-> Cancelled(serve[k])]
    /\ Goes(t, "cleanup")
    /\ UNCHANGED <<ready, completed, shuttingDown, initializing, current, closing, children,
                   failures>>

\* cancel_all() waits for the tasks it has cancelled, not for one spawned meanwhile.
BucketDone == \A k \in Tasks : serve[k] # "cancelled"

\* The end of cleanup(), the children and the STOPPED status.
Finishes(t, next) ==
    /\ at[t] = "cleanup"
    /\ BucketDone
    /\ completed' = TRUE /\ initializing' = FALSE /\ shuttingDown' = FALSE
    /\ status' = "stopped" /\ ready' = FALSE
    /\ Goes(t, next)
    /\ UNCHANGED <<serve, current, events, closing, children, failures, stopFaults>>

\* The finally block of a shutdown() whose hook was cancelled.
Unwinds(t) ==
    /\ at[t] = "unwind"
    /\ BucketDone
    /\ completed' = TRUE /\ initializing' = FALSE /\ shuttingDown' = FALSE
    /\ status' = "stopped" /\ ready' = FALSE
    /\ Goes(t, "off")
    /\ UNCHANGED <<serve, current, events, closing, children, failures, stopFaults>>

----------------------------------------------------------------------------
(* Service.initialize() *)

Initializes(t) ==
    /\ at[t] = "init"
    /\ completed' = FALSE
    /\ IF initializing
       THEN Goes(t, "off") /\ UNCHANGED <<initializing, status>>
       ELSE Goes(t, "deps") /\ initializing' = TRUE /\ status' = "starting"
    /\ UNCHANGED <<ready, shuttingDown, serve, current, events, closing, children,
                   failures, stopFaults>>

\* The dependencies are ready, the wait for them fails, or a shutdown ends it.
Waits(t) ==
    /\ at[t] = "deps"
    /\ \/ /\ ~closing
          /\ Goes(t, "setup")
          /\ UNCHANGED <<status, ready, initializing, events, failures>>
       \/ /\ ~closing
          /\ Fails
          /\ initializing' = FALSE /\ Goes(t, "off")
       \/ /\ closing
          /\ ready' = FALSE /\ initializing' = FALSE /\ Goes(t, "off")
          /\ UNCHANGED <<status, events, failures>>
    /\ UNCHANGED <<completed, shuttingDown, serve, current, closing, children, stopFaults>>

\* before_initialize() and on_initialize() have returned: the serve task is spawned;
\* then the children are initialized, while it begins.
Spawns(t) ==
    /\ at[t] = "setup"
    /\ \E k \in Tasks :
          /\ ~Live(k) /\ \A j \in Tasks : ~Live(j) => k <= j
          /\ serve' = [serve EXCEPT ![k] = "new"]
          /\ current' = k
    /\ ready' = (ready \/ ReadyIn = "init")
    /\ initializing' = children
    /\ Goes(t, IF children THEN "trail" ELSE "off")
    /\ UNCHANGED <<status, completed, shuttingDown, events, closing, children, failures,
                   stopFaults>>

\* The children are initialized, or one of them raises.
Trails(t) ==
    /\ at[t] = "trail"
    /\ initializing' = FALSE
    /\ Goes(t, "off")
    /\ UNCHANGED <<status, ready, completed, shuttingDown, serve, current, events, closing,
                   children, failures, stopFaults>>

\* A hook raises: FAILED, and the exception goes on to the caller.
SetupFails(t) ==
    /\ at[t] = "setup"
    /\ Fails
    /\ initializing' = FALSE
    /\ Goes(t, "off")
    /\ UNCHANGED <<completed, shuttingDown, serve, current, closing, children, stopFaults>>

----------------------------------------------------------------------------
(* Service._serve_wrapper() *)

Begins(k) ==
    /\ serve[k] = "new"
    /\ serve' = [serve EXCEPT ![k] = "up"]
    /\ status' = "running"
    /\ events' = IF status = "running" THEN events ELSE Append(events, "running")
    /\ UNCHANGED <<ready, completed, shuttingDown, initializing, current, at, closing, children,
                   failures, stopFaults>>

\* serve() has connected, opened or started what it is there for.
Works(k) ==
    /\ serve[k] = "up"
    /\ serve' = [serve EXCEPT ![k] = "works"]
    /\ ready' = (ready \/ ReadyIn = "serve")
    /\ UNCHANGED <<status, completed, shuttingDown, initializing, current, at, events, closing,
                   children, failures, stopFaults>>

Raises(k) ==
    /\ serve[k] \in {"up", "works"}
    /\ serve' = [serve EXCEPT ![k] = "none"]
    /\ Fails
    /\ UNCHANGED <<completed, shuttingDown, initializing, current, at, closing, children,
                   stopFaults>>

\* serve() returns: handle_stop().
Completes(k) ==
    /\ serve[k] \in {"up", "works"}
    /\ serve' = [serve EXCEPT ![k] = "none"]
    /\ status' = "stopped" /\ ready' = FALSE
    /\ UNCHANGED <<completed, shuttingDown, initializing, current, at, events, closing,
                   children, failures, stopFaults>>

\* CancelledError: handle_stop().
Ends(k) ==
    /\ serve[k] = "cancelled"
    /\ serve' = [serve EXCEPT ![k] = "none"]
    /\ status' = "stopped" /\ ready' = FALSE
    /\ UNCHANGED <<completed, shuttingDown, initializing, current, at, events,
                   closing, children, failures, stopFaults>>

LifecycleTypeOK ==
    /\ status \in {"starting", "running", "stopping", "stopped", "failed", "cooling", "dead"}
    /\ {ready, completed, shuttingDown, initializing, closing, children} \subseteq BOOLEAN
    /\ serve \in [Tasks -> {"none", "new", "up", "works", "cancelled"}]
    /\ current \in Tasks \cup {0}
    /\ at \in [Callers -> {"off", "new", "sleep", "stop", "join", "hooks", "cleanup", "init",
                           "deps", "setup", "trail", "unwind", "done"}]
    /\ events \in Seq({"failed", "running"})
    /\ failures \in 0..MaxFailures
    /\ stopFaults \in 0..StopFaults
=============================================================================
