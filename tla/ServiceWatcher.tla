--------------------------- MODULE ServiceWatcher ---------------------------
(***************************************************************************)
(* core/service_watcher.py: the supervision of one TRANSIENT service.  A   *)
(* FAILED event starts a restart after a backoff, while the budget lasts;  *)
(* then the service cools down and is tried again.  A RUNNING event starts *)
(* a wait for readiness that resets the budget.  The teardown cancels the  *)
(* watcher's tasks and stops the service, in the order of the waves.       *)
(***************************************************************************)
EXTENDS ServiceLifecycle, FiniteSetsExt

CONSTANTS
    Intensity,  \* budget_intensity
    MaxCycles,  \* max_cooldown_cycles, 0 for no limit
    Wave,       \* the service stops "before", "with" or "after" the watcher
    Early       \* the service runs before the watcher listens

ASSUME WatcherAssumption ==
    /\ Intensity \in Nat \ {0}
    /\ MaxCycles \in Nat
    /\ Wave \in {"before", "with", "after"} /\ Early \in BOOLEAN
    /\ {"cooldown", "replaced"} \subseteq Restarters

VARIABLES
    watching,    \* the watcher's listeners: "before", "up", "stopping", "stopped"
    restarting,  \* the service's key is in _restarting
    budgeted,    \* the service has an entry in _budgets
    budget,      \* restarts recorded in it
    cycles,      \* _cooldown_cycles
    waiters,     \* await_service_readiness() tasks
    woken,       \* those of them whose wait is over, and that have not run yet
    tries        \* restarts since serve() last got to work, of this window

watcher == <<watching, restarting, budgeted, budget, cycles, waiters, woken, tries>>
vars == <<lifecycle, closing, children, watcher>>

\* The tasks of cooldown_and_retry(), the last one and one that it has replaced, and
\* those of execute_restart().
Cooldowns == {"cooldown", "replaced"}
Restarts == Restarters \ Cooldowns
Idle == {t \in Restarts : at[t] = "off"}
Busy == {t \in Restarters : at[t] # "off"}

Init ==
    /\ status = "running" /\ ready = TRUE
    /\ completed = FALSE /\ shuttingDown = FALSE /\ initializing = FALSE
    /\ serve = [k \in Tasks |-> IF k = 1 THEN "works" ELSE "none"] /\ current = 1
    /\ at = [t \in Callers |-> "off"]
    /\ events = <<>> /\ closing = FALSE /\ children \in BOOLEAN /\ failures = 0 /\ stopFaults = 0
    /\ watching = (IF Early THEN "before" ELSE "up")
    /\ restarting = FALSE /\ budgeted = FALSE /\ budget = 0 /\ cycles = 0
    /\ waiters = 0 /\ woken = 0 /\ tries = 0

----------------------------------------------------------------------------
(* The handlers of the watcher; each runs to its end in one step *)

\* The oldest event reaches its handler.  It passes a stream and the bus: a waiter that
\* was woken before the event was sent has run.
Arrives(event) == events # <<>> /\ Head(events) = event /\ woken = 0
Receives(event) == Arrives(event) /\ events' = Tail(events)

\* Where cancel() leaves a restart.  The wait for the serve task swallows the
\* cancellation; the finally of shutdown() still runs after a hook, but not when it is
\* itself cut off.
Interrupted(step) ==
    CASE step \in {"off", "join"} -> step
      [] step = "hooks" -> "unwind"
      [] OTHER -> "off"

\* What the cancelled restarts ts do to the service, whose status is s, and to the events q.
Interrupts(ts, s, q) ==
    LET Cut(steps) == \E t \in ts : at[t] \in steps IN
    /\ initializing' = (initializing /\ ~Cut({"deps", "setup", "trail"}))
    /\ IF Cut({"setup", "hooks"})
       THEN FailsWith(s, q) /\ ready' = FALSE
       ELSE status' = s /\ events' = q /\ UNCHANGED ready
    /\ serve' = [k \in Tasks |-> IF Cut({"hooks"}) THEN Cancelled(serve[k]) ELSE serve[k]]

\* ready_event.set(): the waits for it are over.
Wakened == woken' = IF ready' /\ ~ready THEN waiters ELSE woken

\* No listener yet, or no longer.
Unheard ==
    /\ watching # "up" /\ events # <<>> /\ events' = Tail(events)
    /\ UNCHANGED <<status, ready, completed, shuttingDown, initializing, serve, current, at,
                   failures, stopFaults, closing, children, watcher>>

\* restart_service(), while a restart is in progress: the event is dropped.
Duplicate ==
    /\ watching = "up" /\ Receives("failed") /\ restarting
    /\ UNCHANGED <<status, ready, completed, shuttingDown, initializing, serve, current, at,
                   failures, stopFaults, closing, children, watcher>>

\* Mutant: is_exhausted() allows one restart too many.
Accepts_OneMore ==
    /\ watching = "up" /\ Receives("failed") /\ ~restarting /\ budget <= Intensity
    /\ restarting' = TRUE /\ budgeted' = TRUE /\ budget' = budget + 1 /\ tries' = tries + 1
    /\ Idle # {} /\ Goes(CHOOSE t \in Idle : TRUE, "sleep")
    /\ UNCHANGED <<status, ready, completed, shuttingDown, initializing, serve, current,
                   failures, stopFaults, closing, children, watching, cycles, waiters, woken>>

\* restart_service(), within the budget.
Accepts ==
    /\ watching = "up" /\ Receives("failed") /\ ~restarting /\ budget < Intensity
    /\ restarting' = TRUE /\ budgeted' = TRUE /\ budget' = budget + 1 /\ tries' = tries + 1
    /\ Idle # {} /\ Goes(CHOOSE t \in Idle : TRUE, "sleep")
    /\ UNCHANGED <<status, ready, completed, shuttingDown, initializing, serve, current,
                   failures, stopFaults, closing, children, watching, cycles, waiters, woken>>

\* Mutant: a service that has cooled down once gets no second cooldown.
Exhausts_Once ==
    /\ watching = "up" /\ Receives("failed") /\ ~restarting /\ budget = Intensity
    /\ status' = "cooling"
    /\ IF cycles = 0 THEN Goes("cooldown", "new") ELSE UNCHANGED at
    /\ UNCHANGED <<ready, completed, shuttingDown, initializing, serve, current, failures,
                   stopFaults, closing, children, watcher>>

\* handle_exhaustion() of a TRANSIENT service: a new cooldown replaces an old one,
\* which is cancelled, asleep or in the middle of its restart.
Exhausts ==
    /\ watching = "up" /\ Arrives("failed") /\ ~restarting /\ budget = Intensity
    /\ \/ /\ at["cooldown"] \in {"off", "new", "sleep"}
          /\ status' = "cooling" /\ events' = Tail(events)
          /\ Goes("cooldown", "new")
          /\ UNCHANGED <<ready, initializing, serve>>
       \/ /\ at["cooldown"] \notin {"off", "new", "sleep"} /\ at["replaced"] = "off"
          /\ at' = [at EXCEPT !["cooldown"] = "new", !["replaced"] = Interrupted(at["cooldown"])]
          /\ Interrupts({"cooldown"}, "cooling", Tail(events))
    /\ UNCHANGED <<completed, shuttingDown, current, failures, stopFaults, closing, children,
                   watcher>>

\* on_service_running().
HearsRunning ==
    /\ watching = "up" /\ Receives("running")
    /\ waiters' = IF budgeted \/ restarting THEN waiters + 1 ELSE waiters
    /\ UNCHANGED <<status, ready, completed, shuttingDown, initializing, serve, current, at,
                   failures, stopFaults, closing, children, watching, restarting, budgeted,
                   budget, cycles, woken, tries>>

\* Mutant: RUNNING is taken for ready.
SeesReady_Running ==
    /\ waiters > 0
    /\ waiters' = waiters - 1 /\ woken' = (IF woken > 0 THEN woken - 1 ELSE 0)
    /\ budget' = 0 /\ restarting' = FALSE
    /\ UNCHANGED <<lifecycle, closing, children, watching, budgeted, cycles, tries>>

\* await_service_readiness(), at the readiness and at its timeout.  A waiter that was
\* woken goes on, ready or not by then, unless it times out at that moment.
SeesReady ==
    /\ waiters > 0 /\ (ready \/ woken > 0)
    /\ waiters' = waiters - 1 /\ woken' = (IF woken > 0 THEN woken - 1 ELSE 0)
    /\ budget' = 0 /\ restarting' = FALSE
    /\ UNCHANGED <<lifecycle, closing, children, watching, budgeted, cycles, tries>>

ReadyTimesOut ==
    /\ waiters > 0
    /\ \/ waiters > woken /\ ~ready /\ UNCHANGED woken
       \/ woken > 0 /\ woken' = woken - 1
    /\ waiters' = waiters - 1
    /\ UNCHANGED <<lifecycle, closing, children, watching, restarting, budgeted, budget, cycles,
                   tries>>

\* The oldest restart leaves the budget's window.
Expires ==
    /\ budget > 0
    /\ budget' = budget - 1 /\ tries' = IF tries > 0 THEN tries - 1 ELSE 0
    /\ UNCHANGED <<lifecycle, closing, children, watching, restarting, budgeted, cycles, waiters,
                   woken>>

----------------------------------------------------------------------------
(* execute_restart() and cooldown_and_retry() *)

\* The end of a task: the finally of execute_restart().
Leaves(t) == restarting' = (restarting /\ t \in Cooldowns)

CooldownBegins ==
    /\ at["cooldown"] = "new"
    /\ cycles' = IF MaxCycles > 0 THEN cycles + 1 ELSE 0
    /\ IF MaxCycles > 0 /\ cycles >= MaxCycles
       THEN Goes("cooldown", "off") /\ status' = "dead"
       ELSE Goes("cooldown", "sleep") /\ UNCHANGED status
    /\ UNCHANGED <<ready, completed, shuttingDown, initializing, serve, current, events,
                   failures, stopFaults, closing, children, watching, restarting, budgeted, budget,
                   waiters, woken, tries>>

\* The backoff or the cooldown is over.
Wakes(t) ==
    /\ at[t] = "sleep" /\ ~closing
    /\ Goes(t, "stop")
    /\ IF t \in Cooldowns THEN budget' = 0 /\ tries' = 0 ELSE UNCHANGED <<budget, tries>>
    /\ UNCHANGED <<status, ready, completed, shuttingDown, initializing, serve, current, events,
                   failures, stopFaults, closing, children, watching, restarting, budgeted, cycles,
                   waiters, woken>>

\* shutdown_safe_sleep() is interrupted by the shutdown.
Aborts(t) ==
    /\ at[t] = "sleep" /\ closing
    /\ Goes(t, "off") /\ Leaves(t)
    /\ UNCHANGED <<status, ready, completed, shuttingDown, initializing, serve, current, events,
                   failures, stopFaults, closing, children, watching, budgeted, budget, cycles, waiters,
                   woken, tries>>

\* restart(): shutdown() returned at once.
Skips(t) ==
    /\ at[t] = "stop" /\ Returns(t)
    /\ Goes(t, "init")
    /\ UNCHANGED <<status, ready, completed, shuttingDown, initializing, serve, current, events,
                   failures, stopFaults, closing, children, watcher>>

\* Mutant: the mark is removed only when restart() has not raised.
Restart_KeepsMark(t) ==
    \/ (Stops(t) \/ Joins(t) \/ Hooks(t) \/ Finishes(t, "init")) /\ UNCHANGED watcher
    \/ Skips(t)
    \/ Unwinds(t) /\ UNCHANGED watcher
    \/ /\ Initializes(t) \/ Waits(t) \/ Spawns(t) \/ Trails(t) \/ SetupFails(t)
       /\ restarting' = (restarting /\ ~(at'[t] = "off" /\ failures' = failures))
       /\ Wakened
       /\ UNCHANGED <<watching, budgeted, budget, cycles, waiters, tries>>

\* A step of restart() that goes on, and one that may end the task.
Restart(t) ==
    \/ (Stops(t) \/ Joins(t) \/ Hooks(t) \/ Finishes(t, "init")) /\ UNCHANGED watcher
    \/ Skips(t)
    \/ Unwinds(t) /\ Leaves(t)
                  /\ UNCHANGED <<watching, budgeted, budget, cycles, waiters, woken, tries>>
    \/ /\ Initializes(t) \/ Waits(t) \/ Spawns(t) \/ Trails(t) \/ SetupFails(t)
       /\ restarting' = (restarting /\ (at'[t] # "off" \/ t \in Cooldowns))
       /\ Wakened
       /\ UNCHANGED <<watching, budgeted, budget, cycles, waiters, tries>>

----------------------------------------------------------------------------
(* The service's own task *)

Serves(k) ==
    \/ (Begins(k) \/ Ends(k)) /\ UNCHANGED watcher
    \/ /\ Works(k) /\ Wakened /\ tries' = 0
       /\ UNCHANGED <<watching, restarting, budgeted, budget, cycles, waiters>>

Breaks(k) == (Raises(k) \/ Completes(k)) /\ UNCHANGED watcher

----------------------------------------------------------------------------
(* Startup and teardown *)

WatcherListens ==
    /\ watching = "before" /\ watching' = "up"
    /\ UNCHANGED <<lifecycle, closing, children, restarting, budgeted, budget, cycles, waiters,
                   woken, tries>>

Closes ==
    /\ ~closing /\ closing' = TRUE
    /\ UNCHANGED <<lifecycle, children, watcher>>

\* The watcher's task bucket is cancelled.
WatcherStops ==
    /\ closing /\ watching = "up"
    /\ Wave = "before" => at["teardown"] = "done"
    /\ watching' = "stopping" /\ waiters' = 0 /\ woken' = 0
    /\ at' = [t \in Callers |-> IF t \in Restarters THEN Interrupted(at[t]) ELSE at[t]]
    /\ Interrupts(Restarters, status, events)
    /\ restarting' = (\E t \in Restarts : at'[t] # "off")
    /\ UNCHANGED <<completed, shuttingDown, current, failures, stopFaults, closing, children,
                   budgeted, budget, cycles, tries>>

\* cancel_all() waits for the tasks.
WatcherStopped ==
    /\ watching = "stopping" /\ Busy = {}
    /\ watching' = "stopped"
    /\ UNCHANGED <<lifecycle, closing, children, restarting, budgeted, budget, cycles, waiters,
                   woken, tries>>

TeardownBegins ==
    /\ closing /\ at["teardown"] = "off"
    /\ Wave = "after" => watching = "stopped"
    /\ Goes("teardown", "stop")
    /\ UNCHANGED <<status, ready, completed, shuttingDown, initializing, serve, current, events,
                   failures, stopFaults, closing, children, watcher>>

TeardownSkips ==
    /\ at["teardown"] = "stop" /\ Returns("teardown")
    /\ Goes("teardown", "done")
    /\ UNCHANGED <<status, ready, completed, shuttingDown, initializing, serve, current, events,
                   failures, stopFaults, closing, children, watcher>>

Teardown ==
    \/ TeardownBegins \/ TeardownSkips
    \/ /\ \/ Stops("teardown") \/ Joins("teardown") \/ Hooks("teardown")
          \/ Finishes("teardown", "done")
       /\ UNCHANGED watcher

----------------------------------------------------------------------------
Handlers ==
    \/ Unheard \/ Duplicate \/ Accepts \/ Exhausts \/ HearsRunning
    \/ SeesReady \/ CooldownBegins

Runs(t) == Wakes(t) \/ Aborts(t) \/ Restart(t)

Over == at["teardown"] = "done" /\ watching = "stopped" /\ UNCHANGED vars

Next ==
    \/ Handlers \/ ReadyTimesOut \/ Expires
    \/ \E t \in Restarters : Runs(t)
    \/ \E k \in Tasks : Serves(k) \/ Breaks(k)
    \/ WatcherListens \/ Closes \/ WatcherStops \/ WatcherStopped \/ Teardown
    \/ Over

Spec == Init /\ [][Next]_vars

\* Handlers, restarts, serve tasks and the teardown are tasks of the event loop,
\* the sleeps end; nothing makes a serve() fail or a shutdown to be requested.
Fairness ==
    /\ WF_vars(Handlers)
    /\ \A t \in Restarters : WF_vars(Runs(t))
    /\ \A k \in Tasks : WF_vars(Serves(k))
    /\ WF_vars(WatcherListens) /\ WF_vars(WatcherStops) /\ WF_vars(WatcherStopped)
    /\ WF_vars(Teardown)

FairSpec == Spec /\ Fairness

----------------------------------------------------------------------------
(* Properties *)

\* Every variable has its type.
TypeOK ==
    /\ LifecycleTypeOK
    /\ watching \in {"before", "up", "stopping", "stopped"}
    /\ {restarting, budgeted} \subseteq BOOLEAN
    /\ budget \in 0..Intensity /\ cycles \in Nat
    /\ waiters \in Nat /\ woken \in Nat /\ tries \in Nat

InRestart(t) == at[t] \notin {"off", "new", "sleep", "trail"}

\* At most one restart of the service is in progress, whoever makes it, and at most
\* one serve task lives.  A restart that only initializes the children is not counted:
\* the service has its new serve task by then.
RestartsExclusive ==
    /\ Cardinality({t \in Restarters : InRestart(t)}) <= 1
    /\ Cardinality({k \in Tasks : Live(k)}) <= 1

\* A service that the watcher has given up, for a while or for good, does not run,
\* and one that cools down has a cooldown to wait for.
ExhaustedQuiet ==
    /\ status \in {"cooling", "dead"} => \A k \in Tasks : ~Live(k)
    /\ status = "cooling" /\ ~closing => at["cooldown"] # "off"

\* Once the teardown has stopped the service it runs no more, whatever restart it has
\* met (service.py:135, core.py:728).
StoppedStays == at["teardown"] = "done" => \A k \in Tasks : ~Live(k)

\* As long as no shutdown hook raises, a restart after a cooldown, which is not
\* marked, FAILED events at any time and the teardown never lead to two restarts at
\* once or to a given-up or stopped service that runs (service_watcher.py:318).
RestartsSound == stopFaults = 0 => RestartsExclusive /\ ExhaustedQuiet /\ StoppedStays

\* However the events and readiness waits are interleaved, a service that does not get
\* to work is not restarted more often than its budget allows, as long as no shutdown
\* hook raises (docs/pages/operating/index.md:33).
RestartsRationed == stopFaults = 0 => tries <= Intensity

\* A service does not stay FAILED (docs/pages/core-concepts/internals/lifecycle.md:98).
FailedIsTransient == (status = "failed") ~> (status # "failed" \/ closing)

\* That is so when it has not failed before the watcher listens, nor while its restart
\* still initializes its children, and no shutdown hook has raised: no other failure of
\* a new attempt is dropped as a duplicate for good (service_watcher.py:371).
FailureActedOn ==
    []( /\ watching = "before" => status # "failed"
        /\ \A t \in Restarters : at[t] = "trail" => status # "failed"
        /\ stopFaults = 0) => FailedIsTransient

\* The teardown comes to its end, whatever restart it meets (service_watcher.py:413).
TeardownEnds == closing ~> (at["teardown"] = "done" /\ watching = "stopped")
=============================================================================
