---------------------------- MODULE HassetteCore ----------------------------
(***************************************************************************)
(* core/core.py and core/session_manager.py: one process from boot to      *)
(* exit.  run_forever() starts the database, opens a session row and the   *)
(* services, waits for the shutdown event, tears everything down wave by   *)
(* wave and raises FatalError when a fatal reason was recorded.  A crash   *)
(* reaches it as a CRASHED event, served by two listeners: the watcher's   *)
(* records the reason and requests the shutdown, the session manager's     *)
(* writes the failure.  A service whose restarts are exhausted makes the   *)
(* watcher's handler call Hassette.shutdown() itself, next to the one of   *)
(* run_forever().  Session rows outlive the process.                       *)
(***************************************************************************)
EXTENDS Naturals, Sequences, SequencesExt

CONSTANTS
    MaxBoots,    \* bound: processes started one after the other
    MaxCrashes,  \* bound: crashes of services in one process
    Inline       \* a service may exhaust its restarts, or fail fatally

ASSUME CoreAssumption ==
    /\ MaxBoots \in Nat \ {0}
    /\ MaxCrashes \in Nat
    /\ Inline \in BOOLEAN

VARIABLES
    boot,          \* which process this is
    rows,          \* sessions.status of every process's row
    exit,          \* how the process ended
    at,            \* where run_forever() and the watcher's handler are
    fatal,         \* _fatal_shutdown_reason
    closing,       \* shutdown_event
    shuttingDown,  \* shutting_down
    completed,     \* shutdown_completed
    streamsOpen,   \* the event streams
    db,            \* the database service: "down", "up", "draining", "closed"
    queue,         \* its write queue
    failed,        \* the writes of this process that raised
    opened,        \* _session_id is set
    sessionError,  \* _session_error
    lock,          \* who holds _session_lock
    watching,      \* the watcher's listeners are registered
    events,        \* CRASHED events in the stream
    reacting,      \* shutdown_if_crashed() runs that have not reached their body
    recording,     \* on_service_crashed() runs waiting for the lock
    crashes,       \* crashes so far
    runner,        \* who runs the teardown
    knew           \* a fatal reason was recorded when the teardown began

vars == <<boot, rows, exit, at, fatal, closing, shuttingDown, completed, streamsOpen, db,
          queue, failed, opened, sessionError, lock, watching, events, reacting, recording,
          crashes, runner, knew>>
flags == <<shuttingDown, completed, streamsOpen, runner, knew>>
process == <<boot, exit, crashes>>
crash == <<events, reacting, recording>>
session == <<opened, sessionError, lock>>
store == <<rows, queue, failed, db>>

Callers == {"main", "inline"}
Steps == {"idle", "db", "orphans", "session", "waves", "running", "call", "finalize",
          "written", "watcher", "bus", "drain", "exit", "over"}
Statuses == {"none", "running", "failure", "success", "unknown"}
Writes == {"orphans", "create", "crash", "finalize"}
Reasons == {"none", "startup", "exhausted", "crashed"}

Alive == exit = "none"
Moves(a, step) == at' = [at EXCEPT ![a] = step]

\* record_fatal_reason(): the first reason wins.
Because(reason) == IF fatal = "none" THEN reason ELSE fatal

\* Mutant: an old process's session row is left as it is.
Orphaned_Left == rows
\* mark_orphaned_sessions(): rows still "running" belong to processes that died.
Orphaned == [b \in DOMAIN rows |-> IF rows[b] = "running" THEN "unknown" ELSE rows[b]]

\* Mutant: the final write ignores that a crash has been recorded.
FinalStatus_Forgets == IF fatal # "none" THEN "failure" ELSE "success"
\* _do_finalize_session(): evaluated by the worker, when the write runs.
FinalStatus ==
    IF sessionError THEN rows[boot]
    ELSE IF fatal # "none" THEN "failure" ELSE "success"

AtBoot == [a \in Callers |-> IF a = "main" THEN "db" ELSE "idle"]

Init ==
    /\ boot = 1 /\ rows = [b \in 1..MaxBoots |-> "none"]
    /\ exit = "none"
    /\ at = AtBoot
    /\ fatal = "none" /\ closing = FALSE
    /\ shuttingDown = FALSE /\ completed = FALSE /\ streamsOpen = TRUE
    /\ db = "down" /\ queue = <<>> /\ failed = {}
    /\ opened = FALSE /\ sessionError = FALSE /\ lock = "free"
    /\ watching = FALSE /\ events = 0 /\ reacting = 0 /\ recording = 0 /\ crashes = 0
    /\ runner = "none" /\ knew = FALSE

----------------------------------------------------------------------------
(* run_forever(): startup *)

\* Submits a write and waits for it.
Submits(a, write, step) == queue' = Append(queue, write) /\ Moves(a, step)
Done(write) == ~Contains(queue, write)
Written(write) == Done(write) /\ write \notin failed

DatabaseReady ==
    /\ Alive /\ at["main"] = "db"
    /\ db' = "up"
    /\ Submits("main", "orphans", "orphans")
    /\ UNCHANGED <<process, rows, failed, fatal, closing, flags, session, watching, crash>>

OrphansMarked ==
    /\ Alive /\ at["main"] = "orphans" /\ Written("orphans")
    /\ Submits("main", "create", "session")
    /\ UNCHANGED <<process, rows, failed, db, fatal, closing, flags, session, watching, crash>>

\* create_session() stores the row id; submit() raises what the write raised.
SessionCreated ==
    /\ Alive /\ at["main"] = "session" /\ Written("create")
    /\ opened' = TRUE
    /\ Moves("main", "waves")
    /\ UNCHANGED <<process, store, fatal, closing, flags, sessionError, lock, watching, crash>>

\* The bus, the session manager and the watcher are up; apps and web are not.
ListenersRegistered ==
    /\ Alive /\ at["main"] = "waves" /\ ~watching
    /\ watching' = TRUE
    /\ UNCHANGED <<process, store, at, fatal, closing, flags, session, crash>>

Started ==
    /\ Alive /\ at["main"] = "waves" /\ watching
    /\ Moves("main", "running")
    /\ UNCHANGED <<process, store, fatal, closing, flags, session, watching, crash>>

\* The database or a wave does not come up, or the session cannot be created.
StartupFails ==
    /\ Alive
    /\ \/ at["main"] = "db"
       \/ at["main"] \in {"orphans", "session"} /\ failed # {}
       \/ at["main"] = "waves" /\ ~closing
    /\ fatal' = Because("startup")
    /\ Moves("main", "call")
    /\ UNCHANGED <<process, store, closing, flags, session, watching, crash>>

\* wait_for_ready() returns early, or the wait on shutdown_event ends.
SeesShutdown ==
    /\ Alive /\ at["main"] \in {"waves", "running"} /\ closing
    /\ Moves("main", "call")
    /\ UNCHANGED <<process, store, fatal, closing, flags, session, watching, crash>>

----------------------------------------------------------------------------
(* Hassette.shutdown() *)

\* Its finally block, which also runs when the inherited shutdown() returned
\* at once because another caller is in it.
Finally(a) ==
    /\ completed' = TRUE /\ streamsOpen' = FALSE
    /\ Moves(a, IF a = "main" THEN "exit" ELSE "over")

Joins(a) ==
    /\ Alive /\ at[a] = "call" /\ (shuttingDown \/ completed)
    /\ Finally(a)
    /\ UNCHANGED <<process, store, fatal, closing, shuttingDown, runner, knew, session, watching, crash>>

Begins(a) ==
    /\ Alive /\ at[a] = "call" /\ ~shuttingDown /\ ~completed
    /\ shuttingDown' = TRUE /\ closing' = TRUE
    /\ runner' = a /\ knew' = (fatal # "none")
    /\ Moves(a, "finalize")
    /\ UNCHANGED <<process, store, fatal, completed, streamsOpen, session, watching, crash>>

\* before_shutdown(): finalize_session() under the session lock.
Finalizes(a) ==
    /\ Alive /\ at[a] = "finalize" /\ lock = "free"
    /\ \/ /\ opened /\ db = "up"
          /\ lock' = a
          /\ Submits(a, "finalize", "written")
       \/ /\ ~(opened /\ db = "up")
          /\ Moves(a, "watcher")
          /\ UNCHANGED <<lock, queue>>
    /\ UNCHANGED <<process, rows, failed, db, fatal, closing, flags, opened, sessionError, watching, crash>>

Finalized(a) ==
    /\ Alive /\ at[a] = "written" /\ Done("finalize")
    /\ lock' = "free"
    /\ Moves(a, "watcher")
    /\ UNCHANGED <<process, store, fatal, closing, flags, opened, sessionError, watching, crash>>

\* The waves go from the leaves to the roots: the watcher, then the bus, then
\* the session manager and the database.
WatcherStops(a) ==
    /\ Alive /\ at[a] = "watcher"
    /\ watching' = FALSE
    /\ Moves(a, "bus")
    /\ UNCHANGED <<process, store, fatal, closing, flags, session, crash>>

\* BusService's task bucket holds every running handler: they are cancelled, and
\* with them a watcher's handler that is itself in shutdown().
BusStops(a) ==
    /\ Alive /\ at[a] = "bus"
    /\ events' = 0 /\ reacting' = 0 /\ recording' = 0
    /\ lock' = IF lock = "recorder" THEN "free" ELSE lock
    /\ IF a = "inline" THEN Finally(a)
       ELSE /\ at' = [at EXCEPT !["main"] = "drain",
                                !["inline"] = IF @ = "call" THEN "over" ELSE @]
            /\ UNCHANGED <<completed, streamsOpen>>
    /\ UNCHANGED <<process, store, fatal, closing, shuttingDown, runner, knew, opened,
                   sessionError, watching>>

DatabaseDrains ==
    /\ Alive /\ at["main"] = "drain" /\ db = "up"
    /\ db' = "draining"
    /\ UNCHANGED <<process, rows, failed, queue, at, fatal, closing, flags, session, watching, crash>>

\* Mutant: on_shutdown() does not wait for the accepted writes.
DatabaseStops_NoJoin ==
    /\ Alive /\ at["main"] = "drain" /\ db # "up"
    /\ db' = IF db = "draining" THEN "closed" ELSE db
    /\ shuttingDown' = FALSE
    /\ Finally("main")
    /\ UNCHANGED <<process, rows, failed, queue, fatal, closing, runner, knew, session, watching, crash>>

DatabaseStops ==
    /\ Alive /\ at["main"] = "drain" /\ db # "up"
    /\ queue = <<>>
    /\ db' = IF db = "draining" THEN "closed" ELSE db
    /\ shuttingDown' = FALSE
    /\ Finally("main")
    /\ UNCHANGED <<process, rows, failed, queue, fatal, closing, runner, knew, session, watching, crash>>

\* run_forever() raises FatalError or returns; asyncio.run() then cancels
\* whatever is still running.
Exits ==
    /\ Alive /\ at["main"] = "exit"
    /\ exit' = IF fatal # "none" THEN "one" ELSE "zero"
    /\ UNCHANGED <<boot, crashes, store, at, fatal, closing, flags, session, watching, crash>>

----------------------------------------------------------------------------
(* The database's writer and what happens to the process *)

\* The worker runs the next write, which may raise: of a crash and of the final
\* write the exception is logged and the transaction rolled back.
WriteRuns ==
    /\ Alive /\ queue # <<>> /\ db \in {"up", "draining"}
    /\ queue' = Tail(queue)
    /\ LET write == Head(queue) IN
       \/ failed' = failed \cup {write} /\ UNCHANGED rows
       \/ /\ UNCHANGED failed
          /\ rows' = CASE write = "orphans" -> Orphaned
                       [] write = "create" -> [rows EXCEPT ![boot] = "running"]
                       [] write = "crash" -> [rows EXCEPT ![boot] = "failure"]
                       [] write = "finalize" -> [rows EXCEPT ![boot] = FinalStatus]
    /\ UNCHANGED <<process, db, at, fatal, closing, flags, session, watching, crash>>

\* SIGTERM.
Terminated ==
    /\ Alive /\ ~closing
    /\ closing' = TRUE
    /\ UNCHANGED <<process, store, at, fatal, flags, session, watching, crash>>

\* Power loss, SIGKILL, the out-of-memory killer.
Killed ==
    /\ Alive
    /\ exit' = "killed"
    /\ UNCHANGED <<boot, crashes, store, at, fatal, closing, flags, session, watching, crash>>

\* The supervisor starts the next process.
Restarts ==
    /\ ~Alive /\ boot < MaxBoots
    /\ boot' = boot + 1 /\ exit' = "none"
    /\ at' = AtBoot
    /\ fatal' = "none" /\ closing' = FALSE
    /\ shuttingDown' = FALSE /\ completed' = FALSE /\ streamsOpen' = TRUE
    /\ db' = "down" /\ queue' = <<>> /\ failed' = {}
    /\ opened' = FALSE /\ sessionError' = FALSE /\ lock' = "free"
    /\ watching' = FALSE /\ events' = 0 /\ reacting' = 0 /\ recording' = 0 /\ crashes' = 0
    /\ runner' = "none" /\ knew' = FALSE
    /\ UNCHANGED rows

----------------------------------------------------------------------------
(* Crashes *)

\* Mutant: the event is sent once by the handler and once by its caller.
Crashes_Twice ==
    /\ Alive /\ watching /\ crashes < MaxCrashes
    /\ crashes' = crashes + 1
    /\ events' = IF streamsOpen THEN events + 2 ELSE events
    /\ UNCHANGED <<boot, exit, store, at, fatal, closing, flags, session, watching, reacting, recording>>

\* A serve() loop raised a FatalError: handle_crash() sends CRASHED.
Crashes ==
    /\ Alive /\ watching /\ crashes < MaxCrashes
    /\ crashes' = crashes + 1
    /\ events' = IF streamsOpen THEN events + 1 ELSE events
    /\ UNCHANGED <<boot, exit, store, at, fatal, closing, flags, session, watching, reacting, recording>>

\* restart_service() of the watcher: a fatal error, or a PERMANENT service out of
\* restarts.  The handler records why, sends CRASHED and calls shutdown().
Exhausts ==
    /\ Alive /\ Inline /\ watching /\ at["inline"] = "idle" /\ at["main"] # "exit"
    /\ fatal' = Because("exhausted")
    /\ events' = IF streamsOpen THEN events + 1 ELSE events
    /\ Moves("inline", "call")
    /\ UNCHANGED <<process, store, closing, flags, session, watching, reacting, recording>>

\* The bus starts one task per listener.
Delivered ==
    /\ Alive /\ events > 0
    /\ events' = events - 1
    /\ reacting' = IF watching THEN reacting + 1 ELSE reacting
    /\ recording' = recording + 1
    /\ UNCHANGED <<process, store, at, fatal, closing, flags, session, watching>>

\* Mutant: the reason is recorded but no shutdown is requested.
Reacts_RecordsOnly ==
    /\ Alive /\ reacting > 0
    /\ reacting' = reacting - 1
    /\ fatal' = Because("crashed")
    /\ UNCHANGED <<process, store, at, closing, flags, session, watching, events, recording>>

\* shutdown_if_crashed().
Reacts ==
    /\ Alive /\ reacting > 0
    /\ reacting' = reacting - 1
    /\ fatal' = Because("crashed")
    /\ closing' = TRUE
    /\ UNCHANGED <<process, store, at, flags, session, watching, events, recording>>

\* on_service_crashed(), from the lock to its end or to submit().
Records ==
    /\ Alive /\ recording > 0 /\ lock = "free"
    /\ recording' = recording - 1
    /\ \/ /\ opened /\ db = "up"
          /\ sessionError' = TRUE
          /\ lock' = "recorder"
          /\ queue' = Append(queue, "crash")
       \/ /\ ~(opened /\ db = "up")
          /\ UNCHANGED <<sessionError, lock, queue>>
    /\ UNCHANGED <<process, rows, failed, db, at, fatal, closing, flags, opened, watching, events, reacting>>

Recorded ==
    /\ Alive /\ lock = "recorder" /\ Done("crash")
    /\ lock' = "free"
    /\ UNCHANGED <<process, store, at, fatal, closing, flags, opened, sessionError, watching, crash>>

----------------------------------------------------------------------------
Over == ~Alive /\ boot = MaxBoots /\ UNCHANGED vars

Teardown(a) ==
    Joins(a) \/ Begins(a) \/ Finalizes(a) \/ Finalized(a) \/ WatcherStops(a) \/ BusStops(a)

\* What the event loop and the database thread carry out by themselves.
System ==
    \/ DatabaseReady \/ OrphansMarked \/ SessionCreated \/ ListenersRegistered \/ Started
    \/ SeesShutdown \/ DatabaseDrains \/ DatabaseStops \/ Exits \/ WriteRuns
    \/ \E a \in Callers : Teardown(a)
    \/ Delivered \/ Reacts \/ Records \/ Recorded

Next ==
    \/ System
    \/ StartupFails \/ Terminated \/ Killed \/ Restarts \/ Crashes \/ Exhausts
    \/ Over

Spec == Init /\ [][Next]_vars

\* run_forever() is one task, the writer another, and each handler its own.
MainStep ==
    \/ DatabaseReady \/ OrphansMarked \/ SessionCreated \/ ListenersRegistered \/ Started
    \/ SeesShutdown \/ StartupFails \/ DatabaseDrains \/ DatabaseStops \/ Exits \/ Teardown("main")
Fairness ==
    /\ WF_vars(MainStep) /\ WF_vars(Teardown("inline")) /\ WF_vars(WriteRuns)
    /\ WF_vars(Delivered) /\ WF_vars(Reacts) /\ WF_vars(Records) /\ WF_vars(Recorded)

FairSpec == Spec /\ Fairness

----------------------------------------------------------------------------
(* Properties *)

ProcessType ==
    /\ boot \in 1..MaxBoots /\ rows \in [1..MaxBoots -> Statuses]
    /\ exit \in {"none", "zero", "one", "killed"}
    /\ at \in [Callers -> Steps]
    /\ fatal \in Reasons
FlagsType ==
    /\ closing \in BOOLEAN /\ shuttingDown \in BOOLEAN /\ completed \in BOOLEAN
    /\ streamsOpen \in BOOLEAN /\ opened \in BOOLEAN /\ sessionError \in BOOLEAN
    /\ watching \in BOOLEAN /\ knew \in BOOLEAN
StoreType ==
    /\ db \in {"down", "up", "draining", "closed"}
    /\ queue \in Seq(Writes) /\ failed \subseteq Writes
    /\ lock \in Callers \cup {"free", "recorder"}
    /\ runner \in Callers \cup {"none"}
CrashType ==
    /\ crashes \in 0..MaxCrashes
    /\ events \in 0..(MaxCrashes + 1) /\ reacting \in 0..(MaxCrashes + 1)
    /\ recording \in 0..(MaxCrashes + 1)

\* Every variable has its type; in particular a crash is announced once, to each
\* of its two listeners (lifecycle.py:214, service_watcher.py:598).
TypeOK == ProcessType /\ FlagsType /\ StoreType /\ CrashType

Exited == exit \in {"zero", "one"}

\* When run_forever() ran the teardown itself, every accepted write was carried
\* out; unless one of the last writes failed, the session row has a final status,
\* and it says failure whenever a fatal reason was known (core.py:698,
\* session_manager.py:265).
TeardownRecorded ==
    Exited /\ runner = "main" =>
        /\ queue = <<>>
        /\ opened /\ failed = {} => rows[boot] # "running"
        /\ opened /\ failed = {} /\ knew => rows[boot] = "failure"

\* Whatever the order of the crash handlers and the teardown, a row that says
\* failure is never turned into another, in the process that wrote it or in a
\* later one (session_manager.py:270).
FailureSticks == [][\A b \in 1..MaxBoots : rows[b] = "failure" => rows'[b] = "failure"]_vars

\* After a kill the next process settles the row that was left running: once its
\* own session is open no other row says running, also when the write that
\* settles it fails (session_manager.py:76).
OneRunningSession == opened => \A b \in 1..MaxBoots : rows[b] = "running" => b = boot

\* A requested shutdown ends the process, and a recorded fatal reason ends it with
\* a non-zero code, without any of the timeouts (core.py:698).
EveryShutdownEnds ==
    /\ closing ~> ~Alive
    /\ (fatal # "none") ~> (exit \in {"one", "killed"} \/ fatal = "none")

\* A process that ends with a fatal reason has recorded a failure in its session
\* (docs/pages/web-ui/health-endpoints.md:73).
FatalRecorded == exit = "one" /\ opened => rows[boot] = "failure"
=============================================================================
