------------------------- MODULE HassetteCoreProofs -------------------------
(***************************************************************************)
(* Proofs about HassetteCore for any number of boots and crashes, with or  *)
(* without exhausted restarts: the types, that a recorded failure is never *)
(* overwritten, that no dead process's session is left running, and that a *)
(* teardown which reaches its end has recorded the session's outcome.      *)
(***************************************************************************)
EXTENDS HassetteCore, SequenceTheorems, TLAPS

----------------------------------------------------------------------------
(* Types *)

\* A step of a caller leads to a step, and never back to "idle".
LEMMA MovesType ==
  ASSUME TypeOK, NEW a \in Callers, NEW step \in Steps \ {"idle"}, Moves(a, step)
  PROVE  at' \in [Callers -> Steps] /\ (at'["inline"] = "idle" => at["inline"] = "idle")
BY DEF TypeOK, ProcessType, StoreType, Moves, Callers

LEMMA SubmitsType ==
  ASSUME TypeOK, NEW a \in Callers, NEW step \in Steps \ {"idle"}, NEW write \in Writes,
         Submits(a, write, step)
  PROVE  /\ queue' \in Seq(Writes)
         /\ at' \in [Callers -> Steps]
         /\ at'["inline"] = "idle" => at["inline"] = "idle"
BY MovesType DEF TypeOK, ProcessType, StoreType, Submits

LEMMA FinallyType ==
  ASSUME TypeOK, NEW a \in Callers, Finally(a)
  PROVE  /\ at' \in [Callers -> Steps]
         /\ at'["inline"] = "idle" => at["inline"] = "idle"
         /\ completed' = TRUE /\ streamsOpen' = FALSE
<1>1. (IF a = "main" THEN "exit" ELSE "over") \in Steps \ {"idle"}
  BY DEF Steps
<1> QED BY <1>1, MovesType DEF Finally

\* A write that runs leaves the rows well typed.
LEMMA WriteRunsType ==
  ASSUME TypeOK, WriteRuns
  PROVE  /\ rows' \in [1..MaxBoots -> Statuses]
         /\ queue' \in Seq(Writes)
         /\ failed' \subseteq Writes
<1>1. Head(queue) \in Writes /\ Tail(queue) \in Seq(Writes)
  BY HeadTailProperties DEF TypeOK, ProcessType, StoreType, WriteRuns
<1>2. Orphaned \in [1..MaxBoots -> Statuses]
  BY DEF TypeOK, ProcessType, StoreType, Orphaned, Statuses
<1>3. FinalStatus \in Statuses
  BY DEF TypeOK, ProcessType, StoreType, FinalStatus, Statuses
<1>4. \A s \in Statuses : [rows EXCEPT ![boot] = s] \in [1..MaxBoots -> Statuses]
  BY DEF TypeOK, ProcessType, StoreType
<1>5. "running" \in Statuses /\ "failure" \in Statuses
  BY DEF Statuses
<1>6. rows' = rows \/ rows' \in [1..MaxBoots -> Statuses]
  BY <1>1, <1>2, <1>3, <1>4, <1>5 DEF WriteRuns, Writes
<1> QED BY <1>1, <1>6 DEF TypeOK, ProcessType, StoreType, WriteRuns

\* Callers go from step to step; only a new process puts one back to "idle".
LEMMA AtStep ==
  ASSUME TypeOK, [Next]_vars
  PROVE  /\ at' \in [Callers -> Steps]
         /\ at'["inline"] = "idle" => at["inline"] = "idle" \/ Restarts
<1> USE DEF TypeOK, ProcessType
<1>a. /\ "main" \in Callers /\ "inline" \in Callers
      /\ Steps \ {"idle"} = {"db", "orphans", "session", "waves", "running", "call", "finalize",
                              "written", "watcher", "bus", "drain", "exit", "over"}
      /\ Writes = {"orphans", "create", "crash", "finalize"}
  BY DEF Callers, Steps, Writes
<1>1. CASE DatabaseReady \/ OrphansMarked
  BY <1>1, <1>a, SubmitsType DEF DatabaseReady, OrphansMarked
<1>2. CASE SessionCreated \/ Started \/ SeesShutdown \/ StartupFails \/ Exhausts
  BY <1>2, <1>a, MovesType DEF SessionCreated, Started, SeesShutdown, StartupFails, Exhausts
<1>3. CASE DatabaseStops
  BY <1>3, <1>a, FinallyType DEF DatabaseStops
<1>4. ASSUME NEW a \in Callers, Teardown(a)
      PROVE  at' \in [Callers -> Steps] /\ (at'["inline"] = "idle" => at["inline"] = "idle")
  <2>1. CASE Joins(a)
    BY <2>1, FinallyType DEF Joins
  <2>2. CASE Begins(a) \/ Finalized(a) \/ WatcherStops(a)
    BY <2>2, <1>a, MovesType DEF Begins, Finalized, WatcherStops
  <2>3. CASE Finalizes(a)
    BY <2>3, <1>a, MovesType, SubmitsType DEF Finalizes
  <2>4. CASE BusStops(a)
    <3>1. CASE a = "inline"
      BY <2>4, <3>1, FinallyType DEF BusStops
    <3>2. CASE a # "inline"
      BY <2>4, <3>2 DEF BusStops, Callers, Steps
    <3> QED BY <3>1, <3>2
  <2> QED BY <1>4, <2>1, <2>2, <2>3, <2>4 DEF Teardown
<1>5. CASE Restarts
  BY <1>5 DEF Restarts, AtBoot, Callers, Steps
<1>6. CASE \/ UNCHANGED vars \/ ListenersRegistered \/ DatabaseDrains \/ Exits \/ WriteRuns
           \/ Delivered \/ Reacts \/ Records \/ Recorded \/ Terminated \/ Killed \/ Crashes
  BY <1>6 DEF vars, ListenersRegistered, DatabaseDrains, Exits, WriteRuns, Delivered, Reacts,
              Records, Recorded, Terminated, Killed, Crashes, process, store, crash
<1> QED BY <1>1, <1>2, <1>3, <1>4, <1>5, <1>6 DEF Next, System, Over

\* Only the database's worker changes a row.
LEMMA RowsChange == [Next]_vars => WriteRuns \/ UNCHANGED rows
BY DEF Next, System, Over, Finally, process, crash, session, store, flags, vars, DatabaseReady,
       OrphansMarked, SessionCreated, ListenersRegistered, Started, SeesShutdown, DatabaseDrains,
       DatabaseStops, Exits, WriteRuns, Teardown, Joins, Begins, Finalizes, Finalized, WatcherStops,
       BusStops, Delivered, Reacts, Records, Recorded, StartupFails, Terminated, Killed, Restarts,
       Crashes, Exhausts

LEMMA ProcessStep == TypeOK /\ [Next]_vars => ProcessType'
<1> SUFFICES ASSUME TypeOK, [Next]_vars PROVE ProcessType'
  OBVIOUS
<1>1. boot' \in 1..MaxBoots /\ exit' \in {"none", "zero", "one", "killed"}
  BY CoreAssumption
     DEF TypeOK, ProcessType, Next, System, Over, Finally, process, crash, session, store, flags,
         vars, DatabaseReady, OrphansMarked, SessionCreated, ListenersRegistered, Started,
         SeesShutdown, DatabaseDrains, DatabaseStops, Exits, WriteRuns, Teardown, Joins, Begins,
         Finalizes, Finalized, WatcherStops, BusStops, Delivered, Reacts, Records, Recorded,
         StartupFails, Terminated, Killed, Restarts, Crashes, Exhausts
<1>2. fatal' \in Reasons
  BY DEF Because, Reasons, TypeOK, ProcessType, Next, System, Over, process, crash, session, store, flags, vars,
         DatabaseReady, OrphansMarked, SessionCreated, ListenersRegistered, Started, SeesShutdown,
         DatabaseDrains, DatabaseStops, Exits, WriteRuns, Teardown, Joins, Begins, Finalizes,
         Finalized, WatcherStops, BusStops, Delivered, Reacts, Records, Recorded, StartupFails,
         Terminated, Killed, Restarts, Crashes, Exhausts, Finally
<1>3. rows' \in [1..MaxBoots -> Statuses]
  BY RowsChange, WriteRunsType DEF TypeOK, ProcessType
<1> QED BY <1>1, <1>2, <1>3, AtStep DEF ProcessType

LEMMA FlagsStep == TypeOK /\ [Next]_vars => FlagsType'
<1> SUFFICES ASSUME TypeOK, [Next]_vars PROVE FlagsType'
  OBVIOUS
<1> USE DEF TypeOK, FlagsType, flags, session
<1>1. CASE SessionCreated BY <1>1 DEF SessionCreated
<1>2. CASE ListenersRegistered BY <1>2 DEF ListenersRegistered
<1>3. CASE DatabaseStops BY <1>3 DEF DatabaseStops, Finally
<1>4. ASSUME NEW a \in Callers, Teardown(a) PROVE FlagsType'
  <2>1. CASE Joins(a) BY <2>1 DEF Joins, Finally
  <2>2. CASE Begins(a) BY <2>2 DEF Begins
  <2>3. CASE Finalizes(a) BY <2>3 DEF Finalizes
  <2>4. CASE Finalized(a) BY <2>4 DEF Finalized
  <2>5. CASE WatcherStops(a) BY <2>5 DEF WatcherStops
  <2>6. CASE BusStops(a)
    <3>1. \/ completed' = TRUE /\ streamsOpen' = FALSE
          \/ completed' = completed /\ streamsOpen' = streamsOpen
      BY <2>6 DEF BusStops, Finally
    <3> QED BY <2>6, <3>1 DEF BusStops
  <2> QED BY <1>4, <2>1, <2>2, <2>3, <2>4, <2>5, <2>6 DEF Teardown
<1>5. CASE Reacts BY <1>5 DEF Reacts
<1>6. CASE Records BY <1>6 DEF Records
<1>7. CASE Terminated BY <1>7 DEF Terminated
<1>8. CASE Restarts BY <1>8 DEF Restarts
<1>9. CASE \/ UNCHANGED vars \/ DatabaseReady \/ OrphansMarked \/ Started \/ SeesShutdown
           \/ StartupFails \/ DatabaseDrains \/ Exits \/ WriteRuns \/ Delivered \/ Recorded
           \/ Killed \/ Crashes \/ Exhausts
  <2>1. /\ closing' = closing /\ shuttingDown' = shuttingDown /\ completed' = completed
        /\ streamsOpen' = streamsOpen /\ opened' = opened /\ sessionError' = sessionError
        /\ watching' = watching /\ knew' = knew
    BY <1>9 DEF vars, DatabaseReady, OrphansMarked, Started, SeesShutdown, StartupFails, DatabaseDrains,
                Exits, WriteRuns, Delivered, Recorded, Killed, Crashes, Exhausts
  <2> QED BY <2>1
<1> QED BY <1>1, <1>2, <1>3, <1>4, <1>5, <1>6, <1>7, <1>8, <1>9 DEF Next, System, Over

LEMMA StoreStep == TypeOK /\ [Next]_vars => StoreType'
<1> SUFFICES ASSUME TypeOK, [Next]_vars PROVE StoreType'
  OBVIOUS
<1>1. /\ db' \in {"down", "up", "draining", "closed"}
      /\ lock' \in Callers \cup {"free", "recorder"}
      /\ runner' \in Callers \cup {"none"}
  BY DEF TypeOK, StoreType, Next, System, Over, Finally, process, crash, session, store, flags,
         vars, DatabaseReady, OrphansMarked, SessionCreated, ListenersRegistered, Started,
         SeesShutdown, DatabaseDrains, DatabaseStops, Exits, WriteRuns, Teardown, Joins, Begins,
         Finalizes, Finalized, WatcherStops, BusStops, Delivered, Reacts, Records, Recorded,
         StartupFails, Terminated, Killed, Restarts, Crashes, Exhausts
<1>2. queue' \in Seq(Writes) /\ failed' \subseteq Writes
  <2>1. \/ WriteRuns
        \/ UNCHANGED failed /\ \E write \in Writes : queue' = Append(queue, write)
        \/ UNCHANGED <<failed, queue>>
        \/ failed' = {} /\ queue' = <<>>
    BY DEF Submits, Writes, Next, System, Over, Finally, process, crash, session, store, flags,
           vars, DatabaseReady, OrphansMarked, SessionCreated, ListenersRegistered, Started,
           SeesShutdown, DatabaseDrains, DatabaseStops, Exits, WriteRuns, Teardown, Joins, Begins,
           Finalizes, Finalized, WatcherStops, BusStops, Delivered, Reacts, Records, Recorded,
           StartupFails, Terminated, Killed, Restarts, Crashes, Exhausts
  <2>2. /\ queue \in Seq(Writes) /\ failed \subseteq Writes
        /\ \A write \in Writes : Append(queue, write) \in Seq(Writes)
    BY DEF TypeOK, StoreType
  <2>3. <<>> \in Seq(Writes)
    OBVIOUS
  <2>4. CASE WriteRuns
    BY <2>4, WriteRunsType
  <2> QED BY <2>1, <2>2, <2>3, <2>4
<1> QED BY <1>1, <1>2 DEF StoreType

\* Every crash event, queued or being handled, stands for a crash or for the
\* one time the watcher's handler gave up on a service.
EventsCounted ==
    /\ events + reacting <= crashes + (IF at["inline"] = "idle" THEN 0 ELSE 1)
    /\ events + recording <= crashes + (IF at["inline"] = "idle" THEN 0 ELSE 1)

LEMMA CrashStep == TypeOK /\ EventsCounted /\ [Next]_vars => CrashType' /\ EventsCounted'
<1> SUFFICES ASSUME TypeOK, EventsCounted, [Next]_vars PROVE CrashType' /\ EventsCounted'
  OBVIOUS
<1> USE CoreAssumption DEF TypeOK, CrashType, EventsCounted, crash, process
<1>1. at'["inline"] = "idle" => at["inline"] = "idle" \/ Restarts
  BY AtStep
<1>2. CASE Crashes BY <1>1, <1>2 DEF Crashes
<1>3. CASE Exhausts
  <2>1. at["inline"] = "idle" /\ at'["inline"] = "call"
    BY <1>3 DEF Exhausts, Moves, ProcessType, Callers
  <2> QED BY <1>3, <2>1 DEF Exhausts
<1>4. CASE Delivered BY <1>4 DEF Delivered
<1>5. CASE Reacts BY <1>5 DEF Reacts
<1>6. CASE Records BY <1>6 DEF Records
<1>7. CASE Restarts BY <1>7 DEF Restarts, AtBoot
<1>8. ASSUME NEW a \in Callers, BusStops(a) PROVE CrashType' /\ EventsCounted'
  BY <1>1, <1>8 DEF BusStops
<1>9. CASE /\ UNCHANGED <<events, reacting, recording, crashes>>
           /\ ~Restarts
  BY <1>1, <1>9
<1> QED
  BY <1>2, <1>3, <1>4, <1>5, <1>6, <1>7, <1>8, <1>9
  DEF Next, System, Over, vars, DatabaseReady, OrphansMarked, SessionCreated, ListenersRegistered,
      Started, SeesShutdown, DatabaseDrains, DatabaseStops, Exits, WriteRuns, Teardown, Joins,
      Begins, Finalizes, Finalized, WatcherStops, BusStops, Delivered, Reacts, Records, Recorded,
      StartupFails, Terminated, Killed, Restarts, Crashes, Exhausts

TypeInv == TypeOK /\ EventsCounted

LEMMA TypeInvariant == Spec => []TypeInv
<1>1. Init => TypeInv
  <2> SUFFICES ASSUME Init PROVE TypeInv
    OBVIOUS
  <2>1. ProcessType
    BY CoreAssumption DEF Init, ProcessType, AtBoot, Callers, Steps, Statuses, Reasons
  <2>2. FlagsType
    BY DEF Init, FlagsType
  <2>3. StoreType
    BY DEF Init, StoreType
  <2>4. CrashType /\ EventsCounted
    BY CoreAssumption DEF Init, CrashType, EventsCounted
  <2> QED BY <2>1, <2>2, <2>3, <2>4 DEF TypeInv, TypeOK
<1>2. TypeInv /\ [Next]_vars => TypeInv'
  BY ProcessStep, FlagsStep, StoreStep, CrashStep DEF TypeInv, TypeOK
<1> QED BY <1>1, <1>2, PTL DEF Spec

\* The state keeps its type: in particular the CRASHED events and the handlers
\* they start stay within one for each crash and one for the watcher giving up.
THEOREM CoreTypeCorrect == Spec => []TypeOK
BY TypeInvariant, PTL DEF TypeInv
----------------------------------------------------------------------------
(* Sessions *)

Early == {"db", "orphans", "session"}

\* Until the session is created run_forever() is alone with the database: its
\* writes follow one another, and nothing is recorded about this process yet.
StartupOrder ==
    /\ at["main"] \in Early => ~opened /\ ~watching /\ at["inline"] = "idle"
    /\ at["main"] \in {"db", "orphans"} => rows[boot] = "none"
    /\ at["main"] = "db" => queue = <<>> /\ failed = {}
    /\ at["main"] = "orphans" =>
         failed \subseteq {"orphans"} /\ (queue = <<>> \/ (queue = <<"orphans">> /\ failed = {}))
    /\ at["main"] = "session" =>
         queue = <<>> \/ (queue = <<"create">> /\ failed = {} /\ rows[boot] = "none")
    /\ at["main"] \notin Early => \A i \in 1..Len(queue) : queue[i] \in {"crash", "finalize"}

\* Rows are written in the order of the processes.
RowsInOrder == \A b \in 1..MaxBoots : b > boot => rows[b] = "none"

\* What is about to be recorded as a failure, or has been, is remembered.
FailureKnown ==
    /\ (\E i \in 1..Len(queue) : queue[i] = "crash") => sessionError
    /\ rows[boot] = "failure" => sessionError \/ fatal # "none"

\* Once the orphans are marked no other process's row says running.
Settled ==
    \/ at["main"] = "session" \/ opened
    \/ at["main"] = "orphans" /\ queue = <<>> /\ failed = {}
OrphansSettled == Settled => \A b \in 1..MaxBoots : b # boot => rows[b] # "running"

SessionInv == StartupOrder /\ RowsInOrder /\ FailureKnown /\ OrphansSettled

\* What each write of the queue does to the rows.
LEMMA WriteRunsRows ==
  ASSUME TypeOK, WriteRuns
  PROVE  /\ UNCHANGED <<boot, at, fatal, opened, watching, sessionError>>
         /\ queue # <<>> /\ queue' = Tail(queue)
         /\ \/ rows' = rows /\ failed' = failed \cup {Head(queue)}
            \/ failed' = failed /\ Head(queue) = "orphans" /\ rows' = Orphaned
            \/ failed' = failed /\ Head(queue) = "create" /\ rows' = [rows EXCEPT ![boot] = "running"]
            \/ failed' = failed /\ Head(queue) = "crash" /\ rows' = [rows EXCEPT ![boot] = "failure"]
            \/ failed' = failed /\ Head(queue) = "finalize" /\ rows' = [rows EXCEPT ![boot] = FinalStatus]
<1>1. Head(queue) \in Writes
  BY HeadTailProperties DEF TypeOK, StoreType, WriteRuns
<1> QED BY <1>1 DEF WriteRuns, Writes, process, session

\* After startup a step that queues at most a final or a crash write keeps the
\* invariant: the crash handler sets _session_error before it submits.
LEMMA LateStep ==
  ASSUME TypeOK, SessionInv,
         at["main"] \notin Early, at'["main"] \notin Early,
         UNCHANGED <<boot, rows, failed, opened>>,
         sessionError => sessionError',
         fatal # "none" => fatal' # "none",
         \/ queue' = queue
         \/ queue' = Append(queue, "finalize")
         \/ queue' = Append(queue, "crash") /\ sessionError'
  PROVE  SessionInv'
<1> USE DEF SessionInv
<1>1. /\ \A i \in 1..Len(queue') : queue'[i] \in {"crash", "finalize"}
      /\ (\E i \in 1..Len(queue') : queue'[i] = "crash") => sessionError'
  <2>0. queue \in Seq(Writes)
    BY DEF TypeOK, StoreType
  <2>1. CASE queue' = queue
    BY <2>1 DEF StartupOrder, FailureKnown
  <2>2. ASSUME NEW w \in {"crash", "finalize"}, queue' = Append(queue, w)
        PROVE  /\ Len(queue') = Len(queue) + 1 /\ queue'[Len(queue) + 1] = w
               /\ \A i \in 1..Len(queue) : queue'[i] = queue[i]
    BY <2>0, <2>2, AppendProperties DEF Writes
  <2>3. CASE queue' = Append(queue, "finalize")
    BY <2>0, <2>2, <2>3 DEF StartupOrder, FailureKnown
  <2>4. CASE queue' = Append(queue, "crash") /\ sessionError'
    BY <2>0, <2>2, <2>4 DEF StartupOrder
  <2> QED BY <2>1, <2>3, <2>4
<1>2. StartupOrder'
  BY <1>1 DEF StartupOrder, Early
<1>3. RowsInOrder' /\ FailureKnown'
  BY <1>1 DEF RowsInOrder, FailureKnown
<1>4. OrphansSettled'
  BY DEF OrphansSettled, Settled, Early
<1> QED BY <1>2, <1>3, <1>4

\* A write that runs keeps it.
LEMMA WriteRunsInv ==
  ASSUME TypeOK, SessionInv, WriteRuns
  PROVE  SessionInv'
<1> USE DEF SessionInv
<1>0. /\ UNCHANGED <<boot, at, fatal, opened, watching, sessionError>>
      /\ queue # <<>> /\ queue' = Tail(queue)
      /\ boot \in 1..MaxBoots /\ rows \in [1..MaxBoots -> Statuses]
  BY WriteRunsRows DEF TypeOK, ProcessType
<1>1. /\ Len(queue') = Len(queue) - 1
      /\ \A i \in 1..Len(queue') : i + 1 \in 1..Len(queue) /\ queue'[i] = queue[i + 1]
      /\ 1 \in 1..Len(queue) /\ Head(queue) = queue[1]
  BY <1>0, HeadTailProperties DEF TypeOK, StoreType
<1>2. CASE at["main"] \in Early
  <2>1. queue' = <<>> /\ at["main"] # "db"
    <3>1. \/ at["main"] = "orphans" /\ queue = <<"orphans">>
          \/ at["main"] = "session" /\ queue = <<"create">>
      BY <1>0, <1>2 DEF StartupOrder, Early
    <3>2. Len(queue) = 1 /\ at["main"] # "db"
      BY <3>1
    <3> QED BY <1>0, <1>1, <3>2, HeadTailProperties DEF TypeOK, StoreType
  <2>2. CASE at["main"] = "orphans"
    <3>1. Head(queue) = "orphans" /\ rows[boot] = "none" /\ failed = {}
      BY <1>0, <2>2 DEF StartupOrder
    <3>2. \/ rows' = rows /\ failed' = {"orphans"}
          \/ failed' = failed /\ rows' = Orphaned
      BY <3>1, WriteRunsRows
    <3>3. /\ \A b \in 1..MaxBoots : rows[b] = "none" => rows'[b] = "none"
          /\ failed' = {} => \A b \in 1..MaxBoots : rows'[b] # "running"
      BY <1>0, <3>2 DEF Orphaned
    <3> QED
      BY <1>0, <2>1, <2>2, <3>1, <3>2, <3>3
      DEF StartupOrder, RowsInOrder, FailureKnown, OrphansSettled, Settled, Early
  <2>3. CASE at["main"] = "session"
    <3>1. Head(queue) = "create"
      BY <1>0, <2>3 DEF StartupOrder
    <3>2. rows' = rows \/ rows' = [rows EXCEPT ![boot] = "running"]
      BY <3>1, WriteRunsRows
    <3>3. \A b \in 1..MaxBoots : b # boot => rows'[b] = rows[b]
      BY <1>0, <3>2
    <3>4. rows'[boot] = "failure" => rows[boot] = "failure"
      BY <1>0, <3>2
    <3> QED
      BY <1>0, <2>1, <2>3, <3>3, <3>4
      DEF StartupOrder, RowsInOrder, FailureKnown, OrphansSettled, Settled, Early
  <2> QED BY <1>2, <2>1, <2>2, <2>3 DEF Early
<1>3. CASE at["main"] \notin Early
  <2>1. Head(queue) \in {"crash", "finalize"}
    BY <1>1, <1>3 DEF StartupOrder
  <2>2. Head(queue) = "crash" => sessionError
    BY <1>1 DEF FailureKnown
  <2>3. /\ \A b \in 1..MaxBoots : b # boot => rows'[b] = rows[b]
        /\ rows'[boot] = "failure" => sessionError \/ fatal # "none"
    <3>1. CASE rows' = rows
      BY <3>1 DEF FailureKnown
    <3>2. CASE Head(queue) = "crash" /\ rows' = [rows EXCEPT ![boot] = "failure"]
      BY <1>0, <2>2, <3>2
    <3>3. CASE Head(queue) = "finalize" /\ rows' = [rows EXCEPT ![boot] = FinalStatus]
      BY <1>0, <3>3 DEF FinalStatus, FailureKnown
    <3> QED BY <2>1, <3>1, <3>2, <3>3, WriteRunsRows
  <2>4. /\ \A i \in 1..Len(queue') : queue'[i] \in {"crash", "finalize"}
        /\ (\E i \in 1..Len(queue') : queue'[i] = "crash") => sessionError
    BY <1>1, <1>3 DEF StartupOrder, FailureKnown
  <2>5. StartupOrder'
    BY <1>0, <1>3, <2>4 DEF StartupOrder, Early
  <2>6. RowsInOrder' /\ FailureKnown'
    BY <1>0, <2>3, <2>4 DEF RowsInOrder, FailureKnown
  <2>7. OrphansSettled'
    BY <1>0, <1>3, <2>3 DEF OrphansSettled, Settled, Early
  <2> QED BY <2>5, <2>6, <2>7
<1> QED BY <1>2, <1>3

\* So does every other step.
LEMMA SessionStep == TypeOK /\ SessionInv /\ [Next]_vars => SessionInv'
<1> SUFFICES ASSUME TypeOK, SessionInv, [Next]_vars PROVE SessionInv'
  OBVIOUS
<1> USE DEF SessionInv, process, crash, session, store, flags
<1>0. /\ at \in [Callers -> Steps] /\ "main" \in Callers /\ "inline" \in Callers
      /\ at["inline"] # "idle" \/ watching \/ opened => at["main"] \notin Early
  BY DEF TypeOK, ProcessType, StartupOrder, Callers
<1>1. CASE WriteRuns
  BY <1>1, WriteRunsInv
<1>2. CASE DatabaseReady
  BY <1>0, <1>2
  DEF DatabaseReady, Submits, Moves, StartupOrder, RowsInOrder, FailureKnown, OrphansSettled, Settled, Early
<1>3. CASE OrphansMarked
  <2>1. queue = <<>> /\ failed = {}
    BY <1>3 DEF OrphansMarked, Written, Done, Contains, StartupOrder
  <2> QED
    BY <1>0, <1>3, <2>1
    DEF OrphansMarked, Submits, Moves, StartupOrder, RowsInOrder, FailureKnown, OrphansSettled, Settled, Early
<1>4. CASE SessionCreated
  <2>1. queue = <<>> /\ at["main"] = "session" /\ at'["main"] = "waves"
    BY <1>0, <1>4 DEF SessionCreated, Written, Done, Contains, StartupOrder, Moves
  <2> QED
    BY <1>4, <2>1
    DEF SessionCreated, StartupOrder, RowsInOrder, FailureKnown, OrphansSettled, Settled, Early
<1>5. CASE StartupFails
  <2>1. at'["main"] = "call" /\ fatal' # "none"
    BY <1>0, <1>5 DEF StartupFails, Moves, Because
  <2>2. CASE at["main"] \in Early
    <3>1. queue = <<>>
      BY <1>5, <2>2 DEF StartupFails, StartupOrder, Early
    <3> QED
      BY <1>5, <2>1, <2>2, <3>1
      DEF StartupFails, StartupOrder, RowsInOrder, FailureKnown, OrphansSettled, Settled, Early
  <2>3. CASE at["main"] \notin Early
    BY <1>5, <2>1, <2>3, LateStep DEF StartupFails, Early
  <2> QED BY <2>2, <2>3
<1>6. CASE Restarts
  <2>1. /\ at'["main"] = "db" /\ at'["inline"] = "idle"
        /\ queue' = <<>> /\ failed' = {} /\ ~opened' /\ ~watching'
    BY <1>6 DEF Restarts, AtBoot, Callers
  <2>2. boot' = boot + 1 /\ boot + 1 \in 1..MaxBoots /\ rows' = rows /\ rows[boot + 1] = "none"
    BY <1>6, CoreAssumption DEF Restarts, RowsInOrder, TypeOK, ProcessType
  <2>3. RowsInOrder'
    BY <2>2 DEF RowsInOrder, TypeOK, ProcessType
  <2> QED BY <2>1, <2>2, <2>3 DEF StartupOrder, FailureKnown, OrphansSettled, Settled, Early
<1>7. CASE ListenersRegistered \/ Started \/ SeesShutdown \/ DatabaseStops
  <2>1. at["main"] \notin Early /\ at'["main"] \notin Early
    BY <1>0, <1>7
    DEF ListenersRegistered, Started, SeesShutdown, DatabaseStops, Finally, Moves, Early
  <2> QED
    BY <1>7, <2>1, LateStep DEF ListenersRegistered, Started, SeesShutdown, DatabaseStops
<1>8. ASSUME NEW a \in Callers, Teardown(a) PROVE SessionInv'
  <2>1. at["main"] \notin Early /\ at'["main"] \notin Early
    <3>1. at[a] \notin Early \cup {"idle"}
      BY <1>8 DEF Teardown, Joins, Begins, Finalizes, Finalized, WatcherStops, BusStops, Early
    <3>2. at["main"] \notin Early
      BY <1>0, <3>1 DEF Callers
    <3>3. \/ at'["main"] = at["main"]
          \/ at'["main"] \in {"exit", "finalize", "written", "watcher", "bus", "drain"}
      BY <1>0, <1>8 DEF Teardown, Joins, Begins, Finalizes, Finalized, WatcherStops, BusStops,
                        Finally, Moves, Submits, Callers
    <3> QED BY <3>2, <3>3 DEF Early
  <2>2. /\ UNCHANGED <<boot, rows, failed, opened, sessionError, fatal>>
        /\ queue' = queue \/ queue' = Append(queue, "finalize")
    BY <1>8 DEF Teardown, Joins, Begins, Finalizes, Finalized, WatcherStops, BusStops, Submits
  <2> QED BY <2>1, <2>2, LateStep
<1>9. CASE Records
  <2>1. \/ queue' = Append(queue, "crash") /\ sessionError' /\ opened
        \/ UNCHANGED <<queue, sessionError>>
    BY <1>9 DEF Records
  <2>2. CASE queue' = Append(queue, "crash") /\ sessionError' /\ opened
    BY <1>0, <1>9, <2>2, LateStep DEF Records
  <2>3. CASE UNCHANGED <<queue, sessionError>>
    BY <1>9, <2>3 DEF Records, StartupOrder, RowsInOrder, FailureKnown, OrphansSettled, Settled
  <2> QED BY <2>1, <2>2, <2>3
<1>10. CASE Exhausts
  <2>1. at'["main"] = at["main"] /\ at["main"] \notin Early /\ fatal' # "none"
    BY <1>0, <1>10 DEF Exhausts, Moves, Because
  <2> QED BY <1>10, <2>1, LateStep DEF Exhausts
<1>11. CASE Reacts
  BY <1>11
  DEF Reacts, Because, StartupOrder, RowsInOrder, FailureKnown, OrphansSettled, Settled
<1>12. CASE \/ UNCHANGED vars \/ DatabaseDrains \/ Exits \/ Delivered \/ Recorded \/ Terminated
            \/ Killed \/ Crashes
  <2>1. UNCHANGED <<boot, rows, at, queue, failed, opened, watching, sessionError, fatal>>
    BY <1>12 DEF vars, DatabaseDrains, Exits, Delivered, Recorded, Terminated, Killed, Crashes
  <2> QED BY <2>1 DEF StartupOrder, RowsInOrder, FailureKnown, OrphansSettled, Settled
<1> QED
  BY <1>1, <1>2, <1>3, <1>4, <1>5, <1>6, <1>7, <1>8, <1>9, <1>10, <1>11, <1>12 DEF Next, System, Over

LEMMA SessionInvariant == Spec => []SessionInv
<1>1. Init => SessionInv
  BY CoreAssumption
  DEF Init, AtBoot, Callers, SessionInv, StartupOrder, RowsInOrder, FailureKnown, OrphansSettled, Settled, Early
<1> QED BY <1>1, CoreTypeCorrect, SessionStep, PTL DEF Spec

\* _do_finalize_session() and _do_mark_orphaned_sessions() keep a recorded failure:
\* the crash handler remembers it in _session_error before it writes, and a final
\* write says failure only for a reason that is never forgotten.
THEOREM FailuresStick == Spec => FailureSticks
<1>1. TypeOK /\ SessionInv /\ [Next]_vars
      => [\A b \in 1..MaxBoots : rows[b] = "failure" => rows'[b] = "failure"]_vars
  <2> SUFFICES ASSUME TypeOK, SessionInv, [Next]_vars,
                      NEW b \in 1..MaxBoots, rows[b] = "failure"
               PROVE  rows'[b] = "failure"
    OBVIOUS
  <2> USE DEF SessionInv
  <2>0. boot \in 1..MaxBoots /\ rows \in [1..MaxBoots -> Statuses]
    BY DEF TypeOK, ProcessType
  <2>1. CASE WriteRuns
    <3>1. CASE Head(queue) = "create"
      <4>1. rows[boot] = "none"
        BY <2>1, <3>1, WriteRunsRows, HeadTailProperties
        DEF StartupOrder, Early, TypeOK, StoreType
      <4> QED BY <2>0, <2>1, <3>1, <4>1, WriteRunsRows
    <3>2. CASE Head(queue) = "finalize"
      <4>1. b = boot => FinalStatus = "failure"
        BY DEF FinalStatus, FailureKnown
      <4> QED BY <2>0, <2>1, <3>2, <4>1, WriteRunsRows
    <3>3. CASE Head(queue) \notin {"create", "finalize"}
      BY <2>0, <2>1, <3>3, WriteRunsRows DEF Orphaned
    <3> QED BY <3>1, <3>2, <3>3
  <2>2. CASE ~WriteRuns
    BY <2>2, RowsChange
  <2> QED BY <2>1, <2>2
<1> QED BY <1>1, CoreTypeCorrect, SessionInvariant, PTL DEF Spec, FailureSticks

\* Once a process has its session, every other session that ran has been settled,
\* also when the write that settles the last one fails.
THEOREM OneSessionRuns == Spec => []OneRunningSession
<1>1. SessionInv => OneRunningSession
  BY DEF SessionInv, OrphansSettled, Settled, OneRunningSession
<1> QED BY <1>1, SessionInvariant, PTL

----------------------------------------------------------------------------
(* The teardown *)

Closing == {"finalize", "written", "watcher", "bus", "drain", "exit"}
Queued(write) == \E i \in 1..Len(queue) : queue[i] = write
Final == rows[boot] # "running" /\ (knew => rows[boot] = "failure")

\* One caller runs the teardown; the other one is turned away by the flags.
OneRunner ==
    /\ runner = "none" => ~shuttingDown /\ ~completed /\ at["main"] # "exit"
    /\ runner = "main" =>
         at["main"] \in Closing /\ (shuttingDown \/ (completed /\ at["main"] = "exit"))
    /\ runner = "inline" => shuttingDown
    /\ runner # "main" => at["main"] \notin Closing \ {"exit"}
    /\ runner # "inline" => at["inline"] \in {"idle", "call", "over"}

\* A process with a session has its database until the teardown reaches it, and
\* main's teardown leaves it with nothing to write.
DatabaseKept ==
    /\ opened \/ at["main"] \in {"orphans", "session"} => db = "up" \/ at["main"] \in {"drain", "exit"}
    /\ runner = "main" /\ at["main"] = "exit" => queue = <<>> /\ db # "up"

\* A crash write is waited for under the lock until the bus stops, so the final
\* write is queued behind none.
LockHeld ==
    runner # "inline" =>
        /\ Queued("crash") => lock = "recorder" \/ at["main"] \in {"drain", "exit"}
        /\ at["main"] = "written" => lock = "main"

\* _session_error stands for a failure on the row, under way to it, or lost.
CrashKept == sessionError => rows[boot] = "failure" \/ failed # {} \/ Queued("crash")

\* From the final write on the row is final, unless a write has failed.
FinalKept ==
    /\ knew => fatal # "none"
    /\ runner = "main" /\ opened =>
         \/ at["main"] = "finalize"
         \/ at["main"] = "written" /\ Queued("finalize")
         \/ failed # {}
         \/ Final

TeardownInv == OneRunner /\ DatabaseKept /\ LockHeld /\ CrashKept /\ FinalKept

LEMMA QueuedAppend ==
  ASSUME TypeOK, NEW w \in Writes, queue' = Append(queue, w)
  PROVE  \A v : Queued(v)' <=> Queued(v) \/ v = w
<1>1. queue \in Seq(Writes)
  BY DEF TypeOK, StoreType
<1> QED BY <1>1, AppendProperties DEF Queued

LEMMA QueuedTail ==
  ASSUME TypeOK, queue # <<>>, queue' = Tail(queue)
  PROVE  /\ \A v : Queued(v)' => Queued(v)
         /\ \A v : Queued(v) /\ v # Head(queue) => Queued(v)'
         /\ Queued(Head(queue))
<1>1. queue \in Seq(Writes)
  BY DEF TypeOK, StoreType
<1>2. /\ Len(queue') = Len(queue) - 1 /\ Len(queue) \in Nat \ {0} /\ Head(queue) = queue[1]
      /\ \A i \in 1..Len(queue') : queue'[i] = queue[i + 1]
  BY <1>1, HeadTailProperties
<1>3. ASSUME NEW v, Queued(v)' PROVE Queued(v)
  <2>1. PICK i \in 1..Len(queue') : queue'[i] = v
    BY <1>3 DEF Queued
  <2>2. i + 1 \in 1..Len(queue) /\ queue[i + 1] = v
    BY <1>2, <2>1
  <2> QED BY <2>2 DEF Queued
<1>4. ASSUME NEW v, Queued(v), v # Head(queue) PROVE Queued(v)'
  <2>1. PICK i \in 1..Len(queue) : queue[i] = v
    BY <1>4 DEF Queued
  <2>2. i - 1 \in 1..Len(queue') /\ queue'[i - 1] = v
    BY <1>2, <1>4, <2>1
  <2> QED BY <2>2 DEF Queued
<1> QED BY <1>2, <1>3, <1>4 DEF Queued

\* A step that leaves the callers, the database and the row alone keeps the invariant.
LEMMA QuietStep ==
  ASSUME TeardownInv,
         UNCHANGED <<boot, rows, at, queue, failed, opened, sessionError, lock, db, shuttingDown,
                     completed, runner, knew>>,
         fatal # "none" => fatal' # "none"
  PROVE  TeardownInv'
BY DEF TeardownInv, OneRunner, DatabaseKept, LockHeld, CrashKept, FinalKept, Final, Queued

\* Writes run one by one; the final one finds the crash recorded or not at all.
LEMMA WriteRunsTeardown ==
  ASSUME TypeOK, SessionInv, TeardownInv, WriteRuns
  PROVE  TeardownInv'
<1> USE DEF TeardownInv, process, flags, session
<1>0. /\ UNCHANGED <<boot, at, fatal, opened, sessionError, db, lock, shuttingDown, completed,
                     runner, knew>>
      /\ queue # <<>> /\ queue' = Tail(queue)
      /\ boot \in 1..MaxBoots /\ rows \in [1..MaxBoots -> Statuses]
      /\ db \in {"up", "draining"}
  BY WriteRunsRows DEF TypeOK, ProcessType, WriteRuns
<1>1. /\ \A v : Queued(v)' => Queued(v)
      /\ \A v : Queued(v) /\ v # Head(queue) => Queued(v)'
      /\ Queued(Head(queue))
  BY <1>0, QueuedTail
<1>2. OneRunner'
  BY <1>0 DEF OneRunner
<1>3. DatabaseKept'
  BY <1>0 DEF DatabaseKept
<1>4. LockHeld'
  BY <1>0, <1>1 DEF LockHeld
<1>5. CASE Head(queue) \in {"orphans", "create"}
  <2>1. at["main"] \in Early /\ ~opened
    BY <1>1, <1>5 DEF Queued, SessionInv, StartupOrder
  <2>2. Head(queue) = "create" => ~sessionError
    <3>1. ASSUME Head(queue) = "create"
          PROVE  queue = <<"create">> /\ failed = {} /\ rows[boot] = "none"
      BY <1>0, <2>1, <3>1 DEF SessionInv, StartupOrder, Early
    <3>2. ASSUME Head(queue) = "create" PROVE ~Queued("crash")
      BY <3>1, <3>2 DEF Queued
    <3> QED BY <3>1, <3>2 DEF CrashKept
  <2>3. rows[boot] = "failure" => rows'[boot] = "failure" \/ Head(queue) = "create"
    BY <1>0, <1>5, WriteRunsRows DEF Orphaned
  <2>4. CrashKept'
    BY <1>0, <1>1, <1>5, <2>2, <2>3, WriteRunsRows DEF CrashKept
  <2>5. FinalKept'
    BY <1>0, <2>1 DEF FinalKept
  <2> QED BY <1>2, <1>3, <1>4, <2>4, <2>5
<1>6. CASE Head(queue) = "crash"
  <2>1. failed' # {} \/ rows'[boot] = "failure"
    BY <1>0, <1>6, WriteRunsRows
  <2>2. CrashKept'
    BY <1>0, <2>1 DEF CrashKept
  <2>3. Queued("finalize") => Queued("finalize")'
    BY <1>1, <1>6
  <2>4. FinalKept'
    BY <1>0, <2>1, <2>3 DEF FinalKept, Final
  <2> QED BY <1>2, <1>3, <1>4, <2>2, <2>4
<1>7. CASE Head(queue) = "finalize"
  <2>1. failed' # {} \/ (failed' = failed /\ rows'[boot] = FinalStatus)
    BY <1>0, <1>7, WriteRunsRows
  <2>2. Queued("crash") => Queued("crash")'
    BY <1>1, <1>7
  <2>3. CrashKept'
    BY <1>0, <2>1, <2>2, WriteRunsRows DEF CrashKept, FinalStatus
  <2>4. CASE failed' # {}
    BY <1>0, <2>3, <2>4, <1>2, <1>3, <1>4 DEF FinalKept
  <2>5. CASE failed' = {} /\ failed' = failed /\ rows'[boot] = FinalStatus
    <3>1. FinalKept'
      <4>1. CASE sessionError
        <5>1. rows'[boot] = rows[boot]
          BY <2>5, <4>1 DEF FinalStatus
        <5>2. at["main"] = "written" /\ runner = "main" => rows[boot] = "failure"
          <6>1. failed = {}
            BY <2>5
          <6>2. at["main"] = "written" /\ runner = "main" => ~Queued("crash")
            BY DEF LockHeld
          <6> QED BY <4>1, <6>1, <6>2 DEF CrashKept
        <5>3. /\ failed = {}
              /\ runner = "main" /\ opened => at["main"] = "finalize" \/ Final \/ rows[boot] = "failure"
          BY <2>5, <5>2 DEF FinalKept
        <5>4. (knew => fatal # "none") /\ (Final => Final')
          BY <1>0, <5>1 DEF FinalKept, Final
        <5>5. rows[boot] = "failure" => Final'
          BY <1>0, <5>1 DEF Final
        <5> QED BY <1>0, <5>3, <5>4, <5>5 DEF FinalKept
      <4>2. CASE ~sessionError
        BY <1>0, <2>5, <4>2 DEF FinalKept, Final, FinalStatus
      <4> QED BY <4>1, <4>2
    <3> QED BY <1>2, <1>3, <1>4, <2>3, <3>1
  <2> QED BY <2>1, <2>4, <2>5
<1>8. Head(queue) \in Writes
  BY <1>0, HeadTailProperties DEF TypeOK, StoreType
<1> QED BY <1>5, <1>6, <1>7, <1>8 DEF Writes

\* The steps of shutdown().
LEMMA TeardownCallStep ==
  ASSUME TypeOK, SessionInv, TeardownInv, NEW a \in Callers, Teardown(a)
  PROVE  TeardownInv'
<1> USE DEF TeardownInv, process, crash, session, store, flags
<1>0. /\ at \in [Callers -> Steps] /\ a \in {"main", "inline"} /\ Callers = {"main", "inline"}
      /\ opened => at["main"] \notin Early
  BY DEF TypeOK, ProcessType, Callers, SessionInv, StartupOrder
<1>1. CASE Joins(a)
  BY <1>0, <1>1
  DEF Joins, Finally, Moves, OneRunner, DatabaseKept, LockHeld, CrashKept, FinalKept, Final, Closing, Queued
<1>2. CASE Begins(a)
  <2>1. /\ runner = "none" /\ runner' = a /\ knew' = (fatal # "none") /\ shuttingDown' = TRUE
        /\ at' = [at EXCEPT ![a] = "finalize"]
    <3>1. runner \in {"none", "main", "inline"} /\ at[a] = "call" /\ ~shuttingDown /\ ~completed
      BY <1>0, <1>2 DEF Begins, TypeOK, StoreType
    <3>2. runner # "main"
      BY <3>1 DEF OneRunner
    <3> QED BY <1>2, <3>1, <3>2 DEF Begins, Moves, OneRunner
  <2>2. OneRunner'
    BY <1>0, <1>2, <2>1 DEF Begins, OneRunner, Closing
  <2>3. DatabaseKept' /\ LockHeld' /\ CrashKept'
    BY <1>0, <1>2, <2>1 DEF Begins, DatabaseKept, LockHeld, CrashKept, Queued, OneRunner, Closing
  <2>4. FinalKept'
    BY <1>0, <1>2, <2>1 DEF Begins, FinalKept
  <2> QED BY <2>2, <2>3, <2>4
<1>3. CASE Finalizes(a)
  <2>1. CASE /\ opened /\ db = "up" /\ lock = "free" /\ lock' = a
             /\ queue' = Append(queue, "finalize") /\ at' = [at EXCEPT ![a] = "written"]
    <3>1. \A v : Queued(v)' <=> Queued(v) \/ v = "finalize"
      BY <2>1, QueuedAppend DEF Writes
    <3>2. OneRunner'
      BY <1>0, <1>3, <2>1 DEF Finalizes, OneRunner, Closing
    <3>3. DatabaseKept'
      BY <1>0, <1>3, <2>1 DEF Finalizes, DatabaseKept, OneRunner, Closing
    <3>4. LockHeld' /\ CrashKept'
      BY <1>0, <1>3, <2>1, <3>1 DEF Finalizes, LockHeld, CrashKept, OneRunner, Closing
    <3>5. FinalKept'
      BY <1>0, <1>3, <2>1, <3>1 DEF Finalizes, FinalKept, Final, OneRunner
    <3> QED BY <3>2, <3>3, <3>4, <3>5
  <2>2. CASE ~(opened /\ db = "up") /\ Moves(a, "watcher") /\ UNCHANGED <<lock, queue>>
    <3>1. at[a] = "finalize" /\ (a = "main" => ~opened)
      BY <1>3, <2>2 DEF Finalizes, DatabaseKept
    <3> QED
      BY <1>0, <1>3, <2>2, <3>1
      DEF Finalizes, Moves, OneRunner, DatabaseKept, LockHeld, CrashKept, FinalKept, Final, Closing, Queued
  <2> QED BY <1>3, <2>1, <2>2 DEF Finalizes, Submits, Moves
<1>4. CASE Finalized(a)
  <2>1. ~Queued("finalize") /\ at[a] = "written" /\ at' = [at EXCEPT ![a] = "watcher"] /\ queue' = queue
    BY <1>4 DEF Finalized, Done, Contains, Queued, Moves
  <2>2. OneRunner' /\ DatabaseKept'
    BY <1>0, <1>4, <2>1 DEF Finalized, OneRunner, DatabaseKept, Closing
  <2>3. LockHeld' /\ CrashKept'
    BY <1>0, <1>4, <2>1 DEF Finalized, LockHeld, CrashKept, Queued, OneRunner, Closing
  <2>4. FinalKept'
    BY <1>0, <1>4, <2>1 DEF Finalized, FinalKept, Final, OneRunner
  <2> QED BY <2>2, <2>3, <2>4
<1>5. CASE WatcherStops(a)
  BY <1>0, <1>5
  DEF WatcherStops, Moves, OneRunner, DatabaseKept, LockHeld, CrashKept, FinalKept, Final, Closing, Queued
<1>6. CASE BusStops(a)
  <2>1. CASE a = "inline"
    <3>1. runner = "inline" /\ at'["main"] = at["main"] /\ at'["inline"] = "over"
      BY <1>0, <1>6, <2>1 DEF BusStops, Finally, Moves, OneRunner
    <3> QED
      BY <1>0, <1>6, <2>1, <3>1
      DEF BusStops, Finally, OneRunner, DatabaseKept, LockHeld, CrashKept, FinalKept, Closing, Queued
  <2>2. CASE a = "main"
    <3>1. /\ runner = "main" /\ at["main"] = "bus" /\ at'["main"] = "drain"
          /\ at'["inline"] \in {"idle", "over"} /\ shuttingDown
      BY <1>0, <1>6, <2>2 DEF BusStops, OneRunner, Closing
    <3>2. UNCHANGED <<boot, rows, queue, failed, opened, sessionError, db, shuttingDown,
                      runner, knew, fatal>>
      BY <1>6 DEF BusStops
    <3> QED
      BY <3>1, <3>2
      DEF OneRunner, DatabaseKept, LockHeld, CrashKept, FinalKept, Final, Closing, Queued
  <2> QED BY <1>0, <2>1, <2>2
<1> QED BY <1>1, <1>2, <1>3, <1>4, <1>5, <1>6 DEF Teardown

LEMMA TeardownStep == TypeOK /\ SessionInv /\ TeardownInv /\ [Next]_vars => TeardownInv'
<1> SUFFICES ASSUME TypeOK, SessionInv, TeardownInv, [Next]_vars PROVE TeardownInv'
  OBVIOUS
<1> USE DEF TeardownInv, process, crash, session, store, flags
<1>0. /\ at \in [Callers -> Steps] /\ "main" \in Callers /\ "inline" \in Callers
      /\ at["main"] \in Early => ~opened /\ at["inline"] = "idle"
  BY DEF TypeOK, ProcessType, Callers, SessionInv, StartupOrder
<1>1. CASE WriteRuns
  BY <1>1, WriteRunsTeardown
<1>2. ASSUME NEW a \in Callers, Teardown(a) PROVE TeardownInv'
  BY <1>2, TeardownCallStep
<1>3. CASE DatabaseReady \/ OrphansMarked
  <2>1. \E w \in {"orphans", "create"}, step \in {"orphans", "session"} :
           queue' = Append(queue, w) /\ at' = [at EXCEPT !["main"] = step]
    BY <1>3 DEF DatabaseReady, OrphansMarked, Submits, Moves
  <2>2. /\ at["main"] \in {"db", "orphans"} /\ at'["main"] \in {"orphans", "session"}
        /\ at'["inline"] = at["inline"] /\ ~opened
    BY <1>0, <1>3, <2>1 DEF DatabaseReady, OrphansMarked, Early
  <2>3. Queued("crash") <=> Queued("crash")'
    BY <2>1, QueuedAppend DEF Writes
  <2>4. db' = "up"
    BY <1>3 DEF DatabaseReady, OrphansMarked, DatabaseKept
  <2>5. UNCHANGED <<boot, rows, failed, opened, sessionError, lock, shuttingDown, completed,
                    runner, knew, fatal>>
    BY <1>3 DEF DatabaseReady, OrphansMarked
  <2> QED
    BY <2>2, <2>3, <2>4, <2>5
    DEF OneRunner, DatabaseKept, LockHeld, CrashKept, FinalKept, Final, Closing
<1>4. CASE SessionCreated \/ Started \/ SeesShutdown \/ StartupFails
  <2>1. \E step \in {"waves", "running", "call"} : at' = [at EXCEPT !["main"] = step]
    BY <1>4 DEF SessionCreated, Started, SeesShutdown, StartupFails, Moves
  <2>2. /\ at'["main"] \in {"waves", "running", "call"} /\ at'["inline"] = at["inline"]
        /\ at["main"] \in Early \cup {"waves", "running"}
    BY <1>0, <1>4, <2>1 DEF SessionCreated, Started, SeesShutdown, StartupFails, Early
  <2>3. /\ UNCHANGED <<boot, rows, queue, failed, sessionError, lock, shuttingDown, completed,
                       runner, knew, db>>
        /\ fatal # "none" => fatal' # "none"
        /\ opened' => opened \/ at["main"] = "session"
    BY <1>4 DEF SessionCreated, Started, SeesShutdown, StartupFails, Because
  <2>4. runner # "main"
    BY <2>2 DEF OneRunner, Closing, Early
  <2> QED
    BY <2>2, <2>3, <2>4
    DEF OneRunner, DatabaseKept, LockHeld, CrashKept, FinalKept, Closing, Queued, Early
<1>5. CASE Exhausts
  <2>1. at'["main"] = at["main"] /\ at'["inline"] = "call"
    BY <1>0, <1>5 DEF Exhausts, Moves
  <2>2. /\ UNCHANGED <<boot, rows, queue, failed, opened, sessionError, lock, shuttingDown, completed,
                       runner, knew, db>>
        /\ fatal' # "none"
    BY <1>5 DEF Exhausts, Because
  <2> QED
    BY <2>1, <2>2 DEF OneRunner, DatabaseKept, LockHeld, CrashKept, FinalKept, Final, Queued
<1>6. CASE DatabaseDrains
  <2>1. runner = "main" /\ at["main"] = "drain"
    BY <1>6 DEF DatabaseDrains, OneRunner, Closing
  <2>2. UNCHANGED <<boot, rows, at, queue, failed, opened, sessionError, lock, shuttingDown,
                    completed, runner, knew, fatal>>
    BY <1>6 DEF DatabaseDrains
  <2> QED
    BY <2>1, <2>2 DEF OneRunner, DatabaseKept, LockHeld, CrashKept, FinalKept, Final, Queued
<1>7. CASE DatabaseStops
  <2>1. /\ runner = "main" /\ at["main"] = "drain" /\ at'["main"] = "exit"
        /\ at'["inline"] = at["inline"]
    BY <1>0, <1>7 DEF DatabaseStops, Finally, Moves, OneRunner, Closing
  <2>2. /\ UNCHANGED <<boot, rows, queue, failed, opened, sessionError, lock, runner, knew, fatal>>
        /\ queue = <<>> /\ db' # "up" /\ completed' = TRUE
    BY <1>7 DEF DatabaseStops, Finally
  <2> QED
    BY <2>1, <2>2 DEF OneRunner, DatabaseKept, LockHeld, CrashKept, FinalKept, Final, Queued, Closing
<1>8. CASE Records
  <2>1. CASE UNCHANGED <<queue, sessionError, lock>>
    BY <1>8, <2>1, QuietStep DEF Records
  <2>2. CASE /\ opened /\ db = "up" /\ sessionError' = TRUE /\ lock' = "recorder"
             /\ queue' = Append(queue, "crash")
    <3>1. \A v : Queued(v)' <=> Queued(v) \/ v = "crash"
      BY <2>2, QueuedAppend DEF Writes
    <3>2. at["main"] = "written" => runner = "inline"
      BY <1>8 DEF Records, LockHeld
    <3>3. UNCHANGED <<boot, rows, at, failed, opened, db, shuttingDown, completed, runner, knew, fatal>>
      BY <1>8 DEF Records
    <3> QED
      BY <2>2, <3>1, <3>2, <3>3
      DEF OneRunner, DatabaseKept, LockHeld, CrashKept, FinalKept, Final
  <2> QED BY <1>8, <2>1, <2>2 DEF Records
<1>9. CASE Recorded
  <2>1. ~Queued("crash") /\ lock = "recorder"
    BY <1>9 DEF Recorded, Done, Contains, Queued
  <2>2. UNCHANGED <<boot, rows, at, queue, failed, opened, sessionError, db, shuttingDown, completed,
                    runner, knew, fatal>>
    BY <1>9 DEF Recorded
  <2> QED
    BY <2>1, <2>2 DEF OneRunner, DatabaseKept, LockHeld, CrashKept, FinalKept, Final, Queued
<1>10. CASE Restarts
  <2>1. /\ at'["main"] = "db" /\ at'["inline"] = "idle" /\ queue' = <<>> /\ ~opened' /\ ~knew'
        /\ runner' = "none" /\ ~shuttingDown' /\ ~completed' /\ ~sessionError'
    BY <1>10 DEF Restarts, AtBoot, Callers
  <2> QED
    BY <2>1 DEF OneRunner, DatabaseKept, LockHeld, CrashKept, FinalKept, Queued, Closing
<1>11. CASE \/ UNCHANGED vars \/ ListenersRegistered \/ Exits \/ Delivered \/ Reacts \/ Terminated
            \/ Killed \/ Crashes
  <2>1. /\ UNCHANGED <<boot, rows, at, queue, failed, opened, sessionError, lock, db, shuttingDown,
                       completed, runner, knew>>
        /\ fatal # "none" => fatal' # "none"
    BY <1>11
    DEF vars, ListenersRegistered, Exits, Delivered, Reacts, Terminated, Killed, Crashes, Because
  <2> QED BY <2>1, QuietStep
<1> QED
  BY <1>1, <1>2, <1>3, <1>4, <1>5, <1>6, <1>7, <1>8, <1>9, <1>10, <1>11 DEF Next, System, Over

\* A process that has ended by itself had left run_forever().
ExitedLast == Exited => at["main"] = "exit"

LEMMA ExitedStep == ExitedLast /\ [Next]_vars => ExitedLast'
<1> SUFFICES ASSUME ExitedLast, [Next]_vars PROVE ExitedLast'
  OBVIOUS
<1>1. CASE UNCHANGED vars
  BY <1>1 DEF vars, ExitedLast, Exited
<1>2. CASE Exits \/ Killed \/ Restarts
  BY <1>2 DEF Exits, Killed, Restarts, ExitedLast, Exited
<1>3. CASE Alive /\ exit' = exit
  BY <1>3 DEF Alive, ExitedLast, Exited
<1> QED
  BY <1>1, <1>2, <1>3
  DEF Next, System, Over, process, DatabaseReady, OrphansMarked, SessionCreated, ListenersRegistered,
      Started, SeesShutdown, DatabaseDrains, DatabaseStops, WriteRuns, Teardown, Joins, Begins,
      Finalizes, Finalized, WatcherStops, BusStops, Delivered, Reacts, Records, Recorded, StartupFails,
      Terminated, Crashes, Exhausts

\* A teardown by run_forever() itself carries out every accepted write and, unless one
\* of them failed, leaves a final status on the session row: failure whenever a fatal
\* reason was known when it began.
THEOREM TeardownIsRecorded == Spec => []TeardownRecorded
<1>1. Init => TeardownInv /\ ExitedLast
  BY DEF Init, AtBoot, Callers, TeardownInv, OneRunner, DatabaseKept, LockHeld, CrashKept, FinalKept,
         Queued, Closing, ExitedLast, Exited
<1>2. TeardownInv /\ ExitedLast => TeardownRecorded
  BY DEF TeardownInv, DatabaseKept, FinalKept, Final, ExitedLast, TeardownRecorded
<1> QED
  BY <1>1, <1>2, CoreTypeCorrect, SessionInvariant, TeardownStep, ExitedStep, PTL DEF Spec
=============================================================================
