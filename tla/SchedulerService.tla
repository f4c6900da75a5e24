--------------------------- MODULE SchedulerService ---------------------------
(***************************************************************************)
(* core/scheduler_service.py with the parts of scheduler/scheduler.py and  *)
(* scheduler/classes.py it works with: the live registry, the due-time     *)
(* heap, the serve loop, dispatch, entity-driven rescheduling, removal,    *)
(* replacement and manual submission.                                      *)
(*                                                                         *)
(* Everything runs on one asyncio loop: an action is the code of one task  *)
(* between two suspension points.  The suspension points kept are the      *)
(* database writes (one FIFO write queue serves them all), the guard       *)
(* release of a removal, and the first step of a spawned task.  The heap's *)
(* lock is never held across a suspension, so its critical sections are    *)
(* part of the action that runs them.  The execution-mode guard itself is  *)
(* ExecutionModeGuard; here an invocation is the record of its start.      *)
(***************************************************************************)
EXTENDS Integers, Sequences, FiniteSets

CONSTANTS
    Jobs,        \* Job objects
    Rows,        \* natural keys (owner and job name), one database row each
    RowOf,       \* the row each job is registered under
    Guarded,     \* jobs registered with a where= predicate
    Tasks,       \* identifiers of the asyncio tasks alive at the same time
    MaxTime,     \* last value of the clock
    MinDelay, MaxDelay, DefaultDelay,   \* the serve loop's sleep bounds
    Scenarios,   \* what apps and environment may do, see Scenario
    None, WAITING

Times == 0 .. (MaxTime + 2)

\* What may happen in a behaviour: the jobs apps register and their triggers,
\* the removal calls they make, how often entities change, whether StateProxy
\* may apply an event after other listeners saw it, whether a database write
\* may raise, and when the clock stops.
Scenario ==
    [jobs : SUBSET Jobs, kind : [Jobs -> {"once", "recurring", "entity", "manual"}],
     removals : SUBSET {"remove", "replace", "all"}, events : Nat,
     lag : BOOLEAN, dbFails : BOOLEAN, until : 0..MaxTime]

ASSUME SchedulerAssumption ==
    /\ IsFiniteSet(Jobs) /\ RowOf \in [Jobs -> Rows]
    /\ Guarded \subseteq Jobs
    /\ Tasks \subseteq Nat /\ IsFiniteSet(Tasks)
    /\ {MaxTime, MinDelay, MaxDelay, DefaultDelay} \subseteq Nat
    /\ 0 < MinDelay /\ MinDelay <= MaxDelay
    /\ Scenarios \subseteq Scenario
    /\ None \notin Jobs \cup Rows \cup Times
    /\ WAITING \notin Jobs \cup Rows \cup Times \cup {None}

VARIABLES
    app,        \* the behaviour's scenario
    now,        \* the clock
    job,        \* the Job objects' schedule state
    registry,   \* SchedulerService._jobs_by_id, by row
    names,      \* Scheduler._jobs_by_name, by row
    watch,      \* Scheduler._entity_time_subs, by row: the job the listener moves
    row,        \* the scheduled_jobs table
    task,       \* the live asyncio tasks
    dbq,        \* tasks waiting for the database, in write-queue order
    entity,     \* the time each entity-driven job's entity names
    cache,      \* the same as StateProxy holds it
    updates,    \* state-change events StateProxy has not applied yet
    inbox,      \* state-change events whose watch handler has not started yet
    changes,    \* number of entity changes so far
    serve,      \* the serve loop's sleep: [until, kicked]
    last,       \* the firing decision this step took, if any
    contested   \* rows whose name was taken while its replacement was under way;
                \* read by properties only

sources == <<entity, cache, updates, inbox, changes>>
tables  == <<registry, names, watch, row>>
vars    == <<app, contested, now, job, tables, task, dbq, sources, serve, last>>

----------------------------------------------------------------------------
(* Job records *)

\* transition_to(): leaving "scheduled" always clears the timing.
Transition(r, status, time) == [r EXCEPT !.status = status, !.next = time, !.fire = time]

NewJob == [status |-> "new", next |-> None, fire |-> None, pending |-> None,
           dequeued |-> FALSE, hasId |-> FALSE, heap |-> 0, key |-> None]

\* _ScheduledJobQueue.add(): refuses a job that is not scheduled, and
\* re-checks the removal flag with the push.
Push(r) ==
    IF r.dequeued \/ r.status # "scheduled" THEN r
    ELSE [r EXCEPT !.heap = @ + 1, !.key = r.fire]

\* Mutant: an entry is taken off whether or not there is one.
DropEntry_Unchecked(r) == [r EXCEPT !.heap = @ - 1, !.key = None]

\* HeapQueue.remove_item(): one entry, if there is one.
DropEntry(r) ==
    IF r.heap = 0 THEN r ELSE [r EXCEPT !.heap = @ - 1, !.key = None]

\* Mutant: an off-heap job is transitioned at once instead.
Remembers_Never(r) == FALSE

\* reschedule_job(): a scheduled job that is not on the heap is taken to be
\* mid-dispatch and only remembers the transition.
Remembers(r) == r.status = "scheduled" /\ r.heap = 0

Transitions(r) == ~r.dequeued /\ ~Remembers(r)

Reschedule(r, to) ==
    IF r.dequeued THEN r
    ELSE IF Remembers(r) THEN [r EXCEPT !.pending = to]
    ELSE LET q == IF r.status = "scheduled" THEN DropEntry(r) ELSE r
         IN  IF to = WAITING THEN Transition(q, "waiting", None)
                             ELSE Transition(q, "scheduled", to)

----------------------------------------------------------------------------
(* Tasks and the database write queue *)

Idle == [kind |-> "free", job |-> None, at |-> "none", rest |-> {}, wrote |-> None]

Free == {k \in Tasks : task[k].kind = "free"}

\* The task a spawn uses: the smallest free identifier.
NewTask == CHOOSE k \in Free : \A i \in Free : k <= i

Spawn(kind, j, at) == [kind |-> kind, job |-> j, at |-> at, rest |-> {}, wrote |-> None]

\* A removal of all jobs that was just spawned: the loop's ready queue is
\* FIFO, so no other task gets far before its first step.
Fresh == \E k \in Tasks : task[k].at = "next" /\ task[k].job = None

\* The write queue serves its oldest entry; its task continues from there.
\* What happens between a write and the resumption of its task could as well
\* have happened before the write.
Served(k) == dbq # <<>> /\ Head(dbq) = k /\ ~Fresh

\* A task that has just submitted the write of r's status.
Persisting(kind, j, at, r) == [Spawn(kind, j, at) EXCEPT !.wrote = r.status]

Kicked == [serve EXCEPT !.kicked = TRUE]

\* Mutant: enqueue_job() forgets the kick.
KickIfQueued_Never(r) == serve

\* enqueue_job() ends with a kick unless the heap refused the job.
KickIfQueued(r) == IF r.status = "scheduled" THEN Kicked ELSE serve

----------------------------------------------------------------------------
Init ==
    /\ app \in Scenarios
    /\ now = 0
    /\ job = [j \in Jobs |-> NewJob]
    /\ registry = [r \in Rows |-> None]
    /\ names = [r \in Rows |-> None]
    /\ watch = [r \in Rows |-> None]
    /\ row = [r \in Rows |-> [status |-> None, removed |-> FALSE]]
    /\ task = [k \in Tasks |-> Idle]
    /\ dbq = <<>>
    /\ entity = [j \in Jobs |-> None]
    /\ cache = entity
    /\ updates = <<>>
    /\ inbox = <<>>
    /\ changes = 0
    /\ serve = [until |-> 0, kicked |-> FALSE]
    /\ last = None
    /\ contested = {}

----------------------------------------------------------------------------
(* Registration: Scheduler.schedule(), _add_job(), SchedulerService.add_job() *)

\* EntityTime.resolve_from_state(): a time that is not in the future is none.
Resolve(t) == IF t = None THEN WAITING ELSE IF t <= now THEN WAITING ELSE t

\* The schedule status and time schedule() or register() builds the job with.
FirstRuns(j) ==
    CASE app.kind[j] = "manual" -> {<<"manual", None>>}
      [] app.kind[j] = "entity" -> {IF Resolve(cache[j]) = WAITING THEN <<"waiting", None>>
                                ELSE <<"scheduled", cache[j]>>}
      [] OTHER -> {<<"scheduled", t>> : t \in {now, now + 1}}

\* The name is taken and the registration write is issued.
StartRegistration(k, j, r, queue) ==
    /\ names' = [names EXCEPT ![RowOf[j]] = j]
    /\ job' = [job EXCEPT ![j] = r]
    /\ task' = [task EXCEPT ![k] = Persisting("register", j, "db", r)]
    /\ dbq' = Append(queue, k)

\* The name's old job is being removed, to be replaced.
UnderReplacement(r) == \E k \in Tasks : task[k].kind = "replace" /\ RowOf[task[k].job] = r

AddJob(j) ==
    /\ j \in app.jobs /\ job[j].status = "new"
    /\ names[RowOf[j]] = None
    /\ Free # {}
    /\ \E f \in FirstRuns(j) :
         StartRegistration(NewTask, j, Transition(job[j], f[1], f[2]), dbq)
    /\ contested' = IF UnderReplacement(RowOf[j]) THEN contested \cup {RowOf[j]} ELSE contested
    /\ last' = None
    /\ UNCHANGED <<app, now, registry, watch, row, sources, serve>>

\* register_job() landed: db_id, then the registry, then the heap; an
\* entity-driven job goes on to register its listener.
Registered(k) ==
    /\ Served(k)
    /\ task[k].kind = "register" /\ task[k].at = "db"
    /\ LET j == task[k].job
           r == [job[j] EXCEPT !.hasId = TRUE] IN
       /\ row' = [row EXCEPT ![RowOf[j]] = [status |-> task[k].wrote, removed |-> FALSE]]
       /\ registry' = [registry EXCEPT ![RowOf[j]] = j]
       /\ job' = [job EXCEPT ![j] = Push(r)]
       /\ serve' = KickIfQueued(r)
       /\ IF app.kind[j] = "entity"
          THEN /\ task' = [task EXCEPT ![k].at = "watch"]
               /\ dbq' = Append(Tail(dbq), k)
          ELSE /\ task' = [task EXCEPT ![k] = Idle]
               /\ dbq' = Tail(dbq)
    /\ last' = None
    /\ UNCHANGED <<app, contested, now, names, watch, sources>>

\* A reschedule_job() call by task k, whose queue position is given up: it
\* goes on to persist the new status, or is over.
CallReschedule(k, j, r, to, queue) ==
    /\ job' = [job EXCEPT ![j] = Reschedule(r, to)]
    /\ IF Transitions(r)
       THEN /\ task' = [task EXCEPT ![k] = Persisting("handler", j, "db", Reschedule(r, to))]
            /\ dbq' = Append(queue, k)
       ELSE /\ task' = [task EXCEPT ![k] = Idle]
            /\ dbq' = queue

\* The listener exists from here on; the entity is read once more.
WatchInstalled(k) ==
    /\ Served(k)
    /\ task[k].at = "watch"
    /\ LET j == task[k].job
           to == Resolve(cache[j]) IN
       /\ watch' = [watch EXCEPT ![RowOf[j]] = j]
       /\ IF (to = WAITING /\ job[j].status = "waiting") \/ to = job[j].next
          THEN /\ task' = [task EXCEPT ![k] = Idle]
               /\ dbq' = Tail(dbq)
               /\ UNCHANGED job
          ELSE CallReschedule(k, j, job[j], to, Tail(dbq))
    /\ last' = None
    /\ UNCHANGED <<app, contested, now, registry, names, row, sources, serve>>

----------------------------------------------------------------------------
(* Removal *)

\* _remove_from_live_state(): registry, heap, flag and callbacks, with no
\* suspension.  Registry and name index are identity-checked, the
\* subscription index is not.
LiveRemoved(j) == [DropEntry(job[j]) EXCEPT !.dequeued = TRUE]

Deregistered(j) ==
    IF job[j].hasId /\ registry[RowOf[j]] = j THEN [registry EXCEPT ![RowOf[j]] = None] ELSE registry

RemoveFromLiveState(j) ==
    /\ registry' = Deregistered(j)
    /\ names' = IF names[RowOf[j]] = j THEN [names EXCEPT ![RowOf[j]] = None] ELSE names
    /\ watch' = [watch EXCEPT ![RowOf[j]] = None]
    /\ serve' = IF job[j].heap > 0 THEN Kicked ELSE serve

\* job.remove(), Scheduler.remove_job() and each member of remove_group(): the
\* rest of the removal is spawned.
RemoveJob(j) ==
    /\ "remove" \in app.removals
    /\ job[j].status \notin {"new", "building"}
    /\ ~job[j].dequeued
    /\ Free # {}
    /\ RemoveFromLiveState(j)
    /\ job' = [job EXCEPT ![j] = LiveRemoved(j)]
    /\ task' = [task EXCEPT ![NewTask] = Spawn("remove", j, "release")]
    /\ last' = None
    /\ UNCHANGED <<app, contested, now, row, dbq, sources>>

\* An _add_job() that finds the name taken, with if_exists="replace": the new
\* job is built, the old one removed and its removed_at write awaited.
ReplaceJob(j) ==
    /\ "replace" \in app.removals
    /\ j \in app.jobs /\ job[j].status = "new"
    /\ Free # {}
    /\ LET old == names[RowOf[j]] IN
       /\ old # None
       /\ RemoveFromLiveState(old)
       /\ \E f \in FirstRuns(j) :
            /\ job' = [job EXCEPT ![old] = LiveRemoved(old), ![j] = Transition(@, "building", f[2])]
            /\ task' = [task EXCEPT ![NewTask] =
                          [Spawn("replace", old, "release") EXCEPT !.rest = {j}, !.wrote = f[1]]]
    /\ last' = None
    /\ UNCHANGED <<app, contested, now, row, dbq, sources>>

\* A job built before its predecessor's removal, as it registers.
Built(k, j) == Transition(job[j], task[k].wrote, job[j].next)

\* remove_all_jobs(): the indexes are cleared, the removals are spawned.
RemoveAllJobs ==
    /\ "all" \in app.removals
    /\ Free # {}
    /\ \E r \in Rows : names[r] # None
    /\ names' = [r \in Rows |-> None]
    /\ watch' = [r \in Rows |-> None]
    /\ task' = [task EXCEPT ![NewTask] = [Spawn("removeall", None, "next") EXCEPT
                                            !.rest = {names[r] : r \in Rows} \ {None}]]
    /\ last' = None
    /\ UNCHANGED <<app, contested, now, job, registry, row, dbq, sources, serve>>

\* _remove_jobs(): one job after the other.
RemoveNext(k) ==
    /\ task[k].at = "next"
    /\ \/ /\ task[k].rest = {}
          /\ task' = [task EXCEPT ![k] = Idle]
          /\ UNCHANGED <<job, registry, names, watch, serve>>
       \/ \E j \in task[k].rest :
            /\ RemoveFromLiveState(j)
            /\ job' = [job EXCEPT ![j] = LiveRemoved(j)]
            /\ task' = [task EXCEPT ![k].job = j, ![k].at = "release", ![k].rest = @ \ {j}]
    /\ last' = None
    /\ UNCHANGED <<app, contested, now, row, dbq, sources>>

\* The removal of k's job is complete: the caller goes on.
RemovalDone(k, queue) ==
    CASE task[k].kind = "remove" ->
            /\ task' = [task EXCEPT ![k] = Idle]
            /\ dbq' = queue
            /\ UNCHANGED <<names, job>>
      [] task[k].kind = "removeall" ->
            /\ task' = [task EXCEPT ![k].at = "next"]
            /\ dbq' = queue
            /\ UNCHANGED <<names, job>>
      [] task[k].kind = "replace" ->
            \E j \in task[k].rest : StartRegistration(k, j, Built(k, j), queue)

\* Mutant: _add_job() does not wait for the removed_at write.
GuardReleased_NoWait(k) ==
    /\ task[k].at = "release" /\ ~Fresh
    /\ IF task[k].kind = "replace" /\ job[task[k].job].hasId
       THEN \E j \in task[k].rest, i \in Free :
              /\ names' = [names EXCEPT ![RowOf[j]] = j]
              /\ job' = [job EXCEPT ![j] = Built(k, j)]
              /\ task' = [task EXCEPT ![i] = Persisting("register", j, "db", Built(k, j)),
                                      ![k] = Spawn("remove", task[k].job, "release")]
              /\ dbq' = Append(dbq, i)
       ELSE IF job[task[k].job].hasId
       THEN /\ task' = [task EXCEPT ![k].at = "db"]
            /\ dbq' = Append(dbq, k)
            /\ UNCHANGED <<names, job>>
       ELSE RemovalDone(k, dbq)
    /\ last' = None
    /\ UNCHANGED <<app, contested, now, registry, watch, row, sources, serve>>

\* guard.release() of _finish_removal() returned; removed_at is written only
\* for a job that already has its row id.
GuardReleased(k) ==
    /\ task[k].at = "release" /\ ~Fresh
    /\ IF job[task[k].job].hasId
       THEN /\ task' = [task EXCEPT ![k].at = "db"]
            /\ dbq' = Append(dbq, k)
            /\ UNCHANGED <<names, job>>
       ELSE RemovalDone(k, dbq)
    /\ last' = None
    /\ UNCHANGED <<app, contested, now, registry, watch, row, sources, serve>>

\* mark_job_removed() landed.
RemovalWritten(k) ==
    /\ Served(k)
    /\ task[k].kind \in {"remove", "replace", "removeall"}
    /\ row' = [row EXCEPT ![RowOf[task[k].job]].removed = TRUE]
    /\ RemovalDone(k, Tail(dbq))
    /\ last' = None
    /\ UNCHANGED <<app, contested, now, registry, watch, sources, serve>>

----------------------------------------------------------------------------
(* Dispatch *)

\* trigger.next_run_time(), or the transition remembered for this dispatch.
NextOccurrences(j) ==
    CASE job[j].pending # None -> {job[j].pending}
      [] job[j].pending = None /\ app.kind[j] = "entity" -> {Resolve(cache[j])}
      [] job[j].pending = None /\ app.kind[j] = "recurring" -> {None, now, now + 1}
      [] OTHER -> {None}

\* The transition dispatch_and_log() makes; a time that is not in the future
\* is moved one second on.
AfterFire(r, next) ==
    CASE next = None    -> Transition(r, "completed", None)
      [] next = WAITING -> Transition(r, "waiting", None)
      [] OTHER          -> Transition(r, "scheduled", IF next <= now THEN now + 1 ELSE next)

DispatchStart(k) ==
    /\ task[k].kind = "dispatch" /\ task[k].at = "spawned" /\ ~Fresh
    /\ LET j == task[k].job IN
       IF job[j].dequeued
       THEN /\ task' = [task EXCEPT ![k] = Idle]
            /\ UNCHANGED <<job, dbq>>
       ELSE \E next \in NextOccurrences(j) :
              LET r == [AfterFire(job[j], next) EXCEPT !.pending = None] IN
              /\ job' = [job EXCEPT ![j] = r]
              /\ task' = [task EXCEPT ![k] = Persisting("dispatch", j, "db", r)]
              /\ dbq' = Append(dbq, k)
    /\ last' = None
    /\ UNCHANGED <<app, contested, now, tables, sources, serve>>

\* Mutant: a dispatch that completes the job does not run it.
Fire_NotLast(k, r) ==
    LET j == task[k].job IN
    /\ job' = [job EXCEPT ![j] = IF r.status = "scheduled" THEN r ELSE DropEntry(r)]
    /\ task' = [task EXCEPT ![k] = Idle]
    /\ dbq' = Tail(dbq)
    /\ last' = IF r.status = "completed" THEN None ELSE [job |-> j, what |-> "run"]

\* The end of dispatch_and_log(): heap clean-up, predicate, invocation.
Fire(k, r) ==
    LET j == task[k].job IN
    /\ job' = [job EXCEPT ![j] = IF r.status = "scheduled" THEN r ELSE DropEntry(r)]
    /\ task' = [task EXCEPT ![k] = Idle]
    /\ dbq' = Tail(dbq)
    /\ \/ last' = [job |-> j, what |-> "run"]
       \/ j \in Guarded /\ last' = [job |-> j, what |-> "skip"]

WriteStatus(k) == row' = [row EXCEPT ![RowOf[task[k].job]].status = task[k].wrote]

\* The status of a dispatch is persisted: enqueue, apply what was remembered
\* meanwhile, which persists again, or fire.
DispatchPersisted(k) ==
    /\ Served(k)
    /\ task[k].kind = "dispatch" /\ task[k].at = "db"
    /\ WriteStatus(k)
    /\ LET j == task[k].job
           r == IF task[k].wrote = "scheduled" THEN Push(job[j]) ELSE job[j]
           q == [r EXCEPT !.pending = None] IN
       /\ serve' = IF task[k].wrote = "scheduled" THEN KickIfQueued(r) ELSE serve
       /\ IF task[k].wrote = "scheduled" /\ r.pending # None
          THEN IF Transitions(q)
               THEN /\ job' = [job EXCEPT ![j] = Reschedule(q, r.pending)]
                    /\ task' = [task EXCEPT ![k] = Persisting("dispatch", j, "again", Reschedule(q, r.pending))]
                    /\ dbq' = Append(Tail(dbq), k)
                    /\ last' = None
               ELSE Fire(k, Reschedule(q, r.pending))
          ELSE Fire(k, r)
    /\ UNCHANGED <<app, contested, now, registry, names, watch, sources>>

\* The nested reschedule_job() of a dispatch is persisted.
DispatchMoved(k) ==
    /\ Served(k)
    /\ task[k].kind = "dispatch" /\ task[k].at = "again"
    /\ WriteStatus(k)
    /\ LET j == task[k].job
           r == IF task[k].wrote = "scheduled" THEN Push(job[j]) ELSE job[j] IN
       /\ serve' = IF task[k].wrote = "scheduled" THEN KickIfQueued(r) ELSE serve
       /\ Fire(k, r)
    /\ UNCHANGED <<app, contested, now, registry, names, watch, sources>>

----------------------------------------------------------------------------
(* Entity changes *)

\* Home Assistant reports a new state: StateProxy's listener and the job's
\* own, if it is there, are dispatched concurrently.
EntityChange(j, t) ==
    /\ app.kind[j] = "entity"
    /\ changes < app.events
    /\ entity[j] # t
    /\ changes' = changes + 1
    /\ entity' = [entity EXCEPT ![j] = t]
    /\ IF app.lag
       THEN updates' = Append(updates, [job |-> j, time |-> t]) /\ UNCHANGED cache
       ELSE cache' = entity' /\ UNCHANGED updates
    /\ inbox' = IF watch[RowOf[j]] = j THEN Append(inbox, [job |-> j, time |-> t]) ELSE inbox
    /\ last' = None
    /\ UNCHANGED <<app, contested, now, job, tables, task, dbq, serve>>

CacheUpdated ==
    /\ updates # <<>>
    /\ cache' = [cache EXCEPT ![Head(updates).job] = Head(updates).time]
    /\ updates' = Tail(updates)
    /\ last' = None
    /\ UNCHANGED <<app, contested, now, job, tables, task, dbq, entity, inbox, changes, serve>>

\* _reschedule_entity_time_job() up to the write of reschedule_job().
HandlerStart ==
    /\ inbox # <<>> /\ ~Fresh
    /\ Free # {}
    /\ LET j == Head(inbox).job
           to == Resolve(Head(inbox).time) IN
       IF (to = WAITING /\ job[j].status = "waiting") \/ to = job[j].next
       THEN UNCHANGED <<job, task, dbq>>
       ELSE CallReschedule(NewTask, j, job[j], to, dbq)
    /\ inbox' = Tail(inbox)
    /\ last' = None
    /\ UNCHANGED <<app, contested, now, tables, entity, cache, updates, changes, serve>>

\* The write of reschedule_job() landed.
ReschedulePersisted(k) ==
    /\ Served(k)
    /\ task[k].kind = "handler"
    /\ WriteStatus(k)
    /\ LET j == task[k].job
           r == IF task[k].wrote = "scheduled" THEN Push(job[j]) ELSE job[j] IN
       /\ job' = [job EXCEPT ![j] = r]
       /\ serve' = IF task[k].wrote = "scheduled" THEN KickIfQueued(r) ELSE serve
    /\ task' = [task EXCEPT ![k] = Idle]
    /\ dbq' = Tail(dbq)
    /\ last' = None
    /\ UNCHANGED <<app, contested, now, registry, names, watch, sources>>

----------------------------------------------------------------------------
(* A database write that raises, where the exception goes *)

\* add_job() raised: _rollback_failed_registration().
RegistrationFails(k) ==
    /\ app.dbFails
    /\ Served(k)
    /\ task[k].kind = "register" /\ task[k].at = "db"
    /\ RemoveFromLiveState(task[k].job)
    /\ job' = [job EXCEPT ![task[k].job] = LiveRemoved(task[k].job)]
    /\ task' = [task EXCEPT ![k] = Idle]
    /\ dbq' = Tail(dbq)
    /\ last' = None
    /\ UNCHANGED <<app, contested, now, row, sources>>

\* on_state_change() raised: the job is removed again.
WatchFails(k) ==
    /\ app.dbFails
    /\ Served(k)
    /\ task[k].at = "watch"
    /\ LET j == task[k].job IN
       IF job[j].dequeued
       THEN /\ task' = [task EXCEPT ![k] = Idle]
            /\ UNCHANGED <<job, registry, names, watch, serve>>
       ELSE /\ RemoveFromLiveState(j)
            /\ job' = [job EXCEPT ![j] = LiveRemoved(j)]
            /\ task' = [task EXCEPT ![k] = Spawn("remove", j, "release")]
    /\ dbq' = Tail(dbq)
    /\ last' = None
    /\ UNCHANGED <<app, contested, now, row, sources>>

\* Everywhere else the exception ends the task.
WriteFails(k) ==
    /\ app.dbFails
    /\ Served(k)
    /\ task[k].kind # "register"
    /\ task' = [task EXCEPT ![k] = Idle]
    /\ dbq' = Tail(dbq)
    /\ last' = None
    /\ UNCHANGED <<app, contested, now, job, tables, sources, serve>>

----------------------------------------------------------------------------
(* Manual submission *)

\* submit_job() of a job the registry still maps to.  The invocation it
\* spawns meets only the execution-mode guard.
SubmitJob(j) ==
    /\ job[j].hasId
    /\ registry[RowOf[j]] = j
    /\ last' = [job |-> j, what |-> "submit"]
    /\ UNCHANGED <<app, contested, now, job, tables, task, dbq, sources, serve>>

----------------------------------------------------------------------------
(* The serve loop *)

Due == {j \in Jobs : job[j].heap > 0 /\ job[j].key <= now}

Popped(r) == IF r.heap > 0 /\ r.key <= now THEN DropEntry(r) ELSE r

\* calculate_sleep_time() for the entries left on the heap.
SleepTime(left) ==
    LET delay == IF left = {} THEN DefaultDelay
                 ELSE LET next == CHOOSE t \in left : \A u \in left : t <= u
                      IN  IF next - now < MinDelay THEN MinDelay ELSE next - now
    IN  IF delay > MaxDelay THEN MaxDelay ELSE delay

\* The serve loop wakes on a kick or a timeout, pops every due job, spawns a
\* dispatch for each and sleeps again.
Serve ==
    /\ serve.kicked \/ now >= serve.until
    /\ ~Fresh
    /\ Cardinality(Due) <= Cardinality(Free)
    /\ LET slot == CHOOSE f \in [Due -> Free] : \A a, b \in Due : a # b => f[a] # f[b]
           after == [j \in Jobs |-> Popped(job[j])]
           left == {after[j].key : j \in {i \in Jobs : after[i].heap > 0}}
       IN  /\ job' = after
           /\ task' = [k \in Tasks |-> IF \E j \in Due : slot[j] = k
                                       THEN Spawn("dispatch", CHOOSE j \in Due : slot[j] = k, "spawned")
                                       ELSE task[k]]
           /\ serve' = [until |-> now + SleepTime(left), kicked |-> FALSE]
    /\ last' = None
    /\ UNCHANGED <<app, contested, now, tables, dbq, sources>>

Tick ==
    /\ now < app.until
    /\ now' = now + 1
    /\ last' = None
    /\ UNCHANGED <<app, contested, job, tables, task, dbq, sources, serve>>

----------------------------------------------------------------------------
TaskStep(k) ==
    \/ Registered(k) \/ WatchInstalled(k) \/ RegistrationFails(k) \/ WatchFails(k)
    \/ GuardReleased(k) \/ RemovalWritten(k) \/ RemoveNext(k)
    \/ DispatchStart(k) \/ DispatchPersisted(k) \/ DispatchMoved(k)
    \/ ReschedulePersisted(k) \/ WriteFails(k)

AppStep ==
    \/ \E j \in Jobs : AddJob(j) \/ ReplaceJob(j) \/ RemoveJob(j) \/ SubmitJob(j)
    \/ RemoveAllJobs

Next ==
    \/ AppStep
    \/ \E k \in Tasks : TaskStep(k)
    \/ \E j \in Jobs, t \in (1 .. app.until + 1) \cup {None} : EntityChange(j, t)
    \/ CacheUpdated \/ HandlerStart
    \/ Serve \/ Tick

\* Every runnable task of the event loop runs, and time passes.
Fairness ==
    /\ \A k \in Tasks : WF_vars(TaskStep(k))
    /\ WF_vars(CacheUpdated) /\ WF_vars(HandlerStart)
    /\ WF_vars(Serve) /\ WF_vars(Tick)

Spec == Init /\ [][Next]_vars
FairSpec == Spec /\ Fairness

----------------------------------------------------------------------------
(* Properties *)

TypeOK ==
    /\ app \in Scenarios
    /\ now \in 0..MaxTime
    /\ job \in [Jobs -> [status : {"new", "building", "scheduled", "waiting", "completed", "manual"},
                         next : Times \cup {None}, fire : Times \cup {None},
                         pending : Times \cup {None, WAITING}, dequeued : BOOLEAN,
                         hasId : BOOLEAN, heap : Nat, key : Times \cup {None}]]
    /\ {registry[r] : r \in Rows} \cup {names[r] : r \in Rows} \cup {watch[r] : r \in Rows}
         \subseteq Jobs \cup {None}
    /\ \A k \in Tasks : (task[k].kind = "free") = (task[k] = Idle)
    /\ \A i \in 1..Len(dbq) : task[dbq[i]].at \in {"db", "again", "watch"}
    /\ \A i, k \in 1..Len(dbq) : dbq[i] = dbq[k] => i = k

\* The due-time heap holds a job at most once, and only a job that is
\* scheduled, not removed, and due at the time it is filed under: what
\* pop_due_and_peek_next() asserts of its candidates.
HeapHoldsScheduled ==
    \A j \in Jobs : job[j].heap > 0 =>
        /\ job[j].heap = 1
        /\ job[j].status = "scheduled"
        /\ ~job[j].dequeued
        /\ job[j].key = job[j].fire /\ job[j].fire # None

\* While no database write raises, a live job whose status promises an
\* occurrence is on the heap or in the hands of a task that will put it there.
ScheduledNotLost ==
    \A j \in Jobs : ~app.dbFails /\ job[j].status = "scheduled" /\ ~job[j].dequeued =>
        \/ job[j].heap = 1
        \/ \E k \in Tasks : task[k].job = j /\ task[k].kind \in {"register", "dispatch", "handler"}

\* The heap and the jobs' statuses agree although reschedules, removals and
\* dispatches of one job interleave at every write (scheduler_service.py:456).
HeapSound == HeapHoldsScheduled /\ ScheduledNotLost

\* The serve loop never sleeps past an entry of the heap by as much as its
\* minimum delay, whoever added it and when: no kick is lost.
SleepNeverPastDue ==
    \A j \in Jobs : job[j].heap > 0 /\ ~serve.kicked => serve.until < job[j].key + MinDelay

\* Task k will still act on job j.
Busy(j) == \E k \in Tasks : j = task[k].job \/ j \in task[k].rest

\* Once no write to a row is outstanding, it shows the schedule status of the
\* live job registered under it.  (remove_all_jobs() lets the jobs it is still
\* to remove write to a row that is registered anew.)
RowShowsStatus ==
    \A r \in Rows :
        /\ ~app.dbFails /\ "all" \notin app.removals /\ r \notin contested
        /\ registry[r] # None /\ \A j \in Jobs : RowOf[j] = r => ~Busy(j)
        => row[r].status = job[registry[r]].status

\* A live job is the one its name maps to, or is being removed: with a single
\* registration under way per name, names are unique among live jobs, and
\* remove_all_jobs() reaches every one, unless one of its writes raises.
LiveIsNamed ==
    ~(app.dbFails /\ "all" \in app.removals) => \A j \in Jobs :
        job[j].status \notin {"new", "building"} /\ ~job[j].dequeued /\ RowOf[j] \notin contested
        => names[RowOf[j]] = j \/ \E k \in Tasks : j \in task[k].rest

\* "re-registration clears removal" (repository.py): the row of a live job is
\* not marked removed, which is what if_exists="replace" awaits the old job's
\* removed_at write for.  remove() does not await its write, so this speaks of
\* apps that only replace.
ReplacementKeepsRow ==
    app.removals \subseteq {"replace"} /\ ~app.dbFails =>
        \A r \in Rows \ contested : registry[r] # None => (row[r].removed => job[registry[r]].dequeued)

\* Names, rows and live jobs agree although registrations, replacements and
\* removals of one name interleave with the writes of the old job.
RegistrationsAgree == RowShowsStatus /\ LiveIsNamed /\ ReplacementKeepsRow

\* An automatic occurrence that has become due ends in the decision to run or
\* skip the callable, unless the job is removed, its write fails, or the
\* entity moves it.
DueFires ==
    \A j \in Jobs : (job[j].heap > 0 /\ job[j].key <= now)
        ~> \/ last \in {[job |-> j, what |-> w] : w \in {"run", "skip"}}
           \/ job[j].dequeued \/ app.dbFails \/ app.kind[j] = "entity"
=============================================================================
