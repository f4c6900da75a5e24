--------------------------- MODULE StateProxyProofs ---------------------------
(***************************************************************************)
(* Proofs about StateProxy for any entities, any number of connections,    *)
(* changes and failures, and any names for its tasks: the coordinator runs *)
(* one synchronization at a time and commits it only for its own           *)
(* connection, and a fresh cache is what Home Assistant has told.          *)
(***************************************************************************)
EXTENDS StateProxy, TLAPS, WellFoundedInduction

----------------------------------------------------------------------------
(* The inductive invariant *)

\* The fields of the coordinator's bookkeeping and of a task, whatever is in
\* them: an EXCEPT of one of these fields changes it.
IsSync(s) ==
    s \in [cur : {s.cur}, gen : {s.gen}, status : {s.status}, pending : {s.pending},
           active : {s.active}, journal : {s.journal}, retry : {s.retry}, retryGen : {s.retryGen}]

IsTask(t) ==
    t \in [at : {t.at}, gen : {t.gen}, status : {t.status}, base : {t.base},
           got : {t.got}, cancelled : {t.cancelled}]

AreTasks(tasks) == tasks = [k \in Syncs |-> tasks[k]] /\ \A k \in Syncs : IsTask(tasks[k])

Alive(t) == t.at # "free" /\ ~t.cancelled

\* The task in flight is the one that is alive; a task that the coordinator
\* still has was not cancelled.
Tracks(s, tasks) ==
    /\ \A k \in Syncs : Alive(tasks[k]) => s.cur = k
    /\ s.cur # None => s.cur \in Syncs /\ Alive(tasks[s.cur])
    /\ (s.status = "IDLE") <=> (s.cur = None)

Coordinated == IsSync(sync) /\ AreTasks(task) /\ Tracks(sync, task)

LEMMA CoordinatedGivesOne == Coordinated => TaskTracked
BY StateProxyAssumption DEF Coordinated, Tracks, Alive, TaskTracked

LEMMA CoordinatedInit == Init => Coordinated
<1>. SUFFICES ASSUME Init PROVE Coordinated
  OBVIOUS
<1>1. IsSync(sync)
  BY DEF Init, IsSync, NoSync
<1>2. AreTasks(task)
  <2>1. IsTask(NoTask)
    BY DEF IsTask, NoTask
  <2>. QED BY <2>1 DEF Init, AreTasks
<1>3. Tracks(sync, task)
  BY DEF Init, Tracks, Alive, NoSync, NoTask
<1>. QED BY <1>1, <1>2, <1>3 DEF Coordinated

----------------------------------------------------------------------------
(* Operators *)

\* Only the fields cur and status matter.
LEMMA SameTracks ==
  ASSUME NEW s, NEW t, NEW tasks, Tracks(s, tasks), t.cur = s.cur, t.status = s.status
  PROVE  Tracks(t, tasks)
BY DEF Tracks

LEMMA RetryCancelledSame ==
  ASSUME NEW s, IsSync(s)
  PROVE  /\ IsSync(RetryCancelled(s))
         /\ RetryCancelled(s).cur = s.cur /\ RetryCancelled(s).status = s.status
BY DEF IsSync, RetryCancelled

\* A task is started only when none is in flight, and becomes it.
LEMMA StartSyncCoordinated ==
  ASSUME NEW c, NEW STATE g, NEW STATE cause, NEW STATE status, NEW STATE s, NEW STATE callers,
         AreTasks(task), IsSync(s), Tracks(s, task), s.cur = None, status # "IDLE",
         StartSync(c, g, cause, status, s, callers)
  PROVE  Coordinated'
<1>1. PICK k \in Syncs :
        /\ task[k].at = "free"
        /\ task' = [task EXCEPT ![k] = [NoTask EXCEPT !.at = "spawned", !.gen = g, !.status = status]]
        /\ sync' = [s EXCEPT !.cur = k, !.gen = g, !.status = status]
  BY DEF StartSync
<1>2. IsSync(sync') /\ sync'.cur = k /\ sync'.status = status
  BY <1>1 DEF IsSync
<1>3. AreTasks(task') /\ Alive(task'[k]) /\ \A i \in Syncs \ {k} : task'[i] = task[i]
  BY <1>1 DEF AreTasks, IsTask, Alive, NoTask
<1>4. Tracks(sync', task')
  BY <1>2, <1>3, StateProxyAssumption DEF Tracks
<1>. QED BY <1>2, <1>3, <1>4 DEF Coordinated

\* A round of a request joins the task in flight, starts one or needs none.
LEMMA RequestSyncCoordinated ==
  ASSUME NEW c, NEW STATE g, NEW STATE cause, NEW STATE before,
         AreTasks(task), IsSync(before), Tracks(before, task), RequestSync(c, g, cause, before)
  PROVE  Coordinated'
<1>. DEFINE stale   == Superseded(before, g)
            s       == IF stale THEN RetryCancelled(before) ELSE before
            callers == IF stale THEN WithoutRetry(before) ELSE caller
            want    == IF s.pending = None THEN g ELSE s.pending
<1>1. IsSync(s) /\ s.cur = before.cur /\ s.status = before.status
  BY RetryCancelledSame
<1>2. Tracks(s, task)
  BY <1>1, SameTracks
<1>. HIDE DEF s, callers, stale
<1>3. CASE (sync' = s \/ sync' = [s EXCEPT !.pending = g]) /\ UNCHANGED task
  <2>1. IsSync(sync') /\ sync'.cur = s.cur /\ sync'.status = s.status
    BY <1>1, <1>3 DEF IsSync
  <2>2. Tracks(sync', task')
    BY <1>2, <1>3, <2>1, SameTracks
  <2>. QED BY <1>3, <2>1, <2>2 DEF Coordinated
<1>4. CASE /\ s.cur = None
           /\ StartSync(c, want, cause, StatusFor(want, cause), [s EXCEPT !.pending = None], callers)
  <2>. DEFINE t == [s EXCEPT !.pending = None]
  <2>1. IsSync(t) /\ t.cur = s.cur /\ t.status = s.status
    BY <1>1 DEF IsSync
  <2>2. Tracks(t, task)
    BY <1>2, <2>1, SameTracks
  <2>3. StatusFor(want, cause) # "IDLE"
    BY DEF StatusFor
  <2>. HIDE DEF t, want
  <2>4. StartSync(c, want, cause, StatusFor(want, cause), t, callers)
    BY <1>4 DEF t
  <2>. QED BY <1>1, <1>4, <2>1, <2>2, <2>3, <2>4, StartSyncCoordinated
<1>5. CASE /\ sync' = Forgotten(c, [s EXCEPT !.pending = IF @ = want THEN None ELSE @])
           /\ UNCHANGED task
  <2>1. IsSync(sync') /\ sync'.cur = s.cur /\ sync'.status = s.status
    BY <1>1, <1>5 DEF IsSync, Forgotten
  <2>2. Tracks(sync', task')
    BY <1>2, <1>5, <2>1, SameTracks
  <2>. QED BY <1>5, <2>1, <2>2 DEF Coordinated
<1>. QED BY <1>3, <1>4, <1>5 DEF RequestSync, s, callers, stale

\* A task that ends is free, and no longer in flight if it was.
LEMMA FinishedCoordinated ==
  ASSUME Coordinated, NEW k \in Syncs, task' = [task EXCEPT ![k] = NoTask],
         IsSync(sync'), sync'.cur = Finished(k, sync).cur, sync'.status = Finished(k, sync).status
  PROVE  Coordinated'
<1>1. /\ Finished(k, sync).cur = IF sync.cur = k THEN None ELSE sync.cur
      /\ Finished(k, sync).status = IF sync.cur = k THEN "IDLE" ELSE sync.status
  BY DEF Coordinated, IsSync, Finished
<1>2. AreTasks(task') /\ ~Alive(task'[k]) /\ \A i \in Syncs \ {k} : task'[i] = task[i]
  BY DEF Coordinated, AreTasks, IsTask, Alive, NoTask
<1>3. Tracks(sync', task')
  BY <1>1, <1>2, StateProxyAssumption DEF Coordinated, Tracks
<1>. QED BY <1>2, <1>3 DEF Coordinated

LEMMA FinishedIsSync ==
  ASSUME Coordinated, NEW k PROVE IsSync(Finished(k, sync))
BY DEF Coordinated, IsSync, Finished

\* A retry changes nothing else.
LEMMA RetryScheduledSame ==
  ASSUME NEW STATE g, NEW STATE s, NEW STATE callers, IsSync(s), RetryScheduled(g, s, callers)
  PROVE  IsSync(sync') /\ sync'.cur = s.cur /\ sync'.status = s.status
BY DEF RetryScheduled, IsSync

\* partial_cleanup() ends requests, not tasks.
LEMMA BrokenAlive ==
  ASSUME AreTasks(task)
  PROVE  AreTasks(Broken(task)) /\ \A k \in Syncs : Alive(Broken(task)[k]) <=> Alive(task[k])
<1>1. ASSUME NEW k \in Syncs
      PROVE  IsTask(Broken(task)[k]) /\ (Alive(Broken(task)[k]) <=> Alive(task[k]))
  BY DEF AreTasks, IsTask, Alive, Broken
<1>. QED BY <1>1 DEF AreTasks, Broken

LEMMA BrokenTracks ==
  ASSUME NEW s, AreTasks(task), Tracks(s, task)
  PROVE  AreTasks(Broken(task)) /\ Tracks(s, Broken(task))
BY BrokenAlive DEF Tracks

\* on_disconnect() cancels the task it detaches.
LEMMA DetachCoordinated ==
  ASSUME Coordinated, NEW to, Detach(to) PROVE Coordinated'
<1>1. IsSync(sync') /\ sync'.cur = None /\ sync'.status = "IDLE"
  BY DEF Detach, Gone, Coordinated, IsSync
<1>2. CASE sync.cur # None /\ task' = [task EXCEPT ![sync.cur].cancelled = TRUE]
  <2>1. sync.cur \in Syncs /\ \A k \in Syncs \ {sync.cur} : ~Alive(task[k])
    BY <1>2 DEF Coordinated, Tracks
  <2>2. /\ AreTasks(task') /\ task'[sync.cur].cancelled = TRUE
        /\ \A k \in Syncs \ {sync.cur} : task'[k] = task[k]
    BY <1>2, <2>1 DEF Coordinated, AreTasks, IsTask
  <2>3. \A k \in Syncs : ~Alive(task'[k])
    BY <2>1, <2>2 DEF Alive
  <2>. QED BY <1>1, <2>2, <2>3 DEF Coordinated, Tracks
<1>3. CASE sync.cur = None /\ task' = Broken(task)
  <2>1. AreTasks(task') /\ Tracks(sync, task')
    BY <1>3, BrokenTracks DEF Coordinated
  <2>2. Tracks(sync', task')
    BY <1>1, <1>3, <2>1 DEF Tracks
  <2>. QED BY <1>1, <2>1, <2>2 DEF Coordinated
<1>. QED BY <1>2, <1>3 DEF Detach, Stale

----------------------------------------------------------------------------
(* Steps *)

LEMMA UnchangedCoordinated ==
  ASSUME Coordinated, UNCHANGED <<sync, task>> PROVE Coordinated'
BY DEF Coordinated

\* A task may go on, and the coordinator may note anything but another task.
LEMMA ProgressCoordinated ==
  ASSUME Coordinated, NEW k \in Syncs, AreTasks(task'), Alive(task'[k]) <=> Alive(task[k]),
         \A i \in Syncs \ {k} : task'[i] = task[i],
         IsSync(sync'), sync'.cur = sync.cur, sync'.status = sync.status
  PROVE  Coordinated'
BY DEF Coordinated, Tracks

LEMMA BeginCoordinated ==
  ASSUME Coordinated, NEW k \in Syncs, Begin(k) PROVE Coordinated'
<1>1. IsSync(sync') /\ sync'.cur = sync.cur /\ sync'.status = sync.status
  BY DEF Begin, Coordinated, IsSync
<1>2. /\ AreTasks(task') /\ (Alive(task'[k]) <=> Alive(task[k]))
      /\ \A i \in Syncs \ {k} : task'[i] = task[i]
  BY DEF Begin, Coordinated, AreTasks, IsTask, Alive
<1>. QED BY <1>1, <1>2, ProgressCoordinated

LEMMA AnswersCoordinated ==
  ASSUME Coordinated, NEW k \in Syncs, Answers(k) PROVE Coordinated'
<1>1. /\ AreTasks(task') /\ (Alive(task'[k]) <=> Alive(task[k]))
      /\ \A i \in Syncs \ {k} : task'[i] = task[i]
  BY DEF Answers, Coordinated, AreTasks, IsTask, Alive
<1>2. UNCHANGED sync
  BY DEF Answers
<1>. QED BY <1>1, <1>2, ProgressCoordinated DEF Coordinated

LEMMA RecvStatesCoordinated ==
  ASSUME Coordinated, RecvStates PROVE Coordinated'
<1>. DEFINE k == Head(wire).task
<1>1. UNCHANGED sync
  BY DEF RecvStates
<1>2. CASE UNCHANGED task
  BY <1>1, <1>2, UnchangedCoordinated
<1>3. CASE /\ task[k].at = "answered"
           /\ task' = [task EXCEPT ![k].at = "done", ![k].got = Head(wire).states]
  <2>1. CASE k \in Syncs
    <3>1. /\ AreTasks(task') /\ (Alive(task'[k]) <=> Alive(task[k]))
          /\ \A i \in Syncs \ {k} : task'[i] = task[i]
      BY <1>3, <2>1 DEF Coordinated, AreTasks, IsTask, Alive
    <3>. QED BY <1>1, <2>1, <3>1, ProgressCoordinated DEF Coordinated
  <2>2. CASE k \notin Syncs
    <3>1. task' = task
      BY <1>3, <2>2 DEF Coordinated, AreTasks
    <3>. QED BY <1>1, <3>1, UnchangedCoordinated
  <2>. QED BY <2>1, <2>2
<1>. QED BY <1>2, <1>3 DEF RecvStates

LEMMA CommitCoordinated ==
  ASSUME Coordinated, NEW k \in Syncs, Commit(k) \/ Unwinds(k) PROVE Coordinated'
BY FinishedIsSync, FinishedCoordinated DEF Commit, Unwinds

LEMMA FailsCoordinated ==
  ASSUME Coordinated, NEW k \in Syncs, Fails(k) PROVE Coordinated'
<1>1. task' = [task EXCEPT ![k] = NoTask]
  BY DEF Fails
<1>2. /\ IsSync(sync') /\ sync'.cur = Finished(k, sync).cur
      /\ sync'.status = Finished(k, sync).status
  BY FinishedIsSync, RetryScheduledSame DEF Fails
<1>. QED BY <1>1, <1>2, FinishedCoordinated

\* The poll asks once and does not wait for the task of another.
LEMMA PollCoordinated ==
  ASSUME Coordinated, Poll PROVE Coordinated'
<1>. DEFINE s == IF Superseded(sync, gen) THEN RetryCancelled(sync) ELSE sync
            callers == IF Superseded(sync, gen) THEN WithoutRetry(sync) ELSE caller
            status == IF NeedsSync(gen) THEN StatusFor(gen, "retry") ELSE "POLL"
<1>1. IsSync(s) /\ s.cur = sync.cur /\ s.status = sync.status
  BY RetryCancelledSame DEF Coordinated
<1>2. Tracks(s, task) /\ AreTasks(task)
  BY <1>1, SameTracks DEF Coordinated
<1>3. status # "IDLE"
  BY DEF StatusFor
<1>4. \/ sync' = s /\ UNCHANGED task
      \/ s.cur = None /\ StartSync("poll", gen, "retry", status, s, callers)
  BY DEF Poll
<1>. HIDE DEF s, callers, status
<1>5. CASE sync' = s /\ UNCHANGED task
  BY <1>1, <1>2, <1>5 DEF Coordinated
<1>6. CASE s.cur = None /\ StartSync("poll", gen, "retry", status, s, callers)
  BY <1>1, <1>2, <1>3, <1>6, StartSyncCoordinated
<1>. QED BY <1>4, <1>5, <1>6

\* The requests of serve(), of the bootstrap and of a caller that was woken.
LEMMA RequestsCoordinated ==
  ASSUME Coordinated, Bootstrap \/ Announced \/ \E c \in Callers : Resume(c) PROVE Coordinated'
<1>1. CASE Bootstrap
  BY <1>1, RequestSyncCoordinated, UnchangedCoordinated DEF Bootstrap, Coordinated
<1>2. CASE Announced
  BY <1>2, RequestSyncCoordinated, UnchangedCoordinated DEF Announced, Coordinated
<1>3. ASSUME NEW c \in Callers, Resume(c) PROVE Coordinated'
  <2>1. CASE RequestSync(c, caller[c].gen, caller[c].cause, sync)
    BY <2>1, RequestSyncCoordinated DEF Coordinated
  <2>2. CASE sync' = Forgotten(c, sync) /\ UNCHANGED task
    <3>1. IsSync(sync') /\ sync'.cur = sync.cur /\ sync'.status = sync.status
      BY <2>2 DEF Coordinated, IsSync, Forgotten
    <3>. QED BY <2>2, <3>1 DEF Coordinated, Tracks
  <2>. QED BY <1>3, <2>1, <2>2 DEF Resume
<1>. QED BY <1>1, <1>2, <1>3

LEMMA RetryWakesCoordinated ==
  ASSUME Coordinated, NEW c \in Retries, RetryWakes(c) PROVE Coordinated'
<1>. DEFINE s == [sync EXCEPT !.retry = IF @ = c THEN None ELSE @]
<1>1. IsSync(s) /\ s.cur = sync.cur /\ s.status = sync.status
  BY DEF Coordinated, IsSync
<1>2. Tracks(s, task) /\ AreTasks(task)
  BY <1>1, SameTracks DEF Coordinated
<1>3. RequestSync(c, caller[c].own, "retry", s)
  BY DEF RetryWakes
<1>. HIDE DEF s
<1>. QED BY <1>1, <1>2, <1>3, RequestSyncCoordinated

LEMMA OnStateChangeCoordinated ==
  ASSUME Coordinated, OnStateChange PROVE Coordinated'
<1>1. UNCHANGED task
  BY DEF OnStateChange
<1>2. UNCHANGED sync \/ sync' = Journalled(Head(bus))
  BY DEF OnStateChange
<1>3. IsSync(sync') /\ sync'.cur = sync.cur /\ sync'.status = sync.status
  BY <1>2 DEF Coordinated, IsSync, Journalled
<1>. QED BY <1>1, <1>3 DEF Coordinated, Tracks

\* The steps in which serve() leaves a connection.
LEMMA DisconnectCoordinated ==
  ASSUME Coordinated, Retried \/ Dropped \/ RetryGone \/ SyncGone PROVE Coordinated'
<1>1. CASE UNCHANGED sync /\ task' = Broken(task)
  BY <1>1, BrokenTracks DEF Coordinated
<1>2. CASE sync' = RetryCancelled(sync) /\ UNCHANGED task
  BY <1>2, RetryCancelledSame, SameTracks DEF Coordinated
<1>3. CASE \E to : Detach(to)
  BY <1>3, DetachCoordinated
<1>4. CASE UNCHANGED <<sync, task>>
  BY <1>4, UnchangedCoordinated
<1>. QED BY <1>1, <1>2, <1>3, <1>4 DEF Retried, Dropped, RetryGone, SyncGone, Stale

LEMMA CoordinatedStep == Coordinated /\ [Next]_vars => Coordinated'
<1>. SUFFICES ASSUME Coordinated, [Next]_vars PROVE Coordinated'
  OBVIOUS
<1>1. CASE (WsNext /\ UNCHANGED proxy) \/ Wire \/ Notified
  BY <1>1, UnchangedCoordinated DEF proxy, Wire, Notified
<1>2. CASE Bootstrap \/ Announced \/ \E c \in Callers : Resume(c)
  BY <1>2, RequestsCoordinated
<1>3. CASE Poll
  BY <1>3, PollCoordinated
<1>4. CASE OnStateChange \/ RecvStates
  BY <1>4, OnStateChangeCoordinated, RecvStatesCoordinated
<1>5. CASE Retried \/ Dropped \/ RetryGone \/ SyncGone
  BY <1>5, DisconnectCoordinated
<1>6. CASE \E c \in Retries : RetryWakes(c)
  BY <1>6, RetryWakesCoordinated
<1>7. CASE \E k \in Syncs : SyncStep(k) \/ Answers(k)
  BY <1>7, BeginCoordinated, CommitCoordinated, FailsCoordinated, AnswersCoordinated DEF SyncStep
<1>8. CASE UNCHANGED vars
  BY <1>8, UnchangedCoordinated DEF vars
<1>. QED BY <1>1, <1>2, <1>3, <1>4, <1>5, <1>6, <1>7, <1>8 DEF Next

----------------------------------------------------------------------------
(* The retries, and the requests that come without a connection *)

IsCaller(r) ==
    r \in [at : {r.at}, on : {r.on}, gen : {r.gen}, own : {r.own}, cause : {r.cause}, again : BOOLEAN]

AreCallers(callers) ==
    callers = [c \in Callers |-> callers[c]] /\ \A c \in Callers : IsCaller(callers[c])

Sleeps(c) == caller[c].at = "asleep"
Asks(c)   == caller[c].at \in {"awaits", "woken"} /\ caller[c].again
AsksNone  == \E c \in Callers : Asks(c) /\ caller[c].gen = None
Phases    == {"announcing", "notifying", "serving"}

\* The generation is that of the last connection, while its receive task runs.
Connection ==
    /\ seq \in Nat /\ gen \in {seq, None}
    /\ pc \in Phases => recv \in {"running", "dead"} /\ (recv = "running" <=> gen # None)
    /\ pc \notin Phases => gen = None
    /\ pc = "subscribing" => recv \in {"running", "dead"} /\ (acked => recv = "running")
    /\ leaving \in {"connecting", "stopped"}

\* The coordinator knows the retry that sleeps, and its task's generation.
Known ==
    /\ \A c \in Callers : Sleeps(c) => c \in Retries /\ sync.retry = c /\ sync.retryGen = caller[c].own
    /\ sync.retry # None => sync.retry \in Retries /\ Sleeps(sync.retry)
    /\ env.polling => sync.retry = None
    /\ sync.cur # None => sync.gen = task[sync.cur].gen
    /\ sync.status = "POLL" => sync.gen # None /\ env.polling
    /\ caller["serve"].at # "idle" => pc = "notifying"
    /\ ~wired => sync.cur = None /\ \A c \in Callers : caller[c].at = "idle"

\* serve() still announces a connection that is already gone.
Down == pc \in {"notifying", "serving"} /\ gen = None /\ wired

\* What is asked for then, without a generation, ends with that connection.
Lateness ==
    /\ \A k \in Syncs : Alive(task[k]) /\ task[k].gen = None =>
          task[k].at \in {"spawned", "broken"} /\ Down /\ sync.retry = None /\ ~AsksNone
    /\ \A c \in Callers : Sleeps(c) /\ caller[c].own = None => Down /\ sync.cur = None /\ ~AsksNone
    /\ \A c \in Callers : Asks(c) /\ caller[c].gen = None => c = "serve" /\ Down

\* Without the poll all requests are about the connection of the moment.
Current ==
    ~env.polling =>
        /\ \A c \in Callers : Asks(c) => caller[c].gen = None
        /\ sync.pending = None
        /\ sync.cur # None => sync.gen \in {seq, None}
        /\ \A c \in Callers : Sleeps(c) => caller[c].own \in {seq, None}
        /\ pc \notin Phases => sync.retry = None
        /\ pc \notin Phases \cup {"cancelling"} => sync.cur = None

ProxyInv == Coordinated /\ AreCallers(caller) /\ Connection /\ Known /\ Lateness /\ Current

----------------------------------------------------------------------------
(* The outcomes of a request by caller c for generation g, from the bookkeeping s *)

Want(s, g) == IF s.pending = None THEN g ELSE s.pending

\* It waits for the task in flight, perhaps to ask again.
Joined(c, g, s) ==
    /\ s.cur # None /\ task' = task
    /\ sync'.cur = s.cur /\ sync'.gen = s.gen /\ sync'.status = s.status
    /\ caller'[c].at = "awaits" /\ caller'[c].gen = g
    /\ sync'.pending = IF caller'[c].again THEN g ELSE s.pending
    /\ caller'[c].again => s.status = "POLL" \/ (s.gen # None /\ s.gen # g)

Started(c, g, s) ==
    /\ s.cur = None
    /\ \E k \in Syncs :
          /\ sync'.cur = k /\ task'[k].gen = g /\ task'[k].at = "spawned"
          /\ \A i \in Syncs \ {k} : task'[i] = task[i]
    /\ sync'.gen = g /\ sync'.pending \in {None, s.pending}
    /\ caller'[c].at = "awaits" /\ caller'[c].again = FALSE

NotNeeded(c, s) ==
    /\ s.cur = None /\ task' = task
    /\ sync'.cur = None /\ sync'.gen = s.gen /\ sync'.status = s.status
    /\ sync'.pending \in {None, s.pending}
    /\ caller'[c].at = "idle"

\* The retry of another generation is cancelled; nobody else is touched.
RetryKept(c, g, s) ==
    /\ sync'.retry \in {None, s.retry}
    /\ sync'.retry # None => sync'.retryGen = s.retryGen
    /\ s.retryGen # None /\ s.retryGen # g => sync'.retry = None
    /\ \A d \in Callers \ {c} : caller'[d] = caller[d] \/ caller'[d] = Rest
    /\ \A d \in Callers \ {c} : d # s.retry => caller'[d] = caller[d]
    /\ s.retry # None /\ s.retry # c /\ sync'.retry = None => caller'[s.retry].at = "idle"
    /\ s.retry # None /\ s.retry # c /\ sync'.retry # None => caller'[s.retry] = caller[s.retry]

LEMMA RestIsCaller == IsCaller(Rest)
BY DEF IsCaller, Rest

LEMMA ChangedCaller ==
  ASSUME NEW callers, AreCallers(callers), NEW c, NEW r, IsCaller(r)
  PROVE  /\ AreCallers([callers EXCEPT ![c] = r])
         /\ c \in Callers => [callers EXCEPT ![c] = r][c] = r
         /\ \A d \in Callers : d # c => [callers EXCEPT ![c] = r][d] = callers[d]
<1>1. CASE c \in Callers
  BY <1>1 DEF AreCallers
<1>2. CASE c \notin Callers
  BY <1>2 DEF AreCallers
<1>. QED BY <1>1, <1>2

LEMMA WithoutRetryEffect ==
  ASSUME AreCallers(caller), NEW s
  PROVE  /\ AreCallers(WithoutRetry(s))
         /\ \A d \in Callers : d # s.retry => WithoutRetry(s)[d] = caller[d]
         /\ s.retry # None /\ s.retry \in Callers => WithoutRetry(s)[s.retry] = Rest
BY RestIsCaller, ChangedCaller DEF WithoutRetry

LEMMA StartSyncEffect ==
  ASSUME NEW c \in Callers, NEW STATE g, NEW STATE cause, NEW STATE status, NEW STATE s,
         NEW STATE callers, AreTasks(task), IsSync(s), AreCallers(callers), s.cur = None,
         StartSync(c, g, cause, status, s, callers)
  PROVE  /\ Started(c, g, s) /\ AreCallers(caller')
         /\ sync'.status = status
         /\ sync'.retry = s.retry /\ sync'.retryGen = s.retryGen
         /\ \A d \in Callers \ {c} : caller'[d] = callers[d]
<1>1. PICK k \in Syncs :
        /\ task' = [task EXCEPT ![k] = [NoTask EXCEPT !.at = "spawned", !.gen = g, !.status = status]]
        /\ sync' = [s EXCEPT !.cur = k, !.gen = g, !.status = status]
        /\ caller' = [callers EXCEPT ![c] = [@ EXCEPT !.at = "awaits", !.on = k, !.gen = g,
                                                      !.cause = cause, !.again = FALSE]]
  BY DEF StartSync
<1>2. /\ sync'.cur = k /\ sync'.gen = g /\ sync'.pending = s.pending /\ sync'.status = status
      /\ sync'.retry = s.retry /\ sync'.retryGen = s.retryGen
  BY <1>1 DEF IsSync
<1>3. /\ task'[k].gen = g /\ task'[k].at = "spawned"
      /\ \A i \in Syncs \ {k} : task'[i] = task[i]
  BY <1>1 DEF AreTasks, NoTask
<1>. DEFINE r == [callers[c] EXCEPT !.at = "awaits", !.on = k, !.gen = g, !.cause = cause, !.again = FALSE]
<1>4. IsCaller(r) /\ r.at = "awaits" /\ r.again = FALSE
  BY DEF AreCallers, IsCaller
<1>5. caller' = [callers EXCEPT ![c] = r]
  BY <1>1
<1>. HIDE DEF r
<1>6. AreCallers(caller') /\ caller'[c] = r /\ \A d \in Callers : d # c => caller'[d] = callers[d]
  <2>. DEFINE cs == [callers EXCEPT ![c] = r]
  <2>1. AreCallers(cs) /\ cs[c] = r /\ \A d \in Callers : d # c => cs[d] = callers[d]
    BY <1>4, ChangedCaller
  <2>. QED BY <1>5, <2>1
<1>. QED BY <1>2, <1>3, <1>4, <1>6 DEF Started

LEMMA RetryKeptIf ==
  ASSUME NEW c, NEW STATE g, NEW STATE before, NEW STATE retry, NEW STATE callers,
         before.retry # None => before.retry \in Callers /\ before.retry # c,
         Superseded(before, g) => retry = None,
         ~Superseded(before, g) => retry = before.retry /\ callers = caller,
         sync'.retry = retry, sync'.retry # None => sync'.retryGen = before.retryGen,
         \A d \in Callers : d # before.retry => callers[d] = caller[d],
         Superseded(before, g) /\ before.retry # None => callers[before.retry] = Rest,
         \A d \in Callers : d # c => caller'[d] = callers[d]
  PROVE  RetryKept(c, g, before)
<1>1. Rest.at = "idle"
  BY DEF Rest
<1>2. CASE Superseded(before, g)
  <2>1. sync'.retry = None
    BY <1>2
  <2>2. \A d \in Callers \ {c} : d # before.retry => caller'[d] = caller[d]
    OBVIOUS
  <2>3. before.retry # None => caller'[before.retry] = Rest
    BY <1>2
  <2>4. \A d \in Callers \ {c} : caller'[d] = caller[d] \/ caller'[d] = Rest
    <3>1. \A d \in Callers : d = before.retry \/ callers[d] = caller[d]
      OBVIOUS
    <3>2. None \notin Callers
      BY StateProxyAssumption DEF Callers
    <3>. QED BY <1>2, <3>1, <3>2
  <2>5. sync'.retry \in {None, before.retry}
    BY <2>1
  <2>. QED BY <1>1, <2>1, <2>2, <2>3, <2>4, <2>5 DEF RetryKept
<1>3. CASE ~Superseded(before, g)
  <2>1. \A d \in Callers \ {c} : caller'[d] = caller[d]
    BY <1>3
  <2>. QED BY <1>3, <2>1 DEF RetryKept, Superseded
<1>. QED BY <1>2, <1>3

LEMMA RequestSyncEffect ==
  ASSUME NEW c \in Callers, NEW STATE g, NEW STATE cause, NEW STATE before,
         AreTasks(task), IsSync(before), AreCallers(caller),
         before.retry # None => before.retry \in Callers /\ before.retry # c,
         RequestSync(c, g, cause, before)
  PROVE  /\ AreCallers(caller') /\ RetryKept(c, g, before)
         /\ \/ Joined(c, g, before)
            \/ Started(c, Want(before, g), before) /\ sync'.status # "POLL"
            \/ NotNeeded(c, before)
<1>. DEFINE stale   == Superseded(before, g)
            s       == IF stale THEN RetryCancelled(before) ELSE before
            callers == IF stale THEN WithoutRetry(before) ELSE caller
            want    == Want(s, g)
            again   == s.status = "POLL" \/ (s.gen # None /\ s.gen # g)
<1>1. /\ IsSync(s) /\ s.cur = before.cur /\ s.gen = before.gen /\ s.status = before.status
      /\ s.pending = before.pending
      /\ stale => s.retry = None
      /\ ~stale => s.retry = before.retry /\ s.retryGen = before.retryGen
  BY DEF IsSync, RetryCancelled
<1>2. /\ AreCallers(callers)
      /\ \A d \in Callers : d # before.retry => callers[d] = caller[d]
      /\ stale /\ before.retry # None => callers[before.retry] = Rest
      /\ ~stale => callers = caller
  BY WithoutRetryEffect
<1>3. before.retryGen # None /\ before.retryGen # g <=> stale
  BY DEF Superseded
<1>4. want = Want(before, g)
  BY <1>1 DEF Want
<1>5. ASSUME s.cur # None,
             sync' = IF again THEN [s EXCEPT !.pending = g] ELSE s,
             caller' = [callers EXCEPT ![c] = [@ EXCEPT !.at = "awaits", !.on = s.cur, !.gen = g,
                                                         !.cause = cause, !.again = again]],
             UNCHANGED task
      PROVE  AreCallers(caller') /\ RetryKept(c, g, before) /\ Joined(c, g, before)
  <2>. DEFINE r == [callers[c] EXCEPT !.at = "awaits", !.on = s.cur, !.gen = g, !.cause = cause, !.again = again]
  <2>1. IsCaller(r) /\ r.at = "awaits" /\ r.gen = g /\ r.again = again
    <3>1. again \in BOOLEAN
      OBVIOUS
    <3>2. callers[c] \in [at : {callers[c].at}, on : {callers[c].on}, gen : {callers[c].gen},
                           own : {callers[c].own}, cause : {callers[c].cause}, again : BOOLEAN]
      BY <1>2 DEF AreCallers, IsCaller
    <3>. HIDE DEF again, callers, s
    <3>3. /\ r.at = "awaits" /\ r.gen = g /\ r.again = again
          /\ r \in [at : {r.at}, on : {r.on}, gen : {r.gen}, own : {r.own}, cause : {r.cause},
                    again : BOOLEAN]
      BY <3>1, <3>2
    <3>. QED BY <3>3 DEF IsCaller
  <2>2. AreCallers(caller') /\ caller'[c] = r /\ \A d \in Callers : d # c => caller'[d] = callers[d]
    <3>. DEFINE cs == [callers EXCEPT ![c] = r]
    <3>. HIDE DEF r, callers
    <3>1. AreCallers(cs) /\ cs[c] = r /\ \A d \in Callers : d # c => cs[d] = callers[d]
      BY <1>2, <2>1, ChangedCaller
    <3>2. caller' = cs
      BY <1>5 DEF r
    <3>. QED BY <3>1, <3>2
  <2>. HIDE DEF r, callers
  <2>3. /\ sync'.cur = s.cur /\ sync'.gen = s.gen /\ sync'.status = s.status
        /\ sync'.retry = s.retry /\ sync'.retryGen = s.retryGen
        /\ sync'.pending = IF again THEN g ELSE s.pending
    <3>. HIDE DEF s
    <3>1. CASE again
      BY <1>1, <1>5, <3>1 DEF IsSync
    <3>2. CASE ~again
      BY <1>5, <3>2
    <3>. QED BY <3>1, <3>2
  <2>. HIDE DEF s
  <2>4. Joined(c, g, before)
    BY <1>1, <1>5, <2>1, <2>2, <2>3 DEF Joined
  <2>5. RetryKept(c, g, before)
    BY <1>1, <1>2, <2>2, <2>3, RetryKeptIf DEF stale
  <2>. QED BY <2>2, <2>4, <2>5
<1>6. ASSUME s.cur = None, NeedsSync(want),
             StartSync(c, want, cause, StatusFor(want, cause), [s EXCEPT !.pending = None], callers)
      PROVE  /\ AreCallers(caller') /\ RetryKept(c, g, before)
             /\ Started(c, Want(before, g), before) /\ sync'.status # "POLL"
  <2>. DEFINE t == [s EXCEPT !.pending = None]
              st == StatusFor(want, cause)
  <2>1. IsSync(t) /\ t.cur = s.cur /\ t.retry = s.retry /\ t.retryGen = s.retryGen /\ t.pending = None
    BY <1>1 DEF IsSync
  <2>2. st # "POLL"
    BY <1>6 DEF StatusFor, NeedsSync
  <2>3. StartSync(c, want, cause, st, t, callers)
    BY <1>6
  <2>. HIDE DEF t, st, want, s, callers, stale
  <2>4. /\ Started(c, want, t) /\ AreCallers(caller') /\ sync'.status = st
        /\ sync'.retry = t.retry /\ sync'.retryGen = t.retryGen
        /\ \A d \in Callers \ {c} : caller'[d] = callers[d]
    BY <1>2, <1>6, <2>1, <2>3, StartSyncEffect
  <2>5. Started(c, want, before)
    BY <1>1, <2>1, <2>4 DEF Started
  <2>6. RetryKept(c, g, before)
    BY <1>1, <1>2, <2>1, <2>4, RetryKeptIf DEF stale
  <2>. QED BY <1>4, <2>2, <2>4, <2>5, <2>6
<1>7. ASSUME s.cur = None,
             sync' = Forgotten(c, [s EXCEPT !.pending = IF @ = want THEN None ELSE @]),
             caller' = [callers EXCEPT ![c] = Rest],
             UNCHANGED task
      PROVE  AreCallers(caller') /\ RetryKept(c, g, before) /\ NotNeeded(c, before)
  <2>. HIDE DEF s, callers, want, stale
  <2>1. AreCallers(caller') /\ caller'[c] = Rest /\ \A d \in Callers : d # c => caller'[d] = callers[d]
    <3>. DEFINE cs == [callers EXCEPT ![c] = Rest]
    <3>1. AreCallers(cs) /\ cs[c] = Rest /\ \A d \in Callers : d # c => cs[d] = callers[d]
      BY <1>2, RestIsCaller, ChangedCaller
    <3>. QED BY <1>7, <3>1
  <2>2. /\ sync'.cur = s.cur /\ sync'.gen = s.gen /\ sync'.status = s.status
        /\ sync'.retry = s.retry /\ (sync'.retry # None => sync'.retryGen = s.retryGen)
        /\ sync'.pending \in {None, s.pending}
    BY <1>1, <1>7 DEF IsSync, Forgotten
  <2>3. NotNeeded(c, before)
    BY <1>1, <1>7, <2>1, <2>2 DEF NotNeeded, Rest
  <2>4. RetryKept(c, g, before)
    BY <1>1, <1>2, <2>1, <2>2, RetryKeptIf DEF stale
  <2>. QED BY <2>1, <2>3, <2>4
<1>. HIDE DEF again
<1>8. \/ /\ s.cur # None
         /\ sync' = IF again THEN [s EXCEPT !.pending = g] ELSE s
         /\ caller' = [callers EXCEPT ![c] = [@ EXCEPT !.at = "awaits", !.on = s.cur, !.gen = g,
                                                         !.cause = cause, !.again = again]]
         /\ UNCHANGED task
      \/ /\ s.cur = None /\ NeedsSync(want)
         /\ StartSync(c, want, cause, StatusFor(want, cause), [s EXCEPT !.pending = None], callers)
      \/ /\ s.cur = None
         /\ sync' = Forgotten(c, [s EXCEPT !.pending = IF @ = want THEN None ELSE @])
         /\ caller' = [callers EXCEPT ![c] = Rest]
         /\ UNCHANGED task
  BY DEF RequestSync, Want, again
<1>. QED BY <1>5, <1>6, <1>7, <1>8

----------------------------------------------------------------------------
(* Steps that only end what is under way *)

\* Callers wake up, rest or stay; nobody starts to sleep or to ask.
Eased ==
    \A c \in Callers :
        /\ caller'[c].at = "asleep" => Sleeps(c) /\ caller'[c].own = caller[c].own
        /\ Sleeps(c) => caller'[c].at = "asleep"
        /\ Asks(c)' => Asks(c) /\ caller'[c].gen = caller[c].gen
        /\ caller[c].at = "idle" => caller'[c].at = "idle"

\* Tasks go on or end, and the coordinator forgets those that end.
Wound ==
    /\ \A k \in Syncs : Alive(task'[k]) =>
          /\ Alive(task[k]) /\ task'[k].gen = task[k].gen
          /\ task[k].gen = None => task'[k].at \in {"spawned", "broken"}
    /\ sync'.cur \in {None, sync.cur}
    /\ sync'.cur # None => sync'.gen = sync.gen /\ task'[sync.cur].gen = task[sync.cur].gen
    /\ sync'.status = "POLL" => sync.status = "POLL" /\ sync'.gen = sync.gen
    /\ sync'.pending = sync.pending
    /\ sync'.retry = sync.retry
    /\ sync'.retry # None => sync'.retryGen = sync.retryGen

\* serve() stays where its requests may be under way.
Steady ==
    /\ UNCHANGED <<env, wired>>
    /\ caller["serve"].at # "idle" => (pc = "notifying" => pc' = "notifying")
    /\ Down => Down'
    /\ pc \in Phases => pc' \in Phases
    /\ pc = "cancelling" => pc' = "cancelling"
    /\ seq' = seq \/ pc \notin Phases \cup {"cancelling"}

LEMMA WoundKnown ==
  ASSUME Known, Eased, Wound, Steady PROVE Known'
<1>1. \A c \in Callers : Sleeps(c)' => c \in Retries /\ sync'.retry = c /\ sync'.retryGen = caller'[c].own
  <2>. SUFFICES ASSUME NEW c \in Callers, Sleeps(c)'
                PROVE  c \in Retries /\ sync'.retry = c /\ sync'.retryGen = caller'[c].own
    OBVIOUS
  <2>1. Sleeps(c) /\ caller'[c].own = caller[c].own
    BY DEF Eased, Sleeps
  <2>2. c \in Retries /\ sync.retry = c /\ sync.retryGen = caller[c].own /\ c # None
    BY <2>1, StateProxyAssumption DEF Known
  <2>. QED BY <2>1, <2>2 DEF Wound
<1>2. sync'.retry # None => sync'.retry \in Retries /\ Sleeps(sync.retry)'
  <2>. SUFFICES ASSUME sync'.retry # None PROVE sync'.retry \in Retries /\ Sleeps(sync.retry)'
    OBVIOUS
  <2>1. sync'.retry = sync.retry /\ sync.retry \in Retries /\ Sleeps(sync.retry)
    BY DEF Known, Wound
  <2>. QED BY <2>1 DEF Eased, Sleeps, Callers
<1>3. env'.polling => sync'.retry = None
  BY DEF Known, Wound, Steady
<1>4. sync'.cur # None => sync'.gen = task'[sync'.cur].gen
  BY DEF Known, Wound
<1>5. sync'.status = "POLL" => sync'.gen # None /\ env'.polling
  BY DEF Known, Wound, Steady
<1>6. caller'["serve"].at # "idle" => pc' = "notifying"
  BY DEF Known, Eased, Steady, Callers
<1>7. ~wired' => sync'.cur = None /\ \A c \in Callers : caller'[c].at = "idle"
  BY DEF Known, Wound, Eased, Steady
<1>. QED BY <1>1, <1>2, <1>3, <1>4, <1>5, <1>6, <1>7 DEF Known

LEMMA WoundLateness ==
  ASSUME Lateness, Eased, Wound, Steady PROVE Lateness'
<1>1. AsksNone' => AsksNone
  BY DEF AsksNone, Eased
<1>2. \A k \in Syncs : Alive(task'[k]) /\ task'[k].gen = None =>
          task'[k].at \in {"spawned", "broken"} /\ Down' /\ sync'.retry = None /\ ~AsksNone'
  <2>. SUFFICES ASSUME NEW k \in Syncs, Alive(task'[k]), task'[k].gen = None
                PROVE  task'[k].at \in {"spawned", "broken"} /\ Down' /\ sync'.retry = None /\ ~AsksNone'
    OBVIOUS
  <2>1. Alive(task[k]) /\ task[k].gen = None /\ task'[k].at \in {"spawned", "broken"}
    BY DEF Wound
  <2>. QED BY <1>1, <2>1 DEF Lateness, Wound, Steady
<1>3. \A c \in Callers : Sleeps(c)' /\ caller'[c].own = None => Down' /\ sync'.cur = None /\ ~AsksNone'
  BY <1>1 DEF Lateness, Eased, Wound, Steady, Sleeps
<1>4. \A c \in Callers : Asks(c)' /\ caller'[c].gen = None => c = "serve" /\ Down'
  BY DEF Lateness, Eased, Steady
<1>. QED BY <1>2, <1>3, <1>4 DEF Lateness, Alive

LEMMA WoundCurrent ==
  ASSUME Known, Current, Eased, Wound, Steady PROVE Current'
<1>. SUFFICES ASSUME ~env'.polling
     PROVE  /\ \A c \in Callers : Asks(c)' => caller'[c].gen = None
            /\ sync'.pending = None
            /\ sync'.cur # None => sync'.gen \in {seq', None}
            /\ \A c \in Callers : Sleeps(c)' => caller'[c].own \in {seq', None}
            /\ pc' \notin Phases => sync'.retry = None
            /\ pc' \notin Phases \cup {"cancelling"} => sync'.cur = None
  BY DEF Current
<1>1. ~env.polling
  BY DEF Steady
<1>2. \A c \in Callers : Asks(c)' => caller'[c].gen = None
  BY <1>1 DEF Current, Eased
<1>3. sync'.pending = None /\ (sync'.cur # None => sync'.gen \in {seq', None})
  BY <1>1 DEF Current, Wound, Steady
<1>4. ASSUME NEW c \in Callers, Sleeps(c)' PROVE caller'[c].own \in {seq', None}
  <2>1. Sleeps(c) /\ caller'[c].own = caller[c].own
    BY <1>4 DEF Eased, Sleeps
  <2>2. sync.retry = c /\ c # None
    BY <2>1, StateProxyAssumption DEF Known
  <2>. QED BY <1>1, <2>1, <2>2 DEF Current, Steady
<1>5. pc' \notin Phases => sync'.retry = None
  BY <1>1 DEF Current, Wound, Steady
<1>6. pc' \notin Phases \cup {"cancelling"} => sync'.cur = None
  BY <1>1 DEF Current, Wound, Steady
<1>. QED BY <1>2, <1>3, <1>4, <1>5, <1>6

LEMMA WoundKeeps ==
  ASSUME ProxyInv, Eased, Wound, Steady PROVE Known' /\ Lateness' /\ Current'
BY WoundKnown, WoundLateness, WoundCurrent DEF ProxyInv

----------------------------------------------------------------------------
(* The connection *)

LEMMA ConnectionSame ==
  ASSUME Connection, UNCHANGED <<gen, seq, pc, recv, leaving>>, acked' = acked \/ recv = "running"
  PROVE  Connection'
BY DEF Connection, Phases

LEMMA SubscribedConnection ==
  ASSUME Connection, Subscribed, leaving' = leaving PROVE Connection'
<1>1. seq' \in Nat /\ gen' = seq' /\ gen' # None
  BY WebsocketAssumption DEF Connection, Subscribed
<1>2. pc' = "announcing" /\ recv' = "running"
  BY DEF Connection, Subscribed, link
<1>. QED BY <1>1, <1>2 DEF Connection, Phases

LEMMA ConnectionStep ==
  ASSUME Connection, [Next]_vars PROVE Connection'
<1>. USE DEF link, hass
<1>1. CASE WsNext /\ UNCHANGED proxy
  <2>1. CASE ServeStarts \/ Opened \/ AuthFails
    BY <1>1, <2>1 DEF ServeStarts, Opened, AuthFails, Lose, Connection, Phases, proxy
  <2>2. CASE Subscribed
    BY <1>1, <2>2, SubscribedConnection DEF proxy
  <2>3. CASE RecvDies
    BY <1>1, <2>3 DEF RecvDies, Lose, Connection, Phases, proxy
  <2>4. CASE RecvEvent \/ RecvAck \/ Subscribes \/ \E e \in Entities, gone \in BOOLEAN : Changes(e, gone)
    BY <1>1, <2>4, ConnectionSame DEF RecvEvent, RecvAck, Subscribes, Changes, proxy
  <2>. QED BY <1>1, <2>1, <2>2, <2>3, <2>4 DEF WsNext
<1>2. CASE Retried
  BY <1>2 DEF Retried, AttemptFails, Cleanup, Lose, Connection, Phases
<1>3. CASE Wire \/ Bootstrap \/ Poll \/ (\E c \in Callers : Resume(c)) \/ \E c \in Retries : RetryWakes(c)
  BY <1>3, ConnectionSame DEF Wire, Bootstrap, Poll, Resume, RetryWakes, wsvars
<1>4. CASE Announced \/ Notified
  BY <1>4 DEF Announced, Notified, Connection, Phases
<1>5. CASE OnStateChange \/ RecvStates
  BY <1>5, ConnectionSame DEF OnStateChange, RecvStates
<1>6. CASE Dropped
  <2>1. /\ pc' \in {"connecting", "stopped", "cancelling", "unwinding"} /\ gen' = None /\ seq' = seq
        /\ leaving' \in {"connecting", "stopped"}
    BY <1>6 DEF Dropped, Detach, Stale, Lose
  <2>. QED BY <2>1 DEF Connection, Phases
<1>7. CASE RetryGone \/ SyncGone
  <2>1. /\ pc' \in {"connecting", "stopped", "unwinding"} /\ UNCHANGED <<gen, seq, leaving>>
        /\ pc \notin Phases
    BY <1>7 DEF RetryGone, SyncGone, Detach, Stale, Connection, Phases
  <2>. QED BY <2>1 DEF Connection, Phases
<1>8. CASE \E k \in Syncs : SyncStep(k) \/ Answers(k)
  BY <1>8, ConnectionSame DEF SyncStep, Begin, Commit, Fails, Unwinds, Answers, wsvars
<1>9. CASE UNCHANGED vars
  BY <1>9, ConnectionSame DEF vars, wsvars
<1>. QED BY <1>1, <1>2, <1>3, <1>4, <1>5, <1>6, <1>7, <1>8, <1>9 DEF Next

----------------------------------------------------------------------------
(* The steps without a request *)

LEMMA SameEased ==
  ASSUME AreCallers(caller), caller' = caller PROVE Eased /\ AreCallers(caller')
BY DEF Eased, Sleeps, Asks

\* A task may take its next step; one of a connection that is gone stays where it is.
LEMMA ProgressWound ==
  ASSUME ProxyInv,
         \A k \in Syncs : /\ Alive(task'[k]) <=> Alive(task[k])
                          /\ task'[k].gen = task[k].gen
                          /\ Alive(task[k]) /\ task[k].gen = None => task'[k].at \in {"spawned", "broken"},
         sync'.cur = sync.cur, sync'.gen = sync.gen, sync'.status = sync.status,
         sync'.pending = sync.pending, sync'.retry = sync.retry, sync'.retryGen = sync.retryGen
  PROVE  Wound
<1>1. sync.cur # None => sync.cur \in Syncs
  BY DEF ProxyInv, Coordinated, Tracks
<1>. QED BY <1>1 DEF Wound

LEMMA SameWound ==
  ASSUME ProxyInv, UNCHANGED <<sync, task>> PROVE Wound
<1>1. \A k \in Syncs : Alive(task[k]) /\ task[k].gen = None => task[k].at \in {"spawned", "broken"}
  BY DEF ProxyInv, Lateness
<1>2. \A k \in Syncs : Alive(task'[k]) <=> Alive(task[k])
  BY DEF Alive
<1>. QED BY <1>1, <1>2, ProgressWound

LEMMA FinishedWound ==
  ASSUME ProxyInv, NEW k \in Syncs, task' = [task EXCEPT ![k] = NoTask],
         sync'.cur = Finished(k, sync).cur, sync'.gen = Finished(k, sync).gen,
         sync'.status = Finished(k, sync).status, sync'.pending = Finished(k, sync).pending,
         sync'.retry = Finished(k, sync).retry, sync'.retryGen = Finished(k, sync).retryGen
  PROVE  Wound
<1>1. /\ Finished(k, sync).cur = IF sync.cur = k THEN None ELSE sync.cur
      /\ Finished(k, sync).gen = IF sync.cur = k THEN None ELSE sync.gen
      /\ Finished(k, sync).status = IF sync.cur = k THEN "IDLE" ELSE sync.status
      /\ Finished(k, sync).pending = sync.pending /\ Finished(k, sync).retry = sync.retry
      /\ Finished(k, sync).retryGen = sync.retryGen
  BY DEF ProxyInv, Coordinated, IsSync, Finished
<1>2. ~Alive(task'[k]) /\ \A i \in Syncs \ {k} : task'[i] = task[i]
  BY DEF ProxyInv, Coordinated, AreTasks, IsTask, Alive, NoTask
<1>3. \A i \in Syncs : Alive(task'[i]) =>
          /\ Alive(task[i]) /\ task'[i].gen = task[i].gen
          /\ task[i].gen = None => task'[i].at \in {"spawned", "broken"}
  BY <1>2 DEF ProxyInv, Lateness
<1>4. sync'.cur # None => sync.cur # k /\ sync.cur \in Syncs
  BY <1>1 DEF ProxyInv, Coordinated, Tracks
<1>5. sync'.cur # None => sync'.gen = sync.gen /\ task'[sync.cur].gen = task[sync.cur].gen
  BY <1>1, <1>2, <1>4
<1>6. sync'.cur \in {None, sync.cur} /\ (sync'.status = "POLL" => sync.status = "POLL" /\ sync'.gen = sync.gen)
  BY <1>1
<1>. QED BY <1>1, <1>3, <1>5, <1>6 DEF Wound

\* Who awaits the task wakes up, or ends with it.
LEMMA AwokenEffect ==
  ASSUME AreCallers(caller), NEW k, NEW STATE callers, callers = Awoken(k, caller) \/ callers = Cancelled(k)
  PROVE  /\ AreCallers(callers)
         /\ \A c \in Callers :
               /\ callers[c].at = "asleep" => callers[c] = caller[c]
               /\ Sleeps(c) => callers[c] = caller[c]
               /\ callers[c].at \in {"awaits", "woken"} /\ callers[c].again
                    => Asks(c) /\ callers[c].gen = caller[c].gen
               /\ caller[c].at = "idle" => callers[c].at = "idle"
<1>1. callers = [c \in Callers |-> callers[c]]
  BY DEF Awoken, Cancelled
<1>. SUFFICES ASSUME NEW c \in Callers
     PROVE /\ IsCaller(callers[c])
           /\ callers[c].at = "asleep" => callers[c] = caller[c]
           /\ Sleeps(c) => callers[c] = caller[c]
           /\ callers[c].at \in {"awaits", "woken"} /\ callers[c].again
                => Asks(c) /\ callers[c].gen = caller[c].gen
           /\ caller[c].at = "idle" => callers[c].at = "idle"
  BY <1>1 DEF AreCallers
<1>. DEFINE r == caller[c]
            woken == [r EXCEPT !.at = "woken", !.on = None]
<1>2. callers[c] = r \/ (r.at = "awaits" /\ (callers[c] = woken \/ callers[c] = Rest))
  BY DEF Awoken, Cancelled
<1>3. IsCaller(r)
  BY DEF AreCallers
<1>4. CASE callers[c] = r
  BY <1>3, <1>4 DEF Sleeps, Asks
<1>5. CASE r.at = "awaits" /\ callers[c] = woken
  <2>1. IsCaller(woken) /\ woken.at = "woken" /\ woken.gen = r.gen /\ woken.again = r.again
    BY <1>3 DEF IsCaller
  <2>. QED BY <1>5, <2>1 DEF Sleeps, Asks
<1>6. CASE r.at = "awaits" /\ callers[c] = Rest
  <2>1. IsCaller(Rest) /\ Rest.at = "idle"
    BY RestIsCaller DEF Rest
  <2>. QED BY <1>6, <2>1 DEF Sleeps, Asks
<1>. QED BY <1>2, <1>4, <1>5, <1>6

LEMMA AwokenEased ==
  ASSUME AreCallers(caller), NEW k, caller' = Awoken(k, caller) \/ caller' = Cancelled(k)
  PROVE  Eased /\ AreCallers(caller')
<1>. DEFINE a == Awoken(k, caller)
            b == Cancelled(k)
<1>1. CASE caller' = a
  <2>1. /\ AreCallers(a)
        /\ \A c \in Callers :
              /\ a[c].at = "asleep" => a[c] = caller[c]
              /\ Sleeps(c) => a[c] = caller[c]
              /\ a[c].at \in {"awaits", "woken"} /\ a[c].again => Asks(c) /\ a[c].gen = caller[c].gen
              /\ caller[c].at = "idle" => a[c].at = "idle"
    BY AwokenEffect
  <2>. HIDE DEF a
  <2>. QED BY <1>1, <2>1 DEF Eased, Sleeps, Asks
<1>2. CASE caller' = b
  <2>1. /\ AreCallers(b)
        /\ \A c \in Callers :
              /\ b[c].at = "asleep" => b[c] = caller[c]
              /\ Sleeps(c) => b[c] = caller[c]
              /\ b[c].at \in {"awaits", "woken"} /\ b[c].again => Asks(c) /\ b[c].gen = caller[c].gen
              /\ caller[c].at = "idle" => b[c].at = "idle"
    BY AwokenEffect
  <2>. HIDE DEF b
  <2>. QED BY <1>2, <2>1 DEF Eased, Sleeps, Asks
<1>. QED BY <1>1, <1>2

\* A caller that does not sleep returns.
LEMMA RestEased ==
  ASSUME AreCallers(caller), NEW c \in Callers, ~Sleeps(c), caller' = [caller EXCEPT ![c] = Rest]
  PROVE  Eased /\ AreCallers(caller')
<1>. DEFINE cs == [caller EXCEPT ![c] = Rest]
<1>1. AreCallers(cs) /\ cs[c] = Rest /\ \A d \in Callers : d # c => cs[d] = caller[d]
  BY RestIsCaller DEF AreCallers
<1>2. caller' = cs
  OBVIOUS
<1>3. Rest.at = "idle"
  BY DEF Rest
<1>. HIDE DEF cs
<1>4. AreCallers(caller') /\ caller'[c].at = "idle" /\ \A d \in Callers : d # c => caller'[d] = caller[d]
  BY <1>1, <1>2, <1>3
<1>. QED BY <1>4 DEF Eased, Sleeps, Asks

LEMMA SameSteady ==
  ASSUME UNCHANGED <<env, wired, pc, gen, seq>> PROVE Steady
BY DEF Steady, Down

\* Of serve() and the connection, where nobody waits for a request.
LEMMA WsSteady ==
  ASSUME ProxyInv, WsNext /\ UNCHANGED proxy PROVE Steady
<1>. USE DEF link, hass
<1>1. UNCHANGED <<env, wired, caller>>
  BY DEF WsNext, ServeStarts, Opened, AuthFails, Subscribed, RecvDies, RecvEvent, RecvAck, Subscribes,
         Changes, proxy
<1>2. CASE UNCHANGED <<pc, seq>> /\ gen' \in {gen, None}
  BY <1>1, <1>2 DEF Steady, Down
<1>3. CASE pc \notin Phases \cup {"cancelling"}
  BY <1>1, <1>3 DEF Steady, Down, Phases
<1>4. \/ UNCHANGED <<pc, seq>> /\ gen' \in {gen, None}
      \/ pc \notin Phases \cup {"cancelling"}
  BY DEF WsNext, ServeStarts, Opened, AuthFails, Subscribed, RecvDies, RecvEvent, RecvAck, Subscribes,
         Changes, Lose, Phases
<1>. QED BY <1>2, <1>3, <1>4

LEMMA ServeSteady ==
  ASSUME ProxyInv, Retried \/ Notified \/ SyncGone PROVE Steady
<1>. USE DEF link, hass
<1>1. CASE Retried
  BY <1>1 DEF Retried, AttemptFails, Steady, Down, Phases
<1>2. CASE Notified
  BY <1>2 DEF Notified, Steady, Down, Phases
<1>3. CASE SyncGone
  BY <1>3 DEF SyncGone, Stale, Steady, Down, Phases
<1>. QED BY <1>1, <1>2, <1>3

\* The steps of serve(), of the events and of Home Assistant.
LEMMA OutsideKeeps ==
  ASSUME ProxyInv,
         \/ WsNext /\ UNCHANGED proxy
         \/ Retried \/ Notified \/ SyncGone \/ OnStateChange \/ RecvStates
         \/ UNCHANGED vars
         \/ \E k \in Syncs : Answers(k)
  PROVE  AreCallers(caller') /\ Known' /\ Lateness' /\ Current'
<1>1. AreCallers(caller)
  BY DEF ProxyInv
<1>2. caller' = caller
  BY DEF proxy, Retried, Notified, SyncGone, OnStateChange, RecvStates, vars, Answers
<1>3. Eased /\ AreCallers(caller')
  BY <1>1, <1>2, SameEased
<1>4. Steady
  <2>1. CASE OnStateChange \/ RecvStates \/ UNCHANGED vars \/ \E k \in Syncs : Answers(k)
    BY <2>1, SameSteady DEF OnStateChange, RecvStates, vars, wsvars, hass, Answers
  <2>. QED BY <2>1, WsSteady, ServeSteady
<1>5. Wound
  <2>. DEFINE Late(k) == Alive(task[k]) /\ task[k].gen = None
  <2>1. \A k \in Syncs : IsTask(task[k]) /\ (Late(k) => task[k].at \in {"spawned", "broken"})
    BY DEF ProxyInv, Coordinated, AreTasks, Lateness
  <2>2. CASE (WsNext /\ UNCHANGED proxy) \/ Notified \/ UNCHANGED vars
    BY <2>2, SameWound DEF proxy, Notified, vars
  <2>3. CASE (Retried \/ SyncGone) /\ task' = Broken(task)
    <3>1. \A k \in Syncs : /\ Alive(task'[k]) <=> Alive(task[k])
                           /\ task'[k].gen = task[k].gen
                           /\ Late(k) => task'[k].at \in {"spawned", "broken"}
      <4>. SUFFICES ASSUME NEW k \in Syncs
                    PROVE  /\ Alive(task'[k]) <=> Alive(task[k])
                           /\ task'[k].gen = task[k].gen
                           /\ Late(k) => task'[k].at \in {"spawned", "broken"}
        OBVIOUS
      <4>. DEFINE broken == [task[k] EXCEPT !.at = "broken"]
      <4>1. task'[k] = task[k] \/ (task[k].at \in {"fetching", "answered"} /\ task'[k] = broken)
        BY <2>3 DEF Broken
      <4>2. broken.at = "broken" /\ broken.gen = task[k].gen /\ broken.cancelled = task[k].cancelled
        BY <2>1 DEF IsTask
      <4>3. CASE task'[k] = task[k]
        BY <2>1, <4>3 DEF Alive
      <4>4. CASE task[k].at \in {"fetching", "answered"} /\ task'[k] = broken
        <5>1. task'[k].at = "broken" /\ task'[k].gen = task[k].gen /\ task'[k].cancelled = task[k].cancelled
          BY <4>2, <4>4
        <5>2. Alive(task'[k]) <=> Alive(task[k])
          BY <4>4, <5>1 DEF Alive
        <5>. QED BY <5>1, <5>2
      <4>. QED BY <4>1, <4>3, <4>4
    <3>2. UNCHANGED sync
      BY <2>3 DEF Retried, SyncGone
    <3>. QED BY <3>1, <3>2, ProgressWound
  <2>4. CASE OnStateChange
    <3>1. UNCHANGED task /\ (UNCHANGED sync \/ sync' = Journalled(Head(bus)))
      BY <2>4 DEF OnStateChange
    <3>2. CASE UNCHANGED sync
      BY <3>1, <3>2, SameWound
    <3>3. CASE sync' = Journalled(Head(bus))
      <4>1. /\ sync'.cur = sync.cur /\ sync'.gen = sync.gen /\ sync'.status = sync.status
            /\ sync'.pending = sync.pending /\ sync'.retry = sync.retry /\ sync'.retryGen = sync.retryGen
        BY <3>3 DEF Journalled, ProxyInv, Coordinated, IsSync
      <4>2. \A k \in Syncs : /\ Alive(task'[k]) <=> Alive(task[k])
                             /\ task'[k].gen = task[k].gen
                             /\ Late(k) => task'[k].at \in {"spawned", "broken"}
        BY <2>1, <3>1 DEF Alive
      <4>. QED BY <4>1, <4>2, ProgressWound
    <3>. QED BY <3>1, <3>2, <3>3
  <2>5. ASSUME NEW j \in Syncs, NEW at \in {"answered", "done"}, NEW got,
               UNCHANGED sync, task[j].at \in {"fetching", "answered"},
               \/ task' = [task EXCEPT ![j].at = at]
               \/ task' = [task EXCEPT ![j].at = at, ![j].got = got]
        PROVE  Wound
    <3>1. task'[j].gen = task[j].gen /\ task'[j].cancelled = task[j].cancelled /\ task'[j].at = at
      BY <2>1, <2>5 DEF ProxyInv, Coordinated, AreTasks, IsTask
    <3>2. \A k \in Syncs \ {j} : task'[k] = task[k]
      BY <2>5 DEF ProxyInv, Coordinated, AreTasks
    <3>3. Alive(task'[j]) <=> Alive(task[j])
      BY <2>5, <3>1 DEF Alive
    <3>4. ~Late(j)
      BY <2>1, <2>5
    <3>5. \A k \in Syncs : /\ Alive(task'[k]) <=> Alive(task[k])
                           /\ task'[k].gen = task[k].gen
                           /\ Late(k) => task'[k].at \in {"spawned", "broken"}
      BY <2>1, <3>1, <3>2, <3>3, <3>4
    <3>. QED BY <2>5, <3>5, ProgressWound
  <2>6. CASE RecvStates
    <3>. DEFINE j == Head(wire).task
    <3>1. UNCHANGED sync
      BY <2>6 DEF RecvStates
    <3>2. CASE UNCHANGED task
      BY <3>1, <3>2, SameWound
    <3>3. CASE /\ task[j].at = "answered" /\ j \in Syncs
               /\ task' = [task EXCEPT ![j].at = "done", ![j].got = Head(wire).states]
      BY <2>5, <3>1, <3>3
    <3>4. CASE /\ j \notin Syncs
               /\ task' = [task EXCEPT ![j].at = "done", ![j].got = Head(wire).states]
      <4>1. task' = task
        BY <3>4 DEF ProxyInv, Coordinated, AreTasks
      <4>. QED BY <3>1, <4>1, SameWound
    <3>. QED BY <2>6, <3>2, <3>3, <3>4 DEF RecvStates
  <2>7. ASSUME NEW j \in Syncs, Answers(j) PROVE Wound
    BY <2>5, <2>7 DEF Answers
  <2>8. Retried \/ SyncGone => task' = Broken(task)
    BY DEF Retried, SyncGone, Stale
  <2>. QED BY <2>2, <2>3, <2>4, <2>6, <2>7, <2>8
<1>. QED BY <1>3, <1>4, <1>5, WoundKeeps

LEMMA BeginKeeps ==
  ASSUME ProxyInv, NEW k \in Syncs, Begin(k)
  PROVE  AreCallers(caller') /\ Known' /\ Lateness' /\ Current'
<1>. DEFINE at == IF recv = "running" THEN "fetching" ELSE "broken"
<1>1. /\ UNCHANGED <<env, wired, pc, gen, seq, caller>>
      /\ task[k].at = "spawned"
      /\ task' = [task EXCEPT ![k].at = at, ![k].base = states]
      /\ sync' = [sync EXCEPT !.active = k, !.journal = <<>>]
  BY DEF Begin, wsvars, hass
<1>2. Eased /\ AreCallers(caller')
  BY <1>1, SameEased DEF ProxyInv
<1>3. Steady
  BY <1>1, SameSteady
<1>4. /\ sync'.cur = sync.cur /\ sync'.gen = sync.gen /\ sync'.status = sync.status
      /\ sync'.pending = sync.pending /\ sync'.retry = sync.retry /\ sync'.retryGen = sync.retryGen
  BY <1>1 DEF ProxyInv, Coordinated, IsSync
<1>5. /\ task'[k].gen = task[k].gen /\ task'[k].cancelled = task[k].cancelled /\ task'[k].at = at
      /\ \A i \in Syncs \ {k} : task'[i] = task[i]
  BY <1>1 DEF ProxyInv, Coordinated, AreTasks, IsTask
<1>6. Alive(task[k]) /\ task[k].gen = None => at = "broken"
  BY DEF ProxyInv, Lateness, Down, Connection, Phases
<1>7. Alive(task'[k]) <=> Alive(task[k])
  BY <1>1, <1>5 DEF Alive
<1>8. \A i \in Syncs : /\ Alive(task'[i]) <=> Alive(task[i])
                       /\ task'[i].gen = task[i].gen
                       /\ Alive(task[i]) /\ task[i].gen = None => task'[i].at \in {"spawned", "broken"}
  <2>1. \A i \in Syncs : Alive(task[i]) /\ task[i].gen = None => task[i].at \in {"spawned", "broken"}
    BY DEF ProxyInv, Lateness
  <2>. QED BY <1>5, <1>6, <1>7, <2>1
<1>9. Wound
  BY <1>4, <1>8, ProgressWound
<1>. QED BY <1>2, <1>3, <1>9, WoundKeeps

LEMMA EndsKeeps ==
  ASSUME ProxyInv, NEW k \in Syncs, task' = [task EXCEPT ![k] = NoTask],
         UNCHANGED <<wsvars, wired>>, sync' = Finished(k, sync),
         caller' = Awoken(k, caller) \/ caller' = Cancelled(k)
  PROVE  AreCallers(caller') /\ Known' /\ Lateness' /\ Current'
<1>1. Eased /\ AreCallers(caller')
  BY AwokenEased DEF ProxyInv
<1>2. Steady
  BY SameSteady DEF wsvars, hass
<1>3. Wound
  BY FinishedWound
<1>. QED BY <1>1, <1>2, <1>3, WoundKeeps

\* A request that failed is asked for again after a while.
LEMMA RetryKeeps ==
  ASSUME ProxyInv, NEW k \in Syncs, Alive(task[k]), task' = [task EXCEPT ![k] = NoTask],
         UNCHANGED <<wsvars, wired>>, gen = task[k].gen, ~env.polling,
         RetryScheduled(task[k].gen, Finished(k, sync), Awoken(k, caller))
  PROVE  AreCallers(caller') /\ Known' /\ Lateness' /\ Current'
<1>. DEFINE g == task[k].gen
            s == Finished(k, sync)
            callers == Awoken(k, caller)
            old == IF s.retry = None THEN callers ELSE [callers EXCEPT ![s.retry] = Rest]
<1>1. sync.cur = k /\ k # None /\ wired
  BY StateProxyAssumption DEF ProxyInv, Coordinated, Tracks, Known
<1>2. /\ s.cur = None /\ s.gen = None /\ s.status = "IDLE" /\ s.pending = sync.pending
      /\ s.retry = sync.retry /\ s.retryGen = sync.retryGen /\ IsSync(s)
  BY <1>1 DEF ProxyInv, Coordinated, IsSync, Finished
<1>3. CASE s.retryGen = g /\ s.retry # None
  <2>1. sync' = s /\ caller' = callers
    BY <1>3 DEF RetryScheduled
  <2>. QED BY <2>1, EndsKeeps
<1>4. CASE ~(s.retryGen = g /\ s.retry # None)
  <2>1. PICK c \in Retries :
          /\ callers[c].at = "idle"
          /\ sync' = [s EXCEPT !.retry = c, !.retryGen = g]
          /\ caller' = [old EXCEPT ![c] = [Rest EXCEPT !.at = "asleep", !.own = g]]
    <3>. DEFINE i == CHOOSE j \in Retries : callers[j].at = "idle"
    <3>1. \E j \in Retries : callers[j].at = "idle"
      BY <1>4 DEF RetryScheduled
    <3>2. i \in Retries /\ callers[i].at = "idle"
      BY <3>1
    <3>. QED BY <1>4, <3>2 DEF RetryScheduled
  <2>. DEFINE r == [Rest EXCEPT !.at = "asleep", !.own = g]
  <2>2. IsCaller(r) /\ r.at = "asleep" /\ r.own = g
    BY DEF IsCaller, Rest
  <2>3. /\ sync'.cur = None /\ sync'.gen = None /\ sync'.status = "IDLE" /\ sync'.pending = sync.pending
        /\ sync'.retry = c /\ sync'.retryGen = g
    BY <1>2, <2>1 DEF IsSync
  <2>4. /\ AreCallers(callers)
        /\ \A d \in Callers :
              /\ callers[d].at = "asleep" => callers[d] = caller[d]
              /\ callers[d].at \in {"awaits", "woken"} /\ callers[d].again
                   => Asks(d) /\ callers[d].gen = caller[d].gen
              /\ caller[d].at = "idle" => callers[d].at = "idle"
    BY AwokenEffect DEF ProxyInv
  <2>5. Rest.at = "idle" /\ IsCaller(Rest)
    BY RestIsCaller DEF Rest
  <2>. HIDE DEF callers, s, g, r
  <2>6. /\ AreCallers(old)
        /\ \A d \in Callers : d # s.retry => old[d] = callers[d]
        /\ s.retry # None /\ s.retry \in Callers => old[s.retry] = Rest
    BY <2>4, <2>5 DEF AreCallers
  <2>7. /\ AreCallers(caller') /\ caller'[c] = r
        /\ \A d \in Callers : d # c => caller'[d] = old[d]
    <3>. DEFINE cs == [old EXCEPT ![c] = r]
    <3>1. AreCallers(cs) /\ cs[c] = r /\ \A d \in Callers : d # c => cs[d] = old[d]
      BY <2>2, <2>6 DEF AreCallers, Callers
    <3>2. caller' = cs
      BY <2>1 DEF r, g
    <3>. QED BY <3>1, <3>2
  <2>. HIDE DEF old
  <2>8. \A d \in Callers \ {c} :
           /\ caller'[d].at # "asleep"
           /\ Asks(d)' => Asks(d) /\ caller'[d].gen = caller[d].gen
           /\ caller[d].at = "idle" => caller'[d].at = "idle"
    <3>. SUFFICES ASSUME NEW d \in Callers \ {c}
         PROVE /\ caller'[d].at # "asleep"
               /\ Asks(d)' => Asks(d) /\ caller'[d].gen = caller[d].gen
               /\ caller[d].at = "idle" => caller'[d].at = "idle"
      OBVIOUS
    <3>1. CASE d = s.retry /\ s.retry # None
      <4>1. caller'[d] = Rest
        BY <2>6, <2>7, <3>1
      <4>. QED BY <2>5, <4>1 DEF Asks
    <3>2. CASE ~(d = s.retry /\ s.retry # None)
      <4>1. d # None
        BY StateProxyAssumption DEF Callers
      <4>2. caller'[d] = callers[d]
        BY <2>6, <2>7, <3>2, <4>1
      <4>3. callers[d].at # "asleep"
        <5>1. SUFFICES ASSUME callers[d].at = "asleep" PROVE FALSE
          OBVIOUS
        <5>2. Sleeps(d)
          BY <2>4, <5>1 DEF Sleeps
        <5>3. sync.retry = d
          BY <5>2 DEF ProxyInv, Known
        <5>. QED BY <1>2, <3>2, <4>1, <5>3 DEF s
      <4>. QED BY <2>4, <4>2, <4>3 DEF Asks
    <3>. QED BY <3>1, <3>2
  <2>9. UNCHANGED <<env, wired, pc, gen, seq>> /\ g = gen
    BY DEF wsvars, hass, g
  <2>10. \A i \in Syncs : ~Alive(task'[i])
    BY <1>1 DEF ProxyInv, Coordinated, Tracks, AreTasks, Alive, NoTask
  <2>11. ~Asks(c)' /\ Sleeps(c)' /\ caller'[c].own = g /\ c # None /\ c # "serve" /\ c \in Callers
    BY <2>2, <2>7, StateProxyAssumption DEF Asks, Sleeps, Callers
  <2>12. AsksNone' => AsksNone
    BY <2>8, <2>11 DEF AsksNone
  <2>13. Known'
    <3>1. \A d \in Callers : Sleeps(d)' => d \in Retries /\ sync'.retry = d /\ sync'.retryGen = caller'[d].own
      BY <2>1, <2>3, <2>8, <2>11 DEF Sleeps
    <3>2. caller'["serve"].at # "idle" => pc' = "notifying"
      BY <2>8, <2>9, <2>11 DEF ProxyInv, Known, Callers
    <3>3. sync'.retry \in Retries /\ Sleeps(c)' /\ sync'.retry = c
      BY <2>1, <2>3, <2>11
    <3>. QED BY <1>1, <2>3, <2>9, <3>1, <3>2, <3>3 DEF Known, Sleeps
  <2>14. Lateness'
    <3>1. \A d \in Callers : Sleeps(d)' /\ caller'[d].own = None => Down' /\ sync'.cur = None /\ ~AsksNone'
      <4>1. g = None => Down /\ ~AsksNone
        BY DEF ProxyInv, Lateness, g
      <4>2. \A d \in Callers : Sleeps(d)' => d = c
        BY <2>8 DEF Sleeps
      <4>3. Down => Down'
        BY <2>9 DEF Down
      <4>. QED BY <2>3, <2>11, <2>12, <4>1, <4>2, <4>3
    <3>2. \A d \in Callers : Asks(d)' /\ caller'[d].gen = None => d = "serve" /\ Down'
      BY <2>8, <2>9, <2>11 DEF ProxyInv, Lateness, Down
    <3>. QED BY <2>10, <3>1, <3>2 DEF Lateness
  <2>15. Current'
    <3>1. pc \in Phases
      <4>1. pc \in Phases \cup {"cancelling"}
        BY <1>1 DEF ProxyInv, Current
      <4>2. g = None => Down
        BY DEF ProxyInv, Lateness, g
      <4>. QED BY <2>9, <4>1, <4>2 DEF ProxyInv, Connection, Down, Phases
    <3>2. \A d \in Callers : Asks(d)' => caller'[d].gen = None
      BY <2>8, <2>11 DEF ProxyInv, Current
    <3>3. \A d \in Callers : Sleeps(d)' => caller'[d].own \in {seq', None}
      BY <2>8, <2>9, <2>11 DEF Sleeps, ProxyInv, Connection
    <3>4. sync'.pending = None
      BY <2>3 DEF ProxyInv, Current
    <3>. QED BY <2>3, <2>9, <3>1, <3>2, <3>3, <3>4 DEF Current
  <2>. QED BY <2>7, <2>13, <2>14, <2>15
<1>. QED BY <1>3, <1>4

LEMMA TaskKeeps ==
  ASSUME ProxyInv, NEW k \in Syncs, SyncStep(k)
  PROVE  AreCallers(caller') /\ Known' /\ Lateness' /\ Current'
<1>1. CASE Begin(k)
  BY <1>1, BeginKeeps
<1>2. CASE Commit(k) \/ Unwinds(k)
  BY <1>2, EndsKeeps DEF Commit, Unwinds
<1>3. CASE Fails(k)
  <2>1. CASE sync' = Finished(k, sync) /\ caller' = Awoken(k, caller)
    BY <1>3, <2>1, EndsKeeps DEF Fails
  <2>2. CASE /\ gen = task[k].gen /\ ~env.polling
             /\ RetryScheduled(task[k].gen, Finished(k, sync), Awoken(k, caller))
    BY <1>3, <2>2, RetryKeeps DEF Fails, Alive
  <2>. QED BY <1>3, <2>1, <2>2 DEF Fails
<1>. QED BY <1>1, <1>2, <1>3 DEF SyncStep

\* A caller returns without another round.
LEMMA ReturnKeeps ==
  ASSUME ProxyInv, NEW c \in Callers, ~Sleeps(c), caller' = [caller EXCEPT ![c] = Rest],
         sync' = sync \/ sync' = Forgotten(c, sync), UNCHANGED <<wsvars, wired, task>>
  PROVE  AreCallers(caller') /\ Known' /\ Lateness' /\ Current'
<1>1. Eased /\ AreCallers(caller')
  BY RestEased DEF ProxyInv
<1>2. Steady
  BY SameSteady DEF wsvars, hass
<1>3. /\ sync'.cur = sync.cur /\ sync'.gen = sync.gen /\ sync'.status = sync.status
      /\ sync'.pending = sync.pending /\ sync'.retry = sync.retry
      /\ sync'.retry # None => sync'.retryGen = sync.retryGen
  BY DEF Forgotten, ProxyInv, Coordinated, IsSync
<1>4. Wound
  BY <1>3 DEF Wound, ProxyInv, Lateness, Alive
<1>. QED BY <1>1, <1>2, <1>4, WoundKeeps

----------------------------------------------------------------------------
(* Requests *)

\* The retry that a request leaves alone is the one that sleeps.
LEMMA RetryKeptKnown ==
  ASSUME ProxyInv, NEW c \in Callers, NEW STATE g, NEW STATE before,
         before.retry = IF sync.retry = c THEN None ELSE sync.retry,
         before.retryGen = sync.retryGen,
         RetryKept(c, g, before), caller'[c].at \in {"awaits", "idle"}
  PROVE  /\ \A d \in Callers : Sleeps(d)' =>
               /\ d # c /\ Sleeps(d) /\ caller'[d] = caller[d] /\ d \in Retries
               /\ sync.retry = d /\ sync'.retry = d /\ sync'.retryGen = caller'[d].own
         /\ sync'.retry # None => sync'.retry \in Retries /\ Sleeps(sync.retry)' /\ sync'.retry = sync.retry
         /\ \A d \in Callers \ {c} : caller'[d] = caller[d] \/ caller'[d].at = "idle"
<1>1. Rest.at = "idle"
  BY DEF Rest
<1>2. None \notin Callers
  BY StateProxyAssumption DEF Callers
<1>3. \A d \in Callers \ {c} : caller'[d] = caller[d] \/ caller'[d].at = "idle"
  BY <1>1 DEF RetryKept
<1>4. ASSUME NEW d \in Callers, Sleeps(d)'
      PROVE  /\ d # c /\ Sleeps(d) /\ caller'[d] = caller[d] /\ d \in Retries
             /\ sync.retry = d /\ sync'.retry = d /\ sync'.retryGen = caller'[d].own
  <2>1. d # c /\ caller'[d] = caller[d] /\ Sleeps(d)
    BY <1>3, <1>4 DEF Sleeps
  <2>2. d \in Retries /\ sync.retry = d /\ sync.retryGen = caller[d].own
    BY <2>1 DEF ProxyInv, Known
  <2>3. before.retry = d
    BY <2>1, <2>2
  <2>4. sync'.retry # None
    BY <1>2, <1>4, <2>1, <2>3 DEF RetryKept, Sleeps
  <2>. QED BY <2>1, <2>2, <2>3, <2>4 DEF RetryKept
<1>5. ASSUME sync'.retry # None
      PROVE  sync'.retry \in Retries /\ Sleeps(sync.retry)' /\ sync'.retry = sync.retry
  <2>1. before.retry # None /\ sync'.retry = before.retry /\ sync.retry # c /\ before.retry = sync.retry
    BY <1>5 DEF RetryKept
  <2>2. sync.retry \in Retries /\ Sleeps(sync.retry)
    BY <2>1 DEF ProxyInv, Known
  <2>3. caller'[sync.retry] = caller[sync.retry]
    BY <1>5, <2>1 DEF RetryKept
  <2>. QED BY <2>1, <2>2, <2>3 DEF Sleeps
<1>. QED BY <1>3, <1>4, <1>5

\* What a request of caller c for generation g may count on, whoever makes it.
Grounds(c, g) ==
    /\ wired /\ UNCHANGED <<env, wired, gen, seq>>
    /\ pc = "notifying" => pc' = "notifying"
    /\ c = "serve" => pc' = "notifying"
    /\ Down => Down'
    /\ g = None => Down' /\ (c = "serve" \/ (Sleeps(c) /\ caller[c].own = None))
    /\ g = None /\ c = "serve" => ~Down \/ AsksNone
    /\ g # None => ~Down \/ env.polling \/ Sleeps(c)
    /\ ~env.polling => g \in {seq, None} /\ pc' \in Phases

LEMMA RequestKeeps ==
  ASSUME ProxyInv, NEW c \in Callers, NEW STATE g, NEW STATE cause, NEW STATE before,
         IsSync(before), before.cur = sync.cur, before.gen = sync.gen, before.status = sync.status,
         before.pending = sync.pending, before.retryGen = sync.retryGen,
         before.retry = IF sync.retry = c THEN None ELSE sync.retry,
         RequestSync(c, g, cause, before), Grounds(c, g)
  PROVE  AreCallers(caller') /\ Known' /\ Lateness' /\ Current'
<1>1. before.retry # None => before.retry \in Callers /\ before.retry # c
  BY DEF ProxyInv, Known, Callers
<1>2. /\ AreCallers(caller') /\ RetryKept(c, g, before)
      /\ \/ Joined(c, g, before)
         \/ Started(c, Want(before, g), before) /\ sync'.status # "POLL"
         \/ NotNeeded(c, before)
  BY <1>1, RequestSyncEffect DEF ProxyInv, Coordinated
<1>3. caller'[c].at \in {"awaits", "idle"}
  BY <1>2 DEF Joined, Started, NotNeeded
<1>4. /\ \A d \in Callers : Sleeps(d)' =>
            /\ d # c /\ Sleeps(d) /\ caller'[d] = caller[d] /\ d \in Retries
            /\ sync.retry = d /\ sync'.retry = d /\ sync'.retryGen = caller'[d].own
      /\ sync'.retry # None => sync'.retry \in Retries /\ Sleeps(sync.retry)' /\ sync'.retry = sync.retry
      /\ \A d \in Callers \ {c} : caller'[d] = caller[d] \/ caller'[d].at = "idle"
  BY <1>2, <1>3, RetryKeptKnown
<1>5. \A d \in Callers \ {c} : Asks(d)' => Asks(d) /\ caller'[d].gen = caller[d].gen
  BY <1>4 DEF Asks
\* Known, but for the synchronization
<1>6. /\ env'.polling => sync'.retry = None
      /\ caller'["serve"].at # "idle" => pc' = "notifying"
      /\ wired'
  BY <1>4 DEF ProxyInv, Known, Grounds, Callers
<1>7. \A d \in Callers : Sleeps(d)' /\ caller'[d].own = None =>
          Down /\ Down' /\ sync.cur = None /\ ~AsksNone /\ sync.retry = d /\ d # c /\ Sleeps(d)
  BY <1>4 DEF ProxyInv, Lateness, Grounds
<1>8. CASE Joined(c, g, before)
  <2>1. /\ sync.cur # None /\ task' = task /\ sync'.cur = sync.cur /\ sync'.gen = sync.gen
        /\ sync'.status = sync.status /\ caller'[c].gen = g
        /\ sync'.pending = IF caller'[c].again THEN g ELSE sync.pending
        /\ caller'[c].again => sync.status = "POLL" \/ (sync.gen # None /\ sync.gen # g)
    BY <1>8 DEF Joined
  <2>2. Known'
    BY <1>4, <1>6, <2>1 DEF ProxyInv, Known, Grounds, Sleeps
  <2>3. Asks(c)' /\ g = None => c = "serve" /\ Down' /\ sync.gen # None
    <3>1. SUFFICES ASSUME Asks(c)', g = None PROVE c = "serve" /\ Down' /\ sync.gen # None
      OBVIOUS
    <3>2. ~(Sleeps(c) /\ caller[c].own = None)
      BY <2>1 DEF ProxyInv, Lateness
    <3>3. caller'[c].again
      BY <3>1 DEF Asks
    <3>. QED BY <2>1, <3>1, <3>2, <3>3 DEF Grounds, ProxyInv, Known
  <2>4. sync.gen = None => (AsksNone' => AsksNone)
    BY <1>5, <2>1, <2>3 DEF AsksNone
  <2>5. \A k \in Syncs : Alive(task[k]) => task[k].gen = sync.gen
    BY <2>1 DEF ProxyInv, Coordinated, Tracks, Known
  <2>6. Lateness'
    <3>1. \A k \in Syncs : Alive(task[k]) /\ task[k].gen = None =>
              task[k].at \in {"spawned", "broken"} /\ Down' /\ sync'.retry = None /\ ~AsksNone'
      BY <1>4, <2>4, <2>5 DEF ProxyInv, Lateness, Grounds
    <3>2. \A d \in Callers : Sleeps(d)' /\ caller'[d].own = None => Down' /\ sync'.cur = None /\ ~AsksNone'
      BY <1>7, <2>1
    <3>3. \A d \in Callers : Asks(d)' /\ caller'[d].gen = None => d = "serve" /\ Down'
      BY <1>5, <2>1, <2>3 DEF ProxyInv, Lateness, Grounds
    <3>. QED BY <2>1, <3>1, <3>2, <3>3 DEF Lateness, Alive
  <2>7. Current'
    <3>1. SUFFICES ASSUME ~env.polling
          PROVE  /\ \A d \in Callers : Asks(d)' => caller'[d].gen = None
                 /\ sync'.pending = None
                 /\ sync'.gen \in {seq', None}
                 /\ \A d \in Callers : Sleeps(d)' => caller'[d].own \in {seq', None}
                 /\ pc' \in Phases
      BY DEF Current, Grounds
    <3>2. sync.gen \in {seq, None} /\ sync.status # "POLL" /\ g \in {seq, None} /\ sync.pending = None
      BY <2>1, <3>1 DEF ProxyInv, Current, Known, Grounds
    <3>3. caller'[c].again => g = None
      BY <2>1, <3>2
    <3>4. \A d \in Callers : Asks(d)' => caller'[d].gen = None
      BY <1>5, <2>1, <3>1, <3>3 DEF ProxyInv, Current, Asks
    <3>5. sync'.pending = None
      BY <2>1, <3>2, <3>3
    <3>6. \A d \in Callers : Sleeps(d)' => caller'[d].own \in {seq', None}
      BY <1>4, <3>1 DEF ProxyInv, Current, Grounds
    <3>7. seq' = seq /\ pc' \in Phases
      BY <3>1 DEF Grounds
    <3>. QED BY <2>1, <3>2, <3>4, <3>5, <3>6, <3>7
  <2>. QED BY <1>2, <2>2, <2>6, <2>7
<1>9. CASE Started(c, Want(before, g), before) /\ sync'.status # "POLL"
  <2>. DEFINE want == Want(before, g)
  <2>1. PICK k \in Syncs : /\ sync'.cur = k /\ task'[k].gen = want /\ task'[k].at = "spawned"
                           /\ \A i \in Syncs \ {k} : task'[i] = task[i]
    BY <1>9 DEF Started
  <2>2. /\ sync.cur = None /\ sync'.gen = want /\ sync'.pending \in {None, sync.pending}
        /\ caller'[c].at = "awaits" /\ caller'[c].again = FALSE /\ sync'.cur # None
    BY <1>9, <2>1, StateProxyAssumption DEF Started
  <2>3. want = None => g = None
    BY DEF Want
  <2>. HIDE DEF want
  <2>4. Known'
    BY <1>4, <1>6, <1>9, <2>1, <2>2 DEF Known, Sleeps
  <2>5. ~Asks(c)'
    BY <2>2 DEF Asks
  <2>6. \A i \in Syncs \ {k} : ~Alive(task'[i])
    BY <2>1, <2>2, StateProxyAssumption DEF ProxyInv, Coordinated, Tracks
  <2>7. g = None => Down' /\ ~AsksNone'
    <3>1. SUFFICES ASSUME g = None PROVE Down' /\ ~AsksNone'
      OBVIOUS
    <3>2. Down'
      BY <3>1 DEF Grounds
    <3>3. AsksNone' => \E d \in Callers \ {c} : Asks(d) /\ caller[d].gen = None
      BY <1>5, <2>5 DEF AsksNone
    <3>4. \A d \in Callers : Asks(d) /\ caller[d].gen = None => d = "serve"
      BY DEF ProxyInv, Lateness
    <3>5. CASE c = "serve"
      BY <3>2, <3>3, <3>4, <3>5
    <3>6. CASE Sleeps(c) /\ caller[c].own = None
      <4>1. ~AsksNone
        BY <3>6 DEF ProxyInv, Lateness
      <4>. QED BY <3>2, <3>3, <4>1 DEF AsksNone
    <3>. QED BY <3>1, <3>5, <3>6 DEF Grounds
  <2>8. \A d \in Callers : ~(Sleeps(d)' /\ caller'[d].own = None)
    <3>1. SUFFICES ASSUME NEW d \in Callers, Sleeps(d)', caller'[d].own = None PROVE FALSE
      OBVIOUS
    <3>2. Down /\ ~AsksNone /\ sync.retry = d /\ d # c /\ Sleeps(d) /\ d # None
      BY <1>7, <3>1, StateProxyAssumption DEF Callers
    <3>3. ~Sleeps(c)
      BY <3>2 DEF ProxyInv, Known
    <3>4. ~env.polling
      BY <3>2 DEF ProxyInv, Known
    <3>. QED BY <3>2, <3>3, <3>4 DEF Grounds
  <2>9. g = None => sync'.retry = None
    <3>1. SUFFICES ASSUME g = None, sync'.retry # None PROVE FALSE
      OBVIOUS
    <3>2. sync'.retry = sync.retry /\ Sleeps(sync.retry)' /\ sync.retry \in Callers
      BY <1>4, <3>1 DEF Callers
    <3>3. sync'.retryGen = caller'[sync.retry].own /\ sync.retryGen = caller'[sync.retry].own
      BY <1>4, <3>2 DEF ProxyInv, Known
    <3>4. sync.retryGen # None
      BY <2>8, <3>2, <3>3
    <3>. QED BY <1>2, <3>1, <3>4 DEF RetryKept
  <2>10. Lateness'
    <3>1. \A i \in Syncs : Alive(task'[i]) /\ task'[i].gen = None =>
              task'[i].at \in {"spawned", "broken"} /\ Down' /\ sync'.retry = None /\ ~AsksNone'
      BY <2>1, <2>3, <2>6, <2>7, <2>9
    <3>2. \A d \in Callers : Asks(d)' /\ caller'[d].gen = None => d = "serve" /\ Down'
      BY <1>5, <2>5 DEF ProxyInv, Lateness, Grounds
    <3>. QED BY <2>8, <3>1, <3>2 DEF Lateness, Alive
  <2>11. Current'
    <3>1. SUFFICES ASSUME ~env.polling
          PROVE  /\ \A d \in Callers : Asks(d)' => caller'[d].gen = None
                 /\ sync'.pending = None
                 /\ sync'.gen \in {seq', None}
                 /\ \A d \in Callers : Sleeps(d)' => caller'[d].own \in {seq', None}
                 /\ pc' \in Phases
      BY DEF Current, Grounds
    <3>2. g \in {seq, None} /\ sync.pending = None /\ seq' = seq /\ pc' \in Phases
      BY <3>1 DEF ProxyInv, Current, Grounds
    <3>3. want = g
      BY <3>2 DEF want, Want
    <3>4. \A d \in Callers : Asks(d)' => caller'[d].gen = None
      BY <1>5, <2>5, <3>1 DEF ProxyInv, Current
    <3>5. \A d \in Callers : Sleeps(d)' => caller'[d].own \in {seq', None}
      BY <1>4, <3>1, <3>2 DEF ProxyInv, Current
    <3>. QED BY <2>2, <3>2, <3>3, <3>4, <3>5
  <2>. QED BY <1>2, <2>4, <2>10, <2>11
<1>10. CASE NotNeeded(c, before)
  <2>1. /\ sync.cur = None /\ task' = task /\ sync'.cur = None
        /\ sync'.status = sync.status /\ sync'.gen = sync.gen
        /\ sync'.pending \in {None, sync.pending} /\ caller'[c].at = "idle"
    BY <1>10 DEF NotNeeded
  <2>2. Known'
    BY <1>4, <1>6, <2>1 DEF ProxyInv, Known, Grounds, Sleeps
  <2>3. ~Asks(c)'
    BY <2>1 DEF Asks
  <2>4. AsksNone' => AsksNone
    BY <1>5, <2>3 DEF AsksNone
  <2>5. \A k \in Syncs : ~Alive(task[k])
    BY <2>1, StateProxyAssumption DEF ProxyInv, Coordinated, Tracks
  <2>6. Lateness'
    <3>1. \A d \in Callers : Sleeps(d)' /\ caller'[d].own = None => Down' /\ sync'.cur = None /\ ~AsksNone'
      BY <1>7, <2>1, <2>4
    <3>2. \A d \in Callers : Asks(d)' /\ caller'[d].gen = None => d = "serve" /\ Down'
      BY <1>5, <2>3 DEF ProxyInv, Lateness, Grounds
    <3>. QED BY <2>1, <2>5, <3>1, <3>2 DEF Lateness, Alive
  <2>7. Current'
    <3>1. SUFFICES ASSUME ~env.polling
          PROVE  /\ \A d \in Callers : Asks(d)' => caller'[d].gen = None
                 /\ sync'.pending = None
                 /\ \A d \in Callers : Sleeps(d)' => caller'[d].own \in {seq', None}
                 /\ pc' \in Phases
      BY <2>1 DEF Current, Grounds
    <3>2. seq' = seq /\ pc' \in Phases /\ sync.pending = None
      BY <3>1 DEF ProxyInv, Current, Grounds
    <3>3. \A d \in Callers : Asks(d)' => caller'[d].gen = None
      BY <1>5, <2>3, <3>1 DEF ProxyInv, Current
    <3>4. \A d \in Callers : Sleeps(d)' => caller'[d].own \in {seq', None}
      BY <1>4, <3>1, <3>2 DEF ProxyInv, Current
    <3>. QED BY <2>1, <3>2, <3>3, <3>4
  <2>. QED BY <1>2, <2>2, <2>6, <2>7
<1>. QED BY <1>2, <1>8, <1>9, <1>10

LEMMA BootstrapKeeps ==
  ASSUME ProxyInv, Bootstrap PROVE AreCallers(caller') /\ Known' /\ Lateness' /\ Current'
<1>1. "boot" \in Callers /\ caller["boot"].at = "spawned" /\ UNCHANGED <<wsvars, wired>>
  BY DEF Bootstrap, Callers
<1>2. CASE gen # None
  <2>1. RequestSync("boot", gen, "signal", sync)
    BY <1>2 DEF Bootstrap
  <2>2. sync.retry # "boot"
    BY StateProxyAssumption DEF ProxyInv, Known
  <2>3. Grounds("boot", gen)
    BY <1>1, <1>2 DEF Grounds, ProxyInv, Known, Connection, Down, wsvars, hass
  <2>. QED BY <1>1, <2>1, <2>2, <2>3, RequestKeeps DEF ProxyInv, Coordinated
<1>3. CASE gen = None
  <2>1. caller' = [caller EXCEPT !["boot"] = Rest] /\ UNCHANGED <<sync, task>>
    BY <1>3 DEF Bootstrap
  <2>2. ~Sleeps("boot")
    BY <1>1 DEF Sleeps
  <2>. QED BY <1>1, <2>1, <2>2, ReturnKeeps
<1>. QED BY <1>2, <1>3

LEMMA AnnouncedKeeps ==
  ASSUME ProxyInv, Announced PROVE AreCallers(caller') /\ Known' /\ Lateness' /\ Current'
<1>1. /\ pc = "announcing" /\ pc' = "notifying" /\ UNCHANGED <<gen, seq, env, wired>>
  BY DEF Announced, hass
<1>2. CASE wired
  <2>1. RequestSync("serve", gen, "signal", sync)
    BY <1>2 DEF Announced
  <2>2. sync.retry # "serve" /\ "serve" \in Callers
    BY StateProxyAssumption DEF ProxyInv, Known, Callers
  <2>3. Grounds("serve", gen)
    BY <1>1, <1>2 DEF Grounds, ProxyInv, Connection, Down, Phases
  <2>. QED BY <2>1, <2>2, <2>3, RequestKeeps DEF ProxyInv, Coordinated
<1>3. CASE ~wired
  <2>1. UNCHANGED <<sync, task, caller>>
    BY <1>3 DEF Announced
  <2>2. Eased /\ AreCallers(caller')
    BY <2>1, SameEased DEF ProxyInv
  <2>3. Wound
    BY <2>1, SameWound
  <2>4. Steady
    BY <1>1, <1>3 DEF Steady, ProxyInv, Known, Down, Phases
  <2>. QED BY <2>2, <2>3, <2>4, WoundKeeps
<1>. QED BY <1>2, <1>3

LEMMA ResumeKeeps ==
  ASSUME ProxyInv, NEW c \in Callers, Resume(c)
  PROVE  AreCallers(caller') /\ Known' /\ Lateness' /\ Current'
<1>1. caller[c].at = "woken" /\ ~Sleeps(c) /\ UNCHANGED <<wsvars, wired>>
  BY DEF Resume, Sleeps
<1>2. CASE caller[c].again
  <2>. DEFINE g == caller[c].gen
  <2>1. RequestSync(c, g, caller[c].cause, sync)
    BY <1>2 DEF Resume
  <2>2. Asks(c)
    BY <1>1, <1>2 DEF Asks
  <2>3. sync.retry # c
    BY <1>1, StateProxyAssumption DEF ProxyInv, Known, Callers
  <2>4. UNCHANGED <<pc, gen, seq, env, wired>> /\ wired
    BY <1>1 DEF wsvars, hass, ProxyInv, Known
  <2>5. g = None => c = "serve" /\ Down /\ AsksNone
    BY <2>2 DEF ProxyInv, Lateness, AsksNone
  <2>6. ~env.polling => g = None
    BY <2>2 DEF ProxyInv, Current
  <2>7. Down <=> Down'
    BY <2>4 DEF Down
  <2>8. c = "serve" => pc = "notifying"
    BY <1>1 DEF ProxyInv, Known
  <2>9. Down => pc \in Phases
    BY DEF Down, Phases
  <2>10. Grounds(c, g)
    BY <2>4, <2>5, <2>6, <2>7, <2>8, <2>9 DEF Grounds
  <2>. HIDE DEF g
  <2>. QED BY <2>1, <2>3, <2>10, RequestKeeps DEF ProxyInv, Coordinated
<1>3. CASE ~caller[c].again
  <2>1. sync' = Forgotten(c, sync) /\ caller' = [caller EXCEPT ![c] = Rest] /\ UNCHANGED task
    BY <1>3 DEF Resume
  <2>. QED BY <1>1, <2>1, ReturnKeeps
<1>. QED BY <1>2, <1>3

LEMMA RetryWakesKeeps ==
  ASSUME ProxyInv, NEW c \in Retries, RetryWakes(c)
  PROVE  AreCallers(caller') /\ Known' /\ Lateness' /\ Current'
<1>. DEFINE g == caller[c].own
            before == [sync EXCEPT !.retry = IF @ = c THEN None ELSE @]
<1>1. Sleeps(c) /\ UNCHANGED <<wsvars, wired>> /\ RequestSync(c, g, "retry", before) /\ c \in Callers
  BY DEF RetryWakes, Sleeps, Callers
<1>2. c # "serve" /\ c # None /\ sync.retry = c
  BY <1>1, StateProxyAssumption DEF ProxyInv, Known
<1>3. /\ IsSync(before) /\ before.cur = sync.cur /\ before.gen = sync.gen /\ before.status = sync.status
      /\ before.pending = sync.pending /\ before.retryGen = sync.retryGen
      /\ before.retry = IF sync.retry = c THEN None ELSE sync.retry
  BY DEF ProxyInv, Coordinated, IsSync
<1>4. UNCHANGED <<pc, gen, seq, env, wired>> /\ wired
  BY <1>1 DEF wsvars, hass, ProxyInv, Known, Sleeps
<1>5. g = None => Down
  BY <1>1 DEF ProxyInv, Lateness
<1>6. ~env.polling => g \in {seq, None} /\ pc \in Phases
  BY <1>1, <1>2 DEF ProxyInv, Current
<1>7. Down <=> Down'
  BY <1>4 DEF Down
<1>8. Grounds(c, g)
  BY <1>1, <1>2, <1>4, <1>5, <1>6, <1>7 DEF Grounds
<1>. HIDE DEF g, before
<1>. QED BY <1>1, <1>3, <1>8, RequestKeeps

\* While the poll is on no retry sleeps.
LEMMA PollKeeps ==
  ASSUME ProxyInv, Poll PROVE AreCallers(caller') /\ Known' /\ Lateness' /\ Current'
<1>. DEFINE s == IF Superseded(sync, gen) THEN RetryCancelled(sync) ELSE sync
            callers == IF Superseded(sync, gen) THEN WithoutRetry(sync) ELSE caller
            status == IF NeedsSync(gen) THEN StatusFor(gen, "retry") ELSE "POLL"
<1>1. /\ env.polling /\ wired /\ gen # None /\ UNCHANGED <<wsvars, wired>>
      /\ \/ sync' = s /\ caller' = callers /\ UNCHANGED task
         \/ s.cur = None /\ StartSync("poll", gen, "retry", status, s, callers)
  BY DEF Poll
<1>2. sync.retry = None
  BY <1>1 DEF ProxyInv, Known
<1>3. /\ IsSync(s) /\ s.cur = sync.cur /\ s.gen = sync.gen /\ s.status = sync.status
      /\ s.pending = sync.pending /\ s.retry = None
  BY <1>2 DEF ProxyInv, Coordinated, IsSync, RetryCancelled
<1>4. callers = caller
  BY <1>2 DEF WithoutRetry
<1>5. UNCHANGED <<env, pc, gen, seq>>
  BY <1>1 DEF wsvars, hass
<1>. HIDE DEF s, callers, status
<1>6. CASE sync' = s /\ caller' = callers /\ UNCHANGED task
  <2>1. Eased /\ AreCallers(caller')
    BY <1>4, <1>6, SameEased DEF ProxyInv
  <2>2. Wound
    BY <1>2, <1>3, <1>6 DEF Wound, ProxyInv, Lateness, Alive
  <2>3. Steady
    BY <1>1, <1>5, SameSteady
  <2>. QED BY <2>1, <2>2, <2>3, WoundKeeps
<1>7. CASE s.cur = None /\ StartSync("poll", gen, "retry", status, s, callers)
  <2>1. "poll" \in Callers
    BY DEF Callers
  <2>2. /\ Started("poll", gen, s) /\ AreCallers(caller')
        /\ sync'.retry = None /\ sync'.retryGen = s.retryGen
        /\ \A d \in Callers \ {"poll"} : caller'[d] = caller[d]
    BY <1>3, <1>4, <1>7, <2>1, StartSyncEffect DEF ProxyInv, Coordinated
  <2>3. PICK k \in Syncs : /\ sync'.cur = k /\ task'[k].gen = gen
                           /\ \A i \in Syncs \ {k} : task'[i] = task[i]
    BY <2>2 DEF Started
  <2>4. sync'.gen = gen /\ caller'["poll"].at = "awaits" /\ caller'["poll"].again = FALSE
    BY <2>2 DEF Started
  <2>5. \A i \in Syncs \ {k} : ~Alive(task'[i])
    BY <1>3, <1>7, <2>3, StateProxyAssumption DEF ProxyInv, Coordinated, Tracks
  <2>6. \A d \in Callers : ~Sleeps(d)
    BY <1>2, StateProxyAssumption DEF ProxyInv, Known
  <2>7. \A d \in Callers : ~Sleeps(d)'
    BY <2>2, <2>4, <2>6 DEF Sleeps
  <2>8. Known'
    <3>1. caller'["serve"].at # "idle" => pc' = "notifying"
      BY <1>5, <2>2 DEF ProxyInv, Known, Callers
    <3>. QED BY <1>1, <1>5, <2>2, <2>3, <2>4, <2>7, <3>1 DEF Known
  <2>9. Lateness'
    <3>1. \A d \in Callers : Asks(d)' => Asks(d) /\ caller'[d].gen = caller[d].gen
      BY <2>2, <2>4 DEF Asks
    <3>2. \A d \in Callers : Asks(d)' /\ caller'[d].gen = None => d = "serve" /\ Down'
      BY <1>1, <1>5, <3>1 DEF ProxyInv, Lateness, Down
    <3>3. \A i \in Syncs : ~(Alive(task'[i]) /\ task'[i].gen = None)
      BY <1>1, <2>3, <2>5
    <3>. QED BY <2>7, <3>2, <3>3 DEF Lateness, Alive
  <2>10. Current'
    BY <1>1, <1>5 DEF Current
  <2>. QED BY <2>2, <2>8, <2>9, <2>10
<1>. QED BY <1>1, <1>6, <1>7

----------------------------------------------------------------------------
(* The first and the last steps *)

LEMMA WireKeeps ==
  ASSUME ProxyInv, Wire PROVE AreCallers(caller') /\ Known' /\ Lateness' /\ Current'
<1>1. /\ ~wired /\ wired' /\ UNCHANGED <<pc, gen, seq, env, sync, task>>
      /\ caller' = [caller EXCEPT !["boot"].at = "spawned"]
  BY DEF Wire, wsvars, hass
<1>2. sync.cur = None /\ \A c \in Callers : caller[c].at = "idle"
  BY <1>1 DEF ProxyInv, Known
<1>3. sync.retry = None
  BY <1>2 DEF ProxyInv, Known, Sleeps, Callers
<1>4. /\ AreCallers(caller') /\ caller'["boot"].at = "spawned"
      /\ \A d \in Callers : d # "boot" => caller'[d] = caller[d]
  <2>. DEFINE r == [caller["boot"] EXCEPT !.at = "spawned"]
              cs == [caller EXCEPT !["boot"] = r]
  <2>1. "boot" \in Callers
    BY DEF Callers
  <2>2. IsCaller(r) /\ r.at = "spawned"
    BY <2>1 DEF ProxyInv, AreCallers, IsCaller
  <2>3. caller' = cs
    BY <1>1
  <2>. HIDE DEF r
  <2>4. AreCallers(cs) /\ cs["boot"] = r /\ \A d \in Callers : d # "boot" => cs[d] = caller[d]
    BY <2>1, <2>2 DEF ProxyInv, AreCallers
  <2>. HIDE DEF cs
  <2>. QED BY <2>2, <2>3, <2>4
<1>5. \A c \in Callers : ~Sleeps(c)' /\ ~Asks(c)'
  BY <1>2, <1>4 DEF Sleeps, Asks
<1>6. caller'["serve"].at = "idle"
  BY <1>2, <1>4 DEF Callers
<1>7. \A k \in Syncs : ~Alive(task[k])
  BY <1>2, StateProxyAssumption DEF ProxyInv, Coordinated, Tracks
<1>8. Known'
  BY <1>1, <1>2, <1>3, <1>5, <1>6 DEF ProxyInv, Known
<1>9. Lateness'
  BY <1>1, <1>5, <1>7 DEF Lateness, Alive
<1>10. Current'
  BY <1>1, <1>2, <1>3, <1>5 DEF ProxyInv, Current
<1>. QED BY <1>4, <1>8, <1>9, <1>10

\* serve() has left its connection: nothing is asked for without a generation.
LEMMA NobodyWaits ==
  ASSUME ProxyInv, pc \in {"serving", "cancelling"}
  PROVE  caller["serve"].at = "idle" /\ \A c \in Callers : ~(Asks(c) /\ caller[c].gen = None)
BY DEF ProxyInv, Known, Lateness, Asks

LEMMA LeftKeeps ==
  ASSUME ProxyInv, pc \in {"serving", "cancelling"}, AreCallers(caller'), UNCHANGED <<env, wired>>,
         \A k \in Syncs : ~Alive(task'[k]),
         sync'.cur = None, sync'.status = "IDLE", sync'.pending \in {None, sync.pending}, sync'.retry = None,
         \A c \in Callers : caller'[c] = caller[c] /\ ~Sleeps(c)
  PROVE  Known' /\ Lateness' /\ Current'
<1>1. \A c \in Callers : ~Sleeps(c)' /\ (Asks(c)' => Asks(c) /\ caller'[c].gen = caller[c].gen)
  BY DEF Sleeps, Asks
<1>2. \A c \in Callers : ~(Asks(c)' /\ caller'[c].gen = None)
  BY <1>1, NobodyWaits
<1>3. caller'["serve"].at = "idle"
  BY NobodyWaits DEF Callers
<1>4. Known'
  BY <1>1, <1>3 DEF ProxyInv, Known
<1>5. Lateness'
  BY <1>1, <1>2 DEF Lateness, Alive
<1>6. Current'
  BY <1>1 DEF ProxyInv, Current
<1>. QED BY <1>4, <1>5, <1>6

LEMMA DetachKeeps ==
  ASSUME ProxyInv, NEW to, pc \in {"serving", "cancelling"}, sync.retry = None, Detach(to),
         UNCHANGED <<env, wired, caller>>
  PROVE  AreCallers(caller') /\ Known' /\ Lateness' /\ Current'
<1>1. /\ sync'.cur = None /\ sync'.status = "IDLE" /\ sync'.pending = None /\ sync'.retry = None
  BY DEF Detach, Gone, ProxyInv, Coordinated, IsSync
<1>2. Coordinated'
  BY DetachCoordinated DEF ProxyInv
<1>3. \A k \in Syncs : ~Alive(task'[k])
  BY <1>1, <1>2, StateProxyAssumption DEF Coordinated, Tracks
<1>4. \A c \in Callers : caller'[c] = caller[c] /\ ~Sleeps(c)
  BY StateProxyAssumption DEF ProxyInv, Known
<1>5. AreCallers(caller')
  BY DEF ProxyInv
<1>. QED BY <1>1, <1>3, <1>4, <1>5, LeftKeeps

LEMMA DroppedKeeps ==
  ASSUME ProxyInv, Dropped PROVE AreCallers(caller') /\ Known' /\ Lateness' /\ Current'
<1>1. pc = "serving" /\ UNCHANGED <<seq, env, wired>> /\ gen' = None
  BY DEF Dropped, Lose, hass
<1>2. CASE ~wired
  <2>1. UNCHANGED <<sync, task, caller>>
    BY <1>2 DEF Dropped
  <2>2. sync.cur = None /\ \A c \in Callers : caller[c].at = "idle"
    BY <1>2 DEF ProxyInv, Known
  <2>3. sync.retry = None
    BY <2>2 DEF ProxyInv, Known, Sleeps, Callers
  <2>4. /\ sync'.cur = None /\ sync'.status = "IDLE" /\ sync'.pending = sync.pending /\ sync'.retry = None
    BY <2>1, <2>2, <2>3 DEF ProxyInv, Coordinated, Tracks
  <2>5. \A k \in Syncs : ~Alive(task'[k])
    BY <2>1, <2>2, StateProxyAssumption DEF ProxyInv, Coordinated, Tracks, Alive
  <2>6. AreCallers(caller') /\ \A c \in Callers : caller'[c] = caller[c] /\ ~Sleeps(c)
    BY <2>1, <2>2 DEF ProxyInv, Sleeps
  <2>. QED BY <1>1, <2>4, <2>5, <2>6, LeftKeeps
<1>3. CASE wired /\ sync.retry # None
  <2>1. pc' = "cancelling" /\ sync' = RetryCancelled(sync) /\ caller' = WithoutRetry(sync) /\ UNCHANGED task
    BY <1>3 DEF Dropped
  <2>2. /\ sync'.cur = sync.cur /\ sync'.gen = sync.gen /\ sync'.status = sync.status
        /\ sync'.pending = sync.pending /\ sync'.retry = None
    BY <2>1 DEF RetryCancelled, ProxyInv, Coordinated, IsSync
  <2>3. ~env.polling /\ sync.retry \in Callers
    BY <1>3 DEF ProxyInv, Known, Callers
  <2>4. /\ AreCallers(caller')
        /\ \A d \in Callers : d # sync.retry => caller'[d] = caller[d]
        /\ caller'[sync.retry] = Rest
    <3>. DEFINE cs == WithoutRetry(sync)
    <3>1. /\ AreCallers(cs)
          /\ \A d \in Callers : d # sync.retry => cs[d] = caller[d]
          /\ cs[sync.retry] = Rest
      BY <1>3, <2>3, WithoutRetryEffect DEF ProxyInv
    <3>. HIDE DEF cs
    <3>2. caller' = cs
      BY <2>1 DEF cs
    <3>. QED BY <3>1, <3>2
  <2>5. \A d \in Callers : caller'[d] = caller[d] \/ caller'[d].at = "idle"
    BY <2>4 DEF Rest
  <2>6. \A d \in Callers : ~Sleeps(d)'
    <3>1. SUFFICES ASSUME NEW d \in Callers, Sleeps(d)' PROVE FALSE
      OBVIOUS
    <3>2. Sleeps(d) /\ d # sync.retry
      BY <2>4, <2>5, <3>1 DEF Sleeps, Rest
    <3>. QED BY <3>2 DEF ProxyInv, Known
  <2>7. \A d \in Callers : Asks(d)' => Asks(d) /\ caller'[d].gen = caller[d].gen
    BY <2>5 DEF Asks
  <2>8. \A k \in Syncs : Alive(task[k]) => task[k].gen # None
    BY <1>3 DEF ProxyInv, Lateness
  <2>9. Known'
    <3>1. caller'["serve"].at = "idle"
      BY <1>1, <2>5, NobodyWaits DEF Callers
    <3>. QED BY <1>1, <1>3, <2>1, <2>2, <2>6, <3>1 DEF ProxyInv, Known
  <2>10. Lateness'
    BY <1>1, <2>1, <2>6, <2>7, <2>8, NobodyWaits DEF Lateness, Alive
  <2>11. Current'
    BY <1>1, <2>1, <2>2, <2>6, <2>7 DEF ProxyInv, Current
  <2>. QED BY <2>4, <2>9, <2>10, <2>11
<1>4. CASE wired /\ sync.retry = None
  <2>1. PICK to : Detach(to)
    BY <1>4 DEF Dropped
  <2>2. UNCHANGED caller
    BY <1>4 DEF Dropped
  <2>. QED BY <1>1, <1>4, <2>1, <2>2, DetachKeeps
<1>. QED BY <1>2, <1>3, <1>4

LEMMA RetryGoneKeeps ==
  ASSUME ProxyInv, RetryGone PROVE AreCallers(caller') /\ Known' /\ Lateness' /\ Current'
<1>. PICK to : to = leaving
  OBVIOUS
<1>1. pc = "cancelling" /\ Detach(to) /\ UNCHANGED <<env, wired, caller>>
  BY DEF RetryGone, hass
<1>2. sync.retry = None
  BY <1>1 DEF ProxyInv, Known, Current, Phases
<1>. QED BY <1>1, <1>2, DetachKeeps

----------------------------------------------------------------------------
(* Every step *)

LEMMA ProxyInvInit == Init => ProxyInv
<1>. SUFFICES ASSUME Init PROVE ProxyInv
  OBVIOUS
<1>1. /\ seq = 0 /\ gen = None /\ pc = "stopped" /\ leaving = "connecting" /\ ~wired
      /\ sync.cur = None /\ sync.retry = None /\ sync.pending = None /\ sync.status = "IDLE"
  BY DEF Init, WsInit, NoSync
<1>2. AreCallers(caller) /\ \A c \in Callers : caller[c].at = "idle"
  BY RestIsCaller DEF Init, AreCallers, Rest
<1>3. \A c \in Callers : ~Sleeps(c) /\ ~Asks(c)
  BY <1>2 DEF Sleeps, Asks
<1>4. \A k \in Syncs : ~Alive(task[k])
  BY DEF Init, NoTask, Alive
<1>5. Connection
  BY <1>1 DEF Connection, Phases
<1>6. Known
  BY <1>1, <1>2, <1>3 DEF Known, Callers
<1>7. Lateness
  BY <1>3, <1>4 DEF Lateness
<1>8. Current
  BY <1>1, <1>3 DEF Current
<1>. QED BY <1>2, <1>5, <1>6, <1>7, <1>8, CoordinatedInit DEF ProxyInv

LEMMA ProxyInvStep == ProxyInv /\ [Next]_vars => ProxyInv'
<1>. SUFFICES ASSUME ProxyInv, [Next]_vars PROVE ProxyInv'
  OBVIOUS
<1>1. Coordinated' /\ Connection'
  BY CoordinatedStep, ConnectionStep DEF ProxyInv
<1>2. AreCallers(caller') /\ Known' /\ Lateness' /\ Current'
  <2>1. CASE \/ WsNext /\ UNCHANGED proxy
             \/ Retried \/ Notified \/ SyncGone \/ OnStateChange \/ RecvStates
             \/ UNCHANGED vars
             \/ \E k \in Syncs : Answers(k)
    BY <2>1, OutsideKeeps
  <2>2. CASE Wire \/ Bootstrap \/ Announced \/ Poll
    BY <2>2, WireKeeps, BootstrapKeeps, AnnouncedKeeps, PollKeeps
  <2>3. CASE Dropped \/ RetryGone
    BY <2>3, DroppedKeeps, RetryGoneKeeps
  <2>4. CASE \/ \E c \in Callers : Resume(c)
             \/ \E c \in Retries : RetryWakes(c)
    BY <2>4, ResumeKeeps, RetryWakesKeeps
  <2>5. CASE \E k \in Syncs : SyncStep(k)
    BY <2>5, TaskKeeps
  <2>. QED BY <2>1, <2>2, <2>3, <2>4, <2>5 DEF Next
<1>3. AreCallers(caller)'
  BY <1>2 DEF AreCallers, IsCaller, Callers
<1>. QED BY <1>1, <1>2, <1>3 DEF ProxyInv

----------------------------------------------------------------------------
(* The values *)

Value    == (Nat \ {0}) \cup {None}
Snapshot == [Entities -> Value]
Event    == [entity : Entities, state : Value, gen : Nat \cup {None}]
Entry    == [entity : Entities, state : Value]
Frame    ==      [kind : {"ack"}]
            \cup [kind : {"event"}, entity : Entities, state : Value]
            \cup [kind : {"states"}, task : Syncs, states : Snapshot]

\* The generations handed out so far, or none.
Reached == (1 .. seq) \cup {None}

Ats == {"free", "spawned", "fetching", "answered", "broken", "done"}

\* A task that has begun.
Begun(t) == t.at \notin {"free", "spawned"}

Sorts ==
    /\ env \in Environment /\ seq <= env.gens /\ clock \in 0 .. env.changes
    /\ conn \in {"DISCONNECTED", "CONNECTING", "CONNECTED"}
    /\ (gen = None) = (conn # "CONNECTED")
    /\ fresh \in {"UNAVAILABLE", "FRESH", "STALE"}
    /\ sync.status \in {"IDLE", "INITIAL", "RECONNECT", "POLL"}
    /\ \A k \in Syncs : task[k].at \in Ats
    /\ \A c \in Callers : caller[c].at \in {"idle", "spawned", "asleep", "awaits", "woken"}

Generations ==
    /\ gen \in Reached /\ kept \in Reached
    /\ sync.gen \in Reached /\ sync.pending \in Reached /\ sync.retryGen \in Reached
    /\ \A k \in Syncs : task[k].gen \in Reached
    /\ \A c \in Callers : caller[c].gen \in Reached /\ caller[c].own \in Reached

Data ==
    /\ ha \in Snapshot /\ states \in Snapshot
    /\ wire \in Seq(Frame) /\ bus \in Seq(Event) /\ sync.journal \in Seq(Entry)
    /\ \A k \in Syncs : /\ Begun(task[k]) => task[k].base \in Snapshot
                        /\ task[k].at = "done" => task[k].got \in Snapshot

\* The frames on their way: a task has one answer at most.
Frames ==
    /\ \A i \in 1 .. Len(wire) : wire[i].kind = "ack" => subscribed
    /\ \A i \in 1 .. Len(wire) : wire[i].kind = "states" => task[wire[i].task].at = "answered"
    /\ \A i, j \in 1 .. Len(wire) :
          wire[i].kind = "states" /\ wire[j].kind = "states" /\ wire[i].task = wire[j].task => i = j

\* The task that collects the journal, and the frames of one connection.
Exchange ==
    /\ sync.active # None => wired /\ sync.active \in Syncs /\ Begun(task[sync.active])
    /\ kept # None => wired
    /\ \A k \in Syncs : task[k].cancelled => pc = "unwinding"
    /\ pc \in {"cancelling", "unwinding"} => recv = "dead"
    /\ recv # "running" => wire = <<>> /\ ~subscribed
    /\ recv = "running" /\ (gen # None \/ acked) => subscribed
    /\ Frames

----------------------------------------------------------------------------
(* What is held, and what is on its way *)

\* Versions grow: no other is newer than Home Assistant's.
Past(v, e) == v # None => v <= clock /\ (ha[e] # None => v <= ha[e])

PastOnWire ==
    /\ \A i \in 1 .. Len(wire) : wire[i].kind = "event" => Past(wire[i].state, wire[i].entity)
    /\ \A i \in 1 .. Len(wire) : wire[i].kind = "states" => \A e \in Entities : Past(wire[i].states[e], e)

Older ==
    /\ \A e \in Entities : Past(ha[e], e) /\ Past(states[e], e)
    /\ \A k \in Syncs : Begun(task[k]) => \A e \in Entities : Past(task[k].base[e], e)
    /\ \A k \in Syncs : task[k].at = "done" => \A e \in Entities : Past(task[k].got[e], e)
    /\ \A i \in 1 .. Len(sync.journal) : Past(sync.journal[i].state, sync.journal[i].entity)
    /\ PastOnWire
    /\ \A i \in 1 .. Len(bus) : Past(bus[i].state, bus[i].entity)

EventOf(m, e) == m.kind = "event" /\ m.entity = e

OnWire(e)  == \E i \in 1 .. Len(wire) : EventOf(wire[i], e)
OnBus(e)   == \E i \in 1 .. Len(bus) : bus[i].entity = e
Pending(e) == OnWire(e) \/ OnBus(e)

\* The last event under way tells Home Assistant's state.
EventsTell ==
    \A e \in Entities : \A i \in 1 .. Len(wire) :
        EventOf(wire[i], e) /\ (\A j \in i + 1 .. Len(wire) : ~EventOf(wire[j], e)) => wire[i].state = ha[e]

Sent ==
    recv = "running" =>
        /\ ~subscribed => bus = <<>> /\ \A i \in 1 .. Len(wire) : wire[i].kind # "event"
        /\ \A i \in 1 .. Len(bus) : bus[i].gen \in {None, gen}
        /\ EventsTell
        /\ \A e \in Entities : \A i \in 1 .. Len(bus) :
              bus[i].entity = e /\ (\A j \in i + 1 .. Len(bus) : bus[j].entity # e) /\ ~OnWire(e)
                  => bus[i].state = ha[e]

\* A task of the connection that is ready.
Live(k) == gen # None /\ task[k].gen = gen

\* An answer is Home Assistant's state, but for the events behind it; what a
\* task began with and is still true is in its answer.
AnswersTell ==
    \A i \in 1 .. Len(wire) : wire[i].kind = "states" /\ Live(wire[i].task) => \A e \in Entities :
        /\ (\A j \in i + 1 .. Len(wire) : ~EventOf(wire[j], e)) => wire[i].states[e] = ha[e]
        /\ task[wire[i].task].base[e] # None /\ task[wire[i].task].base[e] = ha[e]
              => wire[i].states[e] = ha[e]

Answered ==
    /\ AnswersTell
    /\ \A k \in Syncs : task[k].at = "done" /\ Live(k) => \A e \in Entities :
          task[k].base[e] # None /\ task[k].base[e] = ha[e] => task[k].got[e] = ha[e]

InJournal(e) == \E i \in 1 .. Len(sync.journal) : sync.journal[i].entity = e

\* The journal is what has changed in the cache since the task began.
Journal ==
    sync.active # None /\ Live(sync.active) => \A e \in Entities :
        /\ \A i \in 1 .. Len(sync.journal) :
              sync.journal[i].entity = e /\ (\A j \in i + 1 .. Len(sync.journal) : sync.journal[j].entity # e)
                  => sync.journal[i].state = states[e]
        /\ ~InJournal(e) => states[e] = task[sync.active].base[e]
        /\ InJournal(e) /\ ~Pending(e) => states[e] = ha[e]
        /\ task[sync.active].at = "done" /\ ~InJournal(e) /\ ~Pending(e) => task[sync.active].got[e] = ha[e]

\* What was committed on the connection that is ready is up to date, but for
\* the events under way.
Maintained == gen # None /\ kept = gen => \A e \in Entities : Pending(e) \/ states[e] = ha[e]

Flow == Data /\ Exchange /\ Older /\ (~env.backlog => Sent /\ Answered /\ Journal /\ Maintained)

CacheInv == Sorts /\ Generations /\ Flow

LEMMA TailFacts ==
  ASSUME NEW S, NEW s \in Seq(S), s # <<>>
  PROVE  /\ Tail(s) \in Seq(S) /\ Len(s) \in Nat \ {0} /\ Len(Tail(s)) = Len(s) - 1
         /\ Head(s) = s[1] /\ s[1] \in S /\ 1 \in 1 .. Len(s)
         /\ \A i \in 1 .. Len(Tail(s)) : i + 1 \in 2 .. Len(s) /\ Tail(s)[i] = s[i + 1]
OBVIOUS

LEMMA AppendFacts ==
  ASSUME NEW S, NEW s \in Seq(S), NEW x \in S
  PROVE  /\ Append(s, x) \in Seq(S) /\ Len(s) \in Nat /\ Len(Append(s, x)) = Len(s) + 1
         /\ Append(s, x)[Len(s) + 1] = x
         /\ \A i \in 1 .. Len(s) : Append(s, x)[i] = s[i]
OBVIOUS

----------------------------------------------------------------------------
(* Statuses and generations *)

Statuses == {"IDLE", "INITIAL", "RECONNECT", "POLL"}
Waits    == {"idle", "spawned", "asleep", "awaits", "woken"}

\* The bookkeeping speaks of the generations in G.
SpeaksOf(s, G) == s.status \in Statuses /\ s.gen \in G /\ s.pending \in G /\ s.retryGen \in G

CallersSpeakOf(callers, G) ==
    \A c \in Callers : callers[c].at \in Waits /\ callers[c].gen \in G /\ callers[c].own \in G

\* What a request leaves of the tasks and of the journal.
Requested(s) ==
    /\ sync'.active = s.active /\ sync'.journal = s.journal
    /\ \A i \in Syncs : \/ task'[i] = task[i]
                        \/ /\ task[i].at = "free" /\ task'[i].at = "spawned"
                           /\ task'[i].cancelled = FALSE /\ task'[i].gen = sync'.gen

LEMMA RestSpeaks ==
  ASSUME NEW G, None \in G PROVE Rest.at \in Waits /\ Rest.gen \in G /\ Rest.own \in G
BY DEF Rest, Waits

LEMMA WithoutRetrySpeaks ==
  ASSUME NEW G, None \in G, AreCallers(caller), CallersSpeakOf(caller, G), NEW s
  PROVE  CallersSpeakOf(WithoutRetry(s), G)
<1>1. CASE s.retry = None
  BY <1>1 DEF WithoutRetry
<1>2. CASE s.retry # None
  <2>1. \A c \in Callers : WithoutRetry(s)[c] = caller[c] \/ WithoutRetry(s)[c] = Rest
    BY <1>2 DEF WithoutRetry, AreCallers
  <2>. QED BY <2>1, RestSpeaks DEF CallersSpeakOf
<1>. QED BY <1>1, <1>2

LEMMA StartSyncOutcome ==
  ASSUME NEW c \in Callers, NEW STATE g, NEW STATE cause, NEW STATE status, NEW STATE s, NEW STATE callers,
         NEW STATE G, g \in G, status \in Statuses,
         AreTasks(task), IsSync(s), SpeaksOf(s, G), AreCallers(callers), CallersSpeakOf(callers, G),
         StartSync(c, g, cause, status, s, callers)
  PROVE  Requested(s) /\ SpeaksOf(sync', G) /\ CallersSpeakOf(caller', G)
<1>1. PICK k \in Syncs :
        /\ task[k].at = "free"
        /\ task' = [task EXCEPT ![k] = [NoTask EXCEPT !.at = "spawned", !.gen = g, !.status = status]]
        /\ sync' = [s EXCEPT !.cur = k, !.gen = g, !.status = status]
        /\ caller' = [callers EXCEPT ![c] = [@ EXCEPT !.at = "awaits", !.on = k, !.gen = g,
                                                      !.cause = cause, !.again = FALSE]]
  BY DEF StartSync
<1>2. /\ sync'.gen = g /\ sync'.status = status /\ sync'.pending = s.pending
      /\ sync'.retryGen = s.retryGen /\ sync'.active = s.active /\ sync'.journal = s.journal
  BY <1>1 DEF IsSync
<1>3. /\ task'[k].at = "spawned" /\ task'[k].cancelled = FALSE /\ task'[k].gen = g
      /\ \A i \in Syncs \ {k} : task'[i] = task[i]
  BY <1>1 DEF AreTasks, NoTask
<1>. DEFINE r == [callers[c] EXCEPT !.at = "awaits", !.on = k, !.gen = g, !.cause = cause, !.again = FALSE]
<1>4. r.at = "awaits" /\ r.gen = g /\ r.own = callers[c].own
  BY DEF AreCallers, IsCaller
<1>5. caller'[c] = r /\ \A d \in Callers : d # c => caller'[d] = callers[d]
  BY <1>1 DEF AreCallers
<1>. HIDE DEF r
<1>6. CallersSpeakOf(caller', G)
  BY <1>4, <1>5 DEF CallersSpeakOf, Waits
<1>. QED BY <1>1, <1>2, <1>3, <1>6 DEF Requested, SpeaksOf

LEMMA RequestSyncOutcome ==
  ASSUME NEW c \in Callers, NEW STATE g, NEW STATE cause, NEW STATE before,
         NEW STATE G, g \in G, None \in G,
         AreTasks(task), IsSync(before), SpeaksOf(before, G), AreCallers(caller), CallersSpeakOf(caller, G),
         RequestSync(c, g, cause, before)
  PROVE  Requested(before) /\ SpeaksOf(sync', G) /\ CallersSpeakOf(caller', G)
<1>. DEFINE stale   == Superseded(before, g)
            s       == IF stale THEN RetryCancelled(before) ELSE before
            callers == IF stale THEN WithoutRetry(before) ELSE caller
            want    == IF s.pending = None THEN g ELSE s.pending
            again   == s.status = "POLL" \/ (s.gen # None /\ s.gen # g)
<1>1. IsSync(s) /\ SpeaksOf(s, G) /\ s.active = before.active /\ s.journal = before.journal
  BY DEF IsSync, SpeaksOf, RetryCancelled
<1>2. AreCallers(callers) /\ CallersSpeakOf(callers, G)
  BY WithoutRetryEffect, WithoutRetrySpeaks
<1>3. want \in G
  BY <1>1 DEF SpeaksOf
<1>4. \/ /\ sync' = IF again THEN [s EXCEPT !.pending = g] ELSE s
         /\ caller' = [callers EXCEPT ![c] = [@ EXCEPT !.at = "awaits", !.on = s.cur, !.gen = g,
                                                       !.cause = cause, !.again = again]]
         /\ UNCHANGED task
      \/ StartSync(c, want, cause, StatusFor(want, cause), [s EXCEPT !.pending = None], callers)
      \/ /\ sync' = Forgotten(c, [s EXCEPT !.pending = IF @ = want THEN None ELSE @])
         /\ caller' = [callers EXCEPT ![c] = Rest]
         /\ UNCHANGED task
  BY DEF RequestSync
<1>. HIDE DEF s, callers, want, again
<1>5. CASE /\ sync' = IF again THEN [s EXCEPT !.pending = g] ELSE s
           /\ caller' = [callers EXCEPT ![c] = [@ EXCEPT !.at = "awaits", !.on = s.cur, !.gen = g,
                                                         !.cause = cause, !.again = again]]
           /\ UNCHANGED task
  <2>1. SpeaksOf(sync', G) /\ sync'.active = s.active /\ sync'.journal = s.journal
    BY <1>1, <1>5 DEF IsSync, SpeaksOf
  <2>. DEFINE r == [callers[c] EXCEPT !.at = "awaits", !.on = s.cur, !.gen = g, !.cause = cause, !.again = again]
  <2>2. r.at = "awaits" /\ r.gen = g /\ r.own = callers[c].own
    BY <1>2 DEF AreCallers, IsCaller
  <2>3. caller'[c] = r /\ \A d \in Callers : d # c => caller'[d] = callers[d]
    BY <1>2, <1>5 DEF AreCallers
  <2>. HIDE DEF r
  <2>4. CallersSpeakOf(caller', G)
    BY <1>2, <2>2, <2>3 DEF CallersSpeakOf, Waits
  <2>. QED BY <1>1, <1>5, <2>1, <2>4 DEF Requested
<1>6. CASE StartSync(c, want, cause, StatusFor(want, cause), [s EXCEPT !.pending = None], callers)
  <2>. DEFINE t == [s EXCEPT !.pending = None]
              st == StatusFor(want, cause)
  <2>1. IsSync(t) /\ SpeaksOf(t, G) /\ t.active = s.active /\ t.journal = s.journal
    BY <1>1 DEF IsSync, SpeaksOf
  <2>2. st \in Statuses
    BY DEF StatusFor, Statuses
  <2>3. StartSync(c, want, cause, st, t, callers)
    BY <1>6
  <2>. HIDE DEF t, st
  <2>4. Requested(t) /\ SpeaksOf(sync', G) /\ CallersSpeakOf(caller', G)
    BY <1>2, <1>3, <2>1, <2>2, <2>3, StartSyncOutcome
  <2>. QED BY <1>1, <2>1, <2>4 DEF Requested
<1>7. CASE /\ sync' = Forgotten(c, [s EXCEPT !.pending = IF @ = want THEN None ELSE @])
           /\ caller' = [callers EXCEPT ![c] = Rest]
           /\ UNCHANGED task
  <2>1. SpeaksOf(sync', G) /\ sync'.active = s.active /\ sync'.journal = s.journal
    BY <1>1, <1>7 DEF IsSync, SpeaksOf, Forgotten
  <2>2. \A d \in Callers : caller'[d] = callers[d] \/ caller'[d] = Rest
    BY <1>2, <1>7 DEF AreCallers
  <2>3. CallersSpeakOf(caller', G)
    BY <1>2, <2>2, RestSpeaks DEF CallersSpeakOf
  <2>. QED BY <1>1, <1>7, <2>1, <2>3 DEF Requested
<1>. QED BY <1>4, <1>5, <1>6, <1>7

Requests == Bootstrap \/ Announced \/ Poll \/ (\E c \in Callers : Resume(c)) \/ \E c \in Retries : RetryWakes(c)

TasksSpeakOf(tasks, G) == \A k \in Syncs : tasks[k].at \in Ats /\ tasks[k].gen \in G

LEMMA ReturnOutcome ==
  ASSUME ProxyInv, NEW c \in Callers, SpeaksOf(sync, Reached), CallersSpeakOf(caller, Reached),
         caller' = [caller EXCEPT ![c] = Rest],
         sync' = sync \/ sync' = Forgotten(c, sync), UNCHANGED task
  PROVE  Requested(sync) /\ SpeaksOf(sync', Reached) /\ CallersSpeakOf(caller', Reached)
<1>1. None \in Reached
  BY DEF Reached
<1>2. SpeaksOf(sync', Reached) /\ sync'.active = sync.active /\ sync'.journal = sync.journal
  BY <1>1 DEF ProxyInv, Coordinated, IsSync, SpeaksOf, Forgotten
<1>3. \A d \in Callers : caller'[d] = caller[d] \/ caller'[d] = Rest
  BY DEF ProxyInv, AreCallers
<1>4. CallersSpeakOf(caller', Reached)
  BY <1>1, <1>3, RestSpeaks DEF CallersSpeakOf
<1>. QED BY <1>2, <1>4 DEF Requested

LEMMA RequestsOutcome ==
  ASSUME ProxyInv, gen \in Reached, SpeaksOf(sync, Reached), CallersSpeakOf(caller, Reached), Requests
  PROVE  Requested(sync) /\ SpeaksOf(sync', Reached) /\ CallersSpeakOf(caller', Reached)
<1>1. None \in Reached /\ AreTasks(task) /\ IsSync(sync) /\ AreCallers(caller)
  BY DEF Reached, ProxyInv, Coordinated
<1>2. ASSUME NEW c \in Callers, NEW STATE g, NEW STATE cause, g \in Reached, RequestSync(c, g, cause, sync)
      PROVE  Requested(sync) /\ SpeaksOf(sync', Reached) /\ CallersSpeakOf(caller', Reached)
  BY <1>1, <1>2, RequestSyncOutcome
<1>3. CASE Bootstrap
  <2>1. "boot" \in Callers
    BY DEF Callers
  <2>2. CASE RequestSync("boot", gen, "signal", sync)
    BY <1>2, <2>1, <2>2
  <2>3. CASE caller' = [caller EXCEPT !["boot"] = Rest] /\ UNCHANGED <<sync, task>>
    BY <2>1, <2>3, ReturnOutcome
  <2>. QED BY <1>3, <2>2, <2>3 DEF Bootstrap
<1>4. CASE Announced
  <2>1. "serve" \in Callers
    BY DEF Callers
  <2>2. CASE RequestSync("serve", gen, "signal", sync)
    BY <1>2, <2>1, <2>2
  <2>3. CASE UNCHANGED <<sync, task, caller>>
    BY <2>3 DEF Requested
  <2>. QED BY <1>4, <2>2, <2>3 DEF Announced
<1>5. CASE Poll
  <2>. DEFINE s == IF Superseded(sync, gen) THEN RetryCancelled(sync) ELSE sync
              callers == IF Superseded(sync, gen) THEN WithoutRetry(sync) ELSE caller
              status == IF NeedsSync(gen) THEN StatusFor(gen, "retry") ELSE "POLL"
  <2>1. /\ IsSync(s) /\ SpeaksOf(s, Reached) /\ s.active = sync.active /\ s.journal = sync.journal
    BY <1>1 DEF IsSync, SpeaksOf, RetryCancelled
  <2>2. AreCallers(callers) /\ CallersSpeakOf(callers, Reached)
    BY <1>1, WithoutRetryEffect, WithoutRetrySpeaks
  <2>3. status \in Statuses /\ "poll" \in Callers
    BY DEF StatusFor, Statuses, Callers
  <2>4. \/ sync' = s /\ caller' = callers /\ UNCHANGED task
        \/ StartSync("poll", gen, "retry", status, s, callers)
    BY <1>5 DEF Poll
  <2>. HIDE DEF s, callers, status
  <2>5. CASE sync' = s /\ caller' = callers /\ UNCHANGED task
    BY <2>1, <2>2, <2>5 DEF Requested
  <2>6. CASE StartSync("poll", gen, "retry", status, s, callers)
    <3>1. Requested(s) /\ SpeaksOf(sync', Reached) /\ CallersSpeakOf(caller', Reached)
      BY <1>1, <2>1, <2>2, <2>3, <2>6, StartSyncOutcome
    <3>. QED BY <2>1, <3>1 DEF Requested
  <2>. QED BY <2>4, <2>5, <2>6
<1>6. ASSUME NEW c \in Callers, Resume(c)
      PROVE  Requested(sync) /\ SpeaksOf(sync', Reached) /\ CallersSpeakOf(caller', Reached)
  <2>1. CASE RequestSync(c, caller[c].gen, caller[c].cause, sync)
    BY <1>2, <2>1 DEF CallersSpeakOf
  <2>2. CASE sync' = Forgotten(c, sync) /\ caller' = [caller EXCEPT ![c] = Rest] /\ UNCHANGED task
    BY <2>2, ReturnOutcome
  <2>. QED BY <1>6, <2>1, <2>2 DEF Resume
<1>7. ASSUME NEW c \in Retries, RetryWakes(c)
      PROVE  Requested(sync) /\ SpeaksOf(sync', Reached) /\ CallersSpeakOf(caller', Reached)
  <2>. DEFINE s == [sync EXCEPT !.retry = IF @ = c THEN None ELSE @]
  <2>1. IsSync(s) /\ SpeaksOf(s, Reached) /\ s.active = sync.active /\ s.journal = sync.journal
    BY <1>1 DEF IsSync, SpeaksOf
  <2>2. RequestSync(c, caller[c].own, "retry", s) /\ c \in Callers /\ caller[c].own \in Reached
    BY <1>7 DEF RetryWakes, Callers, CallersSpeakOf
  <2>. HIDE DEF s
  <2>3. Requested(s) /\ SpeaksOf(sync', Reached) /\ CallersSpeakOf(caller', Reached)
    BY <1>1, <2>1, <2>2, RequestSyncOutcome
  <2>. QED BY <2>1, <2>3 DEF Requested
<1>. QED BY <1>3, <1>4, <1>5, <1>6, <1>7 DEF Requests

LEMMA FinishedSpeaks ==
  ASSUME NEW k \in Syncs, NEW G, None \in G, Coordinated, SpeaksOf(sync, G), TasksSpeakOf(task, G),
         task' = [task EXCEPT ![k] = NoTask]
  PROVE  SpeaksOf(Finished(k, sync), G) /\ TasksSpeakOf(task', G)
<1>1. SpeaksOf(Finished(k, sync), G)
  BY DEF Coordinated, IsSync, SpeaksOf, Statuses, Finished
<1>2. \A i \in Syncs : task'[i] = task[i] \/ task'[i] = NoTask
  BY DEF Coordinated, AreTasks
<1>. QED BY <1>1, <1>2 DEF TasksSpeakOf, NoTask, Ats

LEMMA AwokenSpeaks ==
  ASSUME NEW k, NEW G, None \in G, AreCallers(caller), CallersSpeakOf(caller, G)
  PROVE  CallersSpeakOf(Awoken(k, caller), G) /\ CallersSpeakOf(Cancelled(k), G)
<1>. SUFFICES ASSUME NEW c \in Callers
     PROVE /\ Awoken(k, caller)[c].at \in Waits /\ Awoken(k, caller)[c].gen \in G /\ Awoken(k, caller)[c].own \in G
           /\ Cancelled(k)[c].at \in Waits /\ Cancelled(k)[c].gen \in G /\ Cancelled(k)[c].own \in G
  BY DEF CallersSpeakOf
<1>. DEFINE woken == [caller[c] EXCEPT !.at = "woken", !.on = None]
<1>1. Awoken(k, caller)[c] \in {caller[c], woken} /\ Cancelled(k)[c] \in {caller[c], Rest}
  BY DEF Awoken, Cancelled
<1>2. woken.at = "woken" /\ woken.gen = caller[c].gen /\ woken.own = caller[c].own
  BY DEF AreCallers, IsCaller
<1>3. caller[c].at \in Waits /\ caller[c].gen \in G /\ caller[c].own \in G
  BY DEF CallersSpeakOf
<1>. HIDE DEF woken
<1>. QED BY <1>1, <1>2, <1>3, RestSpeaks DEF Waits

LEMMA RetryScheduledSpeaks ==
  ASSUME NEW STATE g, NEW STATE s, NEW STATE callers, NEW STATE G, None \in G, g \in G,
         IsSync(s), SpeaksOf(s, G), AreCallers(callers), CallersSpeakOf(callers, G),
         RetryScheduled(g, s, callers)
  PROVE  SpeaksOf(sync', G) /\ CallersSpeakOf(caller', G)
<1>1. SpeaksOf(sync', G)
  BY DEF RetryScheduled, IsSync, SpeaksOf
<1>2. CASE caller' = callers
  BY <1>1, <1>2
<1>3. CASE caller' # callers
  <2>. DEFINE old == IF s.retry = None THEN callers ELSE [callers EXCEPT ![s.retry] = Rest]
              r == [Rest EXCEPT !.at = "asleep", !.own = g]
  <2>1. PICK c : caller' = [old EXCEPT ![c] = r]
    BY <1>3 DEF RetryScheduled
  <2>2. r.at = "asleep" /\ r.gen = None /\ r.own = g
    BY DEF Rest
  <2>. HIDE DEF r
  <2>3. \A d \in Callers : caller'[d] \in {callers[d], Rest, r}
    BY <2>1 DEF AreCallers
  <2>4. CallersSpeakOf(caller', G)
    BY <2>2, <2>3, RestSpeaks DEF CallersSpeakOf, Waits
  <2>. QED BY <1>1, <2>4
<1>. QED BY <1>2, <1>3

\* A task's next state.
LEMMA MovedTasks ==
  ASSUME AreTasks(task), NEW G, TasksSpeakOf(task, G), NEW k, NEW r, r.at \in Ats, r.gen \in G,
         task' = [task EXCEPT ![k] = r]
  PROVE  TasksSpeakOf(task', G)
<1>1. \A i \in Syncs : task'[i] = task[i] \/ task'[i] = r
  BY DEF AreTasks
<1>. QED BY <1>1 DEF TasksSpeakOf

LEMMA BrokenSpeaks ==
  ASSUME AreTasks(task), NEW G, TasksSpeakOf(task, G)
  PROVE  TasksSpeakOf(Broken(task), G)
<1>. SUFFICES ASSUME NEW k \in Syncs PROVE Broken(task)[k].at \in Ats /\ Broken(task)[k].gen \in G
  BY DEF TasksSpeakOf
<1>. DEFINE r == [task[k] EXCEPT !.at = "broken"]
<1>1. r.at = "broken" /\ r.gen = task[k].gen
  BY DEF AreTasks, IsTask
<1>. HIDE DEF r
<1>2. Broken(task)[k] = task[k] \/ Broken(task)[k] = r
  BY DEF Broken, r
<1>. QED BY <1>1, <1>2 DEF TasksSpeakOf, Ats

LEMMA SyncStepSpeaks ==
  ASSUME ProxyInv, SpeaksOf(sync, Reached), CallersSpeakOf(caller, Reached), TasksSpeakOf(task, Reached),
         NEW k \in Syncs, SyncStep(k) \/ Answers(k)
  PROVE  SpeaksOf(sync', Reached) /\ CallersSpeakOf(caller', Reached) /\ TasksSpeakOf(task', Reached)
<1>1. None \in Reached /\ AreTasks(task) /\ IsSync(sync) /\ AreCallers(caller) /\ Coordinated
  BY DEF Reached, ProxyInv, Coordinated
<1>2. task[k].gen \in Reached /\ IsTask(task[k])
  BY <1>1 DEF TasksSpeakOf, AreTasks
<1>3. CASE Begin(k)
  <2>. DEFINE r == [task[k] EXCEPT !.at = IF recv = "running" THEN "fetching" ELSE "broken", !.base = states]
  <2>1. r.at \in Ats /\ r.gen \in Reached
    BY <1>2 DEF IsTask, Ats
  <2>2. task' = [task EXCEPT ![k] = r] /\ UNCHANGED caller
    BY <1>3 DEF Begin
  <2>. HIDE DEF r
  <2>3. TasksSpeakOf(task', Reached)
    BY <1>1, <2>1, <2>2, MovedTasks
  <2>4. SpeaksOf(sync', Reached)
    BY <1>1, <1>3 DEF Begin, IsSync, SpeaksOf
  <2>. QED BY <2>2, <2>3, <2>4
<1>4. CASE Answers(k)
  <2>. DEFINE r == [task[k] EXCEPT !.at = "answered"]
  <2>1. r.at \in Ats /\ r.gen \in Reached
    BY <1>2 DEF IsTask, Ats
  <2>2. task' = [task EXCEPT ![k] = r] /\ UNCHANGED <<sync, caller>>
    BY <1>4 DEF Answers
  <2>. HIDE DEF r
  <2>. QED BY <1>1, <2>1, <2>2, MovedTasks
<1>5. CASE Commit(k) \/ Fails(k) \/ Unwinds(k)
  <2>. DEFINE s == Finished(k, sync)
              callers == Awoken(k, caller)
  <2>1. task' = [task EXCEPT ![k] = NoTask]
    BY <1>5 DEF Commit, Fails, Unwinds
  <2>2. SpeaksOf(s, Reached) /\ TasksSpeakOf(task', Reached) /\ IsSync(s)
    BY <1>1, <2>1, FinishedSpeaks, FinishedIsSync
  <2>3. CallersSpeakOf(callers, Reached) /\ CallersSpeakOf(Cancelled(k), Reached) /\ AreCallers(callers)
    BY <1>1, AwokenSpeaks, AwokenEffect
  <2>. HIDE DEF s, callers
  <2>4. CASE sync' = s /\ (caller' = callers \/ caller' = Cancelled(k))
    BY <2>2, <2>3, <2>4
  <2>5. CASE RetryScheduled(task[k].gen, s, callers)
    BY <1>1, <1>2, <2>2, <2>3, <2>5, RetryScheduledSpeaks
  <2>. QED BY <1>5, <2>4, <2>5 DEF Commit, Fails, Unwinds, s, callers
<1>. QED BY <1>3, <1>4, <1>5 DEF SyncStep

LEMMA DisconnectSpeaks ==
  ASSUME ProxyInv, SpeaksOf(sync, Reached), CallersSpeakOf(caller, Reached), TasksSpeakOf(task, Reached),
         Retried \/ Dropped \/ RetryGone \/ SyncGone
  PROVE  SpeaksOf(sync', Reached) /\ CallersSpeakOf(caller', Reached) /\ TasksSpeakOf(task', Reached)
<1>1. None \in Reached /\ AreTasks(task) /\ IsSync(sync) /\ AreCallers(caller)
  BY DEF Reached, ProxyInv, Coordinated
<1>2. caller' = caller \/ caller' = WithoutRetry(sync)
  BY DEF Retried, Dropped, RetryGone, SyncGone
<1>3. CallersSpeakOf(caller', Reached)
  BY <1>1, <1>2, WithoutRetrySpeaks
<1>4. sync' = sync \/ sync' = RetryCancelled(sync) \/ sync' = Gone
  BY DEF Retried, Dropped, RetryGone, SyncGone, Detach
<1>5. SpeaksOf(sync', Reached)
  BY <1>1, <1>4 DEF IsSync, SpeaksOf, RetryCancelled, Gone, Statuses
<1>6. \/ task' = task \/ task' = Broken(task)
      \/ task' = [task EXCEPT ![sync.cur].cancelled = TRUE]
  BY DEF Retried, Dropped, RetryGone, SyncGone, Detach, Stale
<1>7. TasksSpeakOf(task', Reached)
  <2>1. CASE task' = [task EXCEPT ![sync.cur].cancelled = TRUE]
    <3>. DEFINE r == [task[sync.cur] EXCEPT !.cancelled = TRUE]
    <3>1. CASE sync.cur \in Syncs
      <4>1. r.at = task[sync.cur].at /\ r.gen = task[sync.cur].gen
        BY <1>1, <3>1 DEF AreTasks, IsTask
      <4>2. r.at \in Ats /\ r.gen \in Reached
        BY <3>1, <4>1 DEF TasksSpeakOf
      <4>. QED BY <1>1, <2>1, <4>2, MovedTasks
    <3>2. CASE sync.cur \notin Syncs
      BY <1>1, <2>1, <3>2 DEF AreTasks
    <3>. QED BY <3>1, <3>2
  <2>. QED BY <1>1, <1>6, <2>1, BrokenSpeaks
<1>. QED BY <1>3, <1>5, <1>7

\* The poll and the requesters only speak of generations handed out.
LEMMA SpeaksStep ==
  ASSUME ProxyInv, gen \in Reached,
         SpeaksOf(sync, Reached), CallersSpeakOf(caller, Reached), TasksSpeakOf(task, Reached), [Next]_vars
  PROVE  SpeaksOf(sync', Reached) /\ CallersSpeakOf(caller', Reached) /\ TasksSpeakOf(task', Reached)
<1>1. None \in Reached /\ AreTasks(task) /\ IsSync(sync) /\ AreCallers(caller)
  BY DEF Reached, ProxyInv, Coordinated
<1>2. CASE Requests
  <2>1. Requested(sync) /\ SpeaksOf(sync', Reached) /\ CallersSpeakOf(caller', Reached)
    BY <1>2, RequestsOutcome
  <2>2. TasksSpeakOf(task', Reached)
    BY <2>1 DEF Requested, TasksSpeakOf, SpeaksOf, Ats
  <2>. QED BY <2>1, <2>2
<1>3. CASE Wire
  <2>. DEFINE r == [caller["boot"] EXCEPT !.at = "spawned"]
  <2>1. UNCHANGED <<sync, task>> /\ caller' = [caller EXCEPT !["boot"] = r] /\ "boot" \in Callers
    BY <1>3 DEF Wire, Callers
  <2>2. r.at = "spawned" /\ r.gen = caller["boot"].gen /\ r.own = caller["boot"].own
    BY <1>1, <2>1 DEF AreCallers, IsCaller
  <2>. HIDE DEF r
  <2>3. \A c \in Callers : caller'[c] = caller[c] \/ (c = "boot" /\ caller'[c] = r)
    BY <1>1, <2>1 DEF AreCallers
  <2>4. CallersSpeakOf(caller', Reached)
    BY <2>2, <2>3 DEF CallersSpeakOf, Waits
  <2>. QED BY <2>1, <2>4
<1>4. CASE (WsNext /\ UNCHANGED proxy) \/ Notified \/ UNCHANGED vars
  BY <1>4 DEF proxy, Notified, vars
<1>5. CASE OnStateChange
  <2>1. UNCHANGED <<task, caller>> /\ (UNCHANGED sync \/ sync' = Journalled(Head(bus)))
    BY <1>5 DEF OnStateChange
  <2>2. SpeaksOf(sync', Reached)
    BY <1>1, <2>1 DEF Journalled, IsSync, SpeaksOf
  <2>. QED BY <2>1, <2>2
<1>6. CASE RecvStates
  <2>. DEFINE k == Head(wire).task
              r == [task[k] EXCEPT !.at = "done", !.got = Head(wire).states]
  <2>1. UNCHANGED <<sync, caller>> /\ (UNCHANGED task \/ task' = [task EXCEPT ![k] = r])
    BY <1>6 DEF RecvStates
  <2>2. CASE k \in Syncs /\ task' = [task EXCEPT ![k] = r]
    <3>1. r.at = "done" /\ r.gen = task[k].gen
      BY <1>1, <2>2 DEF AreTasks, IsTask
    <3>2. r.at \in Ats /\ r.gen \in Reached
      BY <2>2, <3>1 DEF TasksSpeakOf, Ats
    <3>. QED BY <1>1, <2>1, <2>2, <3>2, MovedTasks
  <2>3. CASE k \notin Syncs /\ task' = [task EXCEPT ![k] = r]
    <3>1. task' = task
      BY <1>1, <2>3 DEF AreTasks
    <3>. QED BY <2>1, <3>1
  <2>. QED BY <2>1, <2>2, <2>3
<1>7. CASE Retried \/ Dropped \/ RetryGone \/ SyncGone
  BY <1>7, DisconnectSpeaks
<1>8. CASE \E k \in Syncs : SyncStep(k) \/ Answers(k)
  BY <1>8, SyncStepSpeaks
<1>. QED BY <1>2, <1>3, <1>4, <1>5, <1>6, <1>7, <1>8 DEF Next, Requests

LEMMA HassStep ==
  ASSUME [Next]_vars
  PROVE  UNCHANGED hass \/ (UNCHANGED proxy /\ \E e \in Entities, gone \in BOOLEAN : Changes(e, gone))
<1>1. CASE WsNext /\ UNCHANGED proxy
  BY <1>1 DEF WsNext, ServeStarts, Opened, AuthFails, Subscribed, RecvDies, RecvEvent, RecvAck, Subscribes
<1>2. CASE Retried \/ Wire \/ Notified \/ OnStateChange \/ RecvStates \/ UNCHANGED vars
  BY <1>2 DEF Retried, AttemptFails, Wire, Notified, OnStateChange, RecvStates, vars, wsvars
<1>3. CASE Requests
  BY <1>3 DEF Requests, Bootstrap, Announced, Poll, Resume, RetryWakes, wsvars
<1>4. CASE Dropped \/ RetryGone \/ SyncGone
  BY <1>4 DEF Dropped, RetryGone, SyncGone
<1>5. CASE \E k \in Syncs : SyncStep(k) \/ Answers(k)
  BY <1>5 DEF SyncStep, Begin, Commit, Fails, Unwinds, Answers, wsvars
<1>. QED BY <1>1, <1>2, <1>3, <1>4, <1>5 DEF Next, Requests

\* The connection's state and its generation change together.
LEMMA ConnStep ==
  ASSUME [Next]_vars
  PROVE  \/ UNCHANGED <<conn, gen, seq>>
         \/ seq' = seq /\ gen' = None /\ conn' \in {"DISCONNECTED", "CONNECTING"}
         \/ Subscribed /\ UNCHANGED proxy
<1>1. CASE WsNext /\ UNCHANGED proxy
  BY <1>1 DEF WsNext, ServeStarts, Opened, AuthFails, RecvDies, RecvEvent, RecvAck, Subscribes, Changes, Lose
<1>2. CASE Retried \/ Wire \/ Notified \/ OnStateChange \/ RecvStates \/ UNCHANGED vars
  BY <1>2 DEF Retried, AttemptFails, Lose, Wire, Notified, OnStateChange, RecvStates, vars, wsvars
<1>3. CASE Requests
  BY <1>3 DEF Requests, Bootstrap, Announced, Poll, Resume, RetryWakes, wsvars
<1>4. CASE Dropped \/ RetryGone \/ SyncGone
  BY <1>4 DEF Dropped, RetryGone, SyncGone, Lose
<1>5. CASE \E k \in Syncs : SyncStep(k) \/ Answers(k)
  BY <1>5 DEF SyncStep, Begin, Commit, Fails, Unwinds, Answers, wsvars
<1>. QED BY <1>1, <1>2, <1>3, <1>4, <1>5 DEF Next, Requests

\* What is published of the cache changes with a commit or a downgrade.
LEMMA CacheStep ==
  ASSUME [Next]_vars
  PROVE  \/ UNCHANGED <<fresh, kept, cap>>
         \/ fresh' = Downgraded /\ UNCHANGED <<kept, cap>>
         \/ \E k \in Syncs : Commit(k) /\ MayCommit(k) /\ fresh' = "FRESH" /\ kept' = task[k].gen
<1>1. CASE (WsNext /\ UNCHANGED proxy) \/ Retried \/ Wire \/ Notified \/ OnStateChange \/ RecvStates \/ UNCHANGED vars
  BY <1>1 DEF proxy, cache, Retried, Wire, Notified, OnStateChange, RecvStates, vars
<1>2. CASE Requests
  BY <1>2 DEF Requests, Bootstrap, Announced, Poll, Resume, RetryWakes, cache
<1>3. CASE Dropped \/ RetryGone \/ SyncGone
  BY <1>3 DEF Dropped, RetryGone, SyncGone, Detach, Stale, cache
<1>4. CASE \E k \in Syncs : Commit(k)
  BY <1>4 DEF Commit, cache
<1>5. CASE \E k \in Syncs : Begin(k) \/ Fails(k) \/ Unwinds(k) \/ Answers(k)
  BY <1>5 DEF Begin, Fails, Unwinds, Answers, cache
<1>. QED BY <1>1, <1>2, <1>3, <1>4, <1>5 DEF Next, Requests, SyncStep

LEMMA SortsStep ==
  ASSUME ProxyInv, Sorts, Generations, [Next]_vars PROVE Sorts' /\ Generations'
<1>1. SpeaksOf(sync, Reached) /\ CallersSpeakOf(caller, Reached) /\ TasksSpeakOf(task, Reached) /\ gen \in Reached
  BY DEF Sorts, Generations, SpeaksOf, CallersSpeakOf, TasksSpeakOf, Statuses, Waits
<1>2. SpeaksOf(sync', Reached) /\ CallersSpeakOf(caller', Reached) /\ TasksSpeakOf(task', Reached)
  BY <1>1, SpeaksStep
<1>3. /\ seq' <= env'.gens /\ env' = env /\ Reached \subseteq Reached' /\ gen' \in Reached'
      /\ conn' \in {"DISCONNECTED", "CONNECTING", "CONNECTED"} /\ (gen' = None) = (conn' # "CONNECTED")
  <2>1. env' = env
    BY HassStep DEF hass, Changes
  <2>2. seq \in Nat /\ env.gens \in Nat /\ seq <= env.gens
    BY DEF ProxyInv, Connection, Sorts, Environment
  <2>3. CASE UNCHANGED <<conn, gen, seq>>
    BY <1>1, <2>1, <2>3 DEF Sorts, Reached
  <2>4. CASE seq' = seq /\ gen' = None /\ conn' \in {"DISCONNECTED", "CONNECTING"}
    BY <2>1, <2>2, <2>4 DEF Reached
  <2>5. CASE Subscribed
    <3>1. seq' = seq + 1 /\ gen' = seq + 1 /\ conn' = "CONNECTED" /\ seq < env.gens
      BY <2>5 DEF Subscribed
    <3>2. gen' # None
      BY <2>2, <3>1, WebsocketAssumption
    <3>. QED BY <2>1, <2>2, <3>1, <3>2 DEF Reached
  <2>. QED BY <2>3, <2>4, <2>5, ConnStep
<1>4. clock' \in 0 .. env'.changes /\ env' \in Environment
  <2>1. CASE UNCHANGED hass
    BY <2>1 DEF hass, Sorts
  <2>2. CASE \E e \in Entities, gone \in BOOLEAN : Changes(e, gone)
    BY <2>2 DEF Changes, Sorts, Environment
  <2>. QED BY <2>1, <2>2, HassStep
<1>5. fresh' \in {"UNAVAILABLE", "FRESH", "STALE"} /\ kept' \in Reached
  BY <1>1, CacheStep DEF Sorts, Generations, Downgraded, TasksSpeakOf
<1>6. Sorts'
  BY <1>2, <1>3, <1>4, <1>5 DEF Sorts, SpeaksOf, Statuses, CallersSpeakOf, Waits, TasksSpeakOf, Ats
<1>7. Generations'
  BY <1>2, <1>3, <1>5 DEF Generations, SpeaksOf, CallersSpeakOf, TasksSpeakOf
<1>. QED BY <1>6, <1>7

----------------------------------------------------------------------------
(* Steps that publish nothing *)

\* A task that starts, or ends without an answer under way.
Idle(k) ==
    /\ ~Begun(task'[k]) /\ task'[k].cancelled = FALSE
    /\ sync'.active # k
    /\ task[k].at # "answered" \/ wire = <<>>

\* Nothing is sent, received or published.
Quiet ==
    /\ UNCHANGED <<env, gen, clock, ha, states, kept, recv, acked, subscribed, wire, bus>>
    /\ pc = "unwinding" => pc' = "unwinding"
    /\ pc' \in {"cancelling", "unwinding"} => pc \in {"cancelling", "unwinding"}
    /\ wired => wired'
    /\ \/ sync'.active = None /\ sync'.journal \in {sync.journal, <<>>}
       \/ sync'.active = sync.active /\ sync'.journal = sync.journal
    /\ \A k \in Syncs : task'[k] = task[k] \/ Idle(k)

LEMMA FrameTask ==
  ASSUME Data, NEW i \in 1 .. Len(wire), wire[i].kind = "states"
  PROVE  wire[i].task \in Syncs /\ wire[i].states \in Snapshot
BY DEF Data, Frame

LEMMA QuietData ==
  ASSUME Data, Quiet PROVE Data'
<1>1. UNCHANGED <<ha, states, wire, bus>> /\ sync'.journal \in Seq(Entry)
  <2>1. sync.journal \in Seq(Entry) /\ <<>> \in Seq(Entry)
    BY DEF Data
  <2>. QED BY <2>1 DEF Quiet
<1>2. \A k \in Syncs : /\ Begun(task'[k]) => task'[k].base \in Snapshot
                       /\ task'[k].at = "done" => task'[k].got \in Snapshot
  BY DEF Quiet, Data, Idle, Begun
<1>. QED BY <1>1, <1>2 DEF Data, Begun

LEMMA QuietExchange ==
  ASSUME Data, Exchange, Quiet PROVE Exchange'
<1>1. UNCHANGED <<recv, gen, acked, subscribed, wire, kept>>
  BY DEF Quiet
<1>2. sync'.active # None => wired' /\ sync'.active \in Syncs /\ Begun(task'[sync'.active])
  BY DEF Quiet, Exchange, Frames, Idle
<1>3. \A k \in Syncs : task'[k].cancelled => pc' = "unwinding"
  BY DEF Quiet, Exchange, Frames, Idle
<1>4. pc' \in {"cancelling", "unwinding"} => recv' = "dead"
  BY DEF Quiet, Exchange, Frames
<1>5. \A i \in 1 .. Len(wire) : wire[i].kind = "states" => task'[wire[i].task].at = "answered"
  <2>. SUFFICES ASSUME NEW i \in 1 .. Len(wire), wire[i].kind = "states"
                PROVE  task'[wire[i].task].at = "answered"
    OBVIOUS
  <2>1. wire[i].task \in Syncs /\ task[wire[i].task].at = "answered" /\ wire # <<>>
    BY FrameTask DEF Exchange, Frames
  <2>. QED BY <2>1 DEF Quiet, Idle
<1>6. kept' # None => wired'
  BY DEF Quiet, Exchange, Frames
<1>. QED BY <1>1, <1>2, <1>3, <1>4, <1>5, <1>6 DEF Exchange, Frames, Begun

LEMMA QuietOlder ==
  ASSUME Older, Quiet PROVE Older'
<1>1. UNCHANGED <<clock, ha, states, wire, bus>> /\ sync'.journal \in {sync.journal, <<>>}
  BY DEF Quiet
<1>2. \A k \in Syncs : /\ Begun(task'[k]) => task'[k] = task[k]
                       /\ task'[k].at = "done" => task'[k] = task[k]
  BY DEF Quiet, Idle, Begun
<1>3. \A k \in Syncs : Begun(task'[k]) => \A e \in Entities : Past(task'[k].base[e], e)
  BY <1>2 DEF Older, PastOnWire
<1>4. \A k \in Syncs : task'[k].at = "done" => \A e \in Entities : Past(task'[k].got[e], e)
  BY <1>2 DEF Older, PastOnWire
<1>5. \A i \in 1 .. Len(sync'.journal) : Past(sync'.journal[i].state, sync'.journal[i].entity)
  BY <1>1 DEF Older, PastOnWire
<1>. QED BY <1>1, <1>3, <1>4, <1>5 DEF Older, PastOnWire, Past, Begun

LEMMA QuietSent ==
  ASSUME Sent, Quiet PROVE Sent'
<1>1. UNCHANGED <<recv, subscribed, bus, wire, gen, ha>>
  BY DEF Quiet
<1>. QED BY <1>1 DEF Sent, EventsTell, EventOf, OnWire

LEMMA QuietAnswered ==
  ASSUME Data, Exchange, Answered, Quiet PROVE Answered'
<1>1. UNCHANGED <<gen, wire, ha>>
  BY DEF Quiet
<1>2. ASSUME NEW i \in 1 .. Len(wire), wire[i].kind = "states"
      PROVE  task'[wire[i].task] = task[wire[i].task]
  <2>1. wire[i].task \in Syncs /\ task[wire[i].task].at = "answered" /\ wire # <<>>
    BY <1>2, FrameTask DEF Exchange, Frames
  <2>. QED BY <2>1 DEF Quiet, Idle
<1>3. ASSUME NEW i \in 1 .. Len(wire), wire[i].kind = "states", Live(wire[i].task)', NEW e \in Entities
      PROVE  /\ (\A j \in i + 1 .. Len(wire) : ~EventOf(wire[j], e)) => wire[i].states[e] = ha[e]
             /\ task'[wire[i].task].base[e] # None /\ task'[wire[i].task].base[e] = ha[e]
                   => wire[i].states[e] = ha[e]
  BY <1>1, <1>2, <1>3 DEF Answered, AnswersTell, Live
<1>4. ASSUME NEW k \in Syncs, task'[k].at = "done", Live(k)', NEW e \in Entities,
             task'[k].base[e] # None, task'[k].base[e] = ha[e]
      PROVE  task'[k].got[e] = ha[e]
  <2>1. task'[k] = task[k]
    BY <1>4 DEF Quiet, Idle, Begun
  <2>. QED BY <1>1, <1>4, <2>1 DEF Answered, AnswersTell, Live
<1>. QED BY <1>1, <1>3, <1>4 DEF Answered, AnswersTell, EventOf, Live

LEMMA QuietJournal ==
  ASSUME Exchange, Journal, Quiet PROVE Journal'
<1>. SUFFICES ASSUME sync'.active # None, Live(sync.active)', sync'.active = sync.active PROVE Journal'
  BY DEF Quiet, Journal, Live
<1>1. UNCHANGED <<gen, wire, bus, ha, states>> /\ sync'.journal = sync.journal
  BY DEF Quiet
<1>2. task'[sync.active] = task[sync.active]
  BY DEF Quiet, Exchange, Frames, Idle
<1>3. \A e : (InJournal(e)' <=> InJournal(e)) /\ (Pending(e)' <=> Pending(e))
  BY <1>1 DEF InJournal, Pending, OnWire, OnBus, EventOf
<1>4. Live(sync.active)
  BY <1>1, <1>2 DEF Live
<1>. QED BY <1>1, <1>2, <1>3, <1>4 DEF Journal

LEMMA QuietMaintained ==
  ASSUME Maintained, Quiet PROVE Maintained'
<1>1. UNCHANGED <<gen, kept, wire, bus, ha, states>>
  BY DEF Quiet
<1>. QED BY <1>1 DEF Maintained, Pending, OnWire, OnBus, EventOf

LEMMA QuietFlow ==
  ASSUME Flow, Quiet PROVE Flow'
<1>1. env' = env
  BY DEF Quiet
<1>. QED BY <1>1, QuietData, QuietExchange, QuietOlder, QuietSent, QuietAnswered, QuietJournal, QuietMaintained
         DEF Flow

LEMMA RequestsQuiet ==
  ASSUME ProxyInv, Sorts, Generations, Exchange, Requests PROVE Quiet
<1>1. gen \in Reached /\ SpeaksOf(sync, Reached) /\ CallersSpeakOf(caller, Reached)
  BY DEF Sorts, Generations, SpeaksOf, CallersSpeakOf, Statuses, Waits
<1>2. Requested(sync)
  BY <1>1, RequestsOutcome
<1>3. \A k \in Syncs : task'[k] = task[k] \/ Idle(k)
  <2>. SUFFICES ASSUME NEW k \in Syncs, task[k].at = "free", task'[k].at = "spawned", task'[k].cancelled = FALSE
                PROVE  Idle(k)
    BY <1>2 DEF Requested
  <2>1. sync'.active # k
    BY <1>2, StateProxyAssumption DEF Requested, Exchange, Frames, Begun
  <2>. QED BY <2>1 DEF Idle, Begun
<1>4. /\ UNCHANGED <<env, gen, clock, ha, states, kept, recv, acked, subscribed, wire, bus, wired>>
      /\ UNCHANGED pc \/ (pc = "announcing" /\ pc' = "notifying")
  BY DEF Requests, Bootstrap, Announced, Poll, Resume, RetryWakes, wsvars, link, hass, cache
<1>. QED BY <1>2, <1>3, <1>4 DEF Quiet, Requested

\* A task that ends and publishes nothing.
LEMMA EndsQuiet ==
  ASSUME ProxyInv, Exchange, NEW k \in Syncs, (Commit(k) /\ ~MayCommit(k)) \/ Fails(k) \/ Unwinds(k)
  PROVE  Quiet
<1>1. task' = [task EXCEPT ![k] = NoTask]
  BY DEF Commit, Fails, Unwinds
<1>2. task'[k] = NoTask /\ \A i \in Syncs \ {k} : task'[i] = task[i]
  BY <1>1 DEF ProxyInv, Coordinated, AreTasks
<1>3. IsSync(Finished(k, sync)) /\ IsSync(sync)
  BY FinishedIsSync DEF ProxyInv, Coordinated
<1>4. /\ Finished(k, sync).active = IF sync.active = k THEN None ELSE sync.active
      /\ Finished(k, sync).journal = IF sync.active = k THEN <<>> ELSE sync.journal
  BY <1>3 DEF IsSync, Finished
<1>5. sync'.active = Finished(k, sync).active /\ sync'.journal = Finished(k, sync).journal
  <2>1. CASE sync' = Finished(k, sync)
    BY <2>1
  <2>2. CASE RetryScheduled(task[k].gen, Finished(k, sync), Awoken(k, caller))
    <3>. DEFINE s == Finished(k, sync)
    <3>1. sync' = s \/ \E c : sync' = [s EXCEPT !.retry = c, !.retryGen = task[k].gen]
      BY <2>2 DEF RetryScheduled
    <3>. HIDE DEF s
    <3>. QED BY <1>3, <3>1 DEF IsSync, s
  <2>. QED BY <2>1, <2>2 DEF Commit, Fails, Unwinds
<1>6. task[k].at # "answered" \/ wire = <<>>
  BY DEF Commit, Fails, Unwinds, Exchange, Frames
<1>7. Idle(k)
  BY <1>2, <1>4, <1>5, <1>6, StateProxyAssumption DEF Idle, Begun, NoTask
<1>8. UNCHANGED <<env, gen, clock, ha, states, kept, recv, acked, subscribed, wire, bus, wired, pc>>
  BY DEF Commit, Fails, Unwinds, wsvars, link, hass, cache
<1>. QED BY <1>2, <1>4, <1>5, <1>7, <1>8 DEF Quiet

LEMMA OtherQuiet ==
  ASSUME ProxyInv, Exchange,
         \/ (ServeStarts \/ AuthFails) /\ UNCHANGED proxy
         \/ Wire \/ Notified \/ UNCHANGED vars
  PROVE  Quiet
<1>1. UNCHANGED <<sync, task>>
  BY DEF proxy, Wire, Notified, vars
<1>2. UNCHANGED <<env, gen, clock, ha, states, kept, recv, acked, subscribed, wire, bus>>
  <2>1. CASE (ServeStarts \/ AuthFails) /\ UNCHANGED proxy
    BY <2>1 DEF ServeStarts, AuthFails, Lose, proxy, link, hass, cache, ProxyInv, Connection, Phases
  <2>2. CASE Wire \/ Notified \/ UNCHANGED vars
    BY <2>2 DEF Wire, Notified, vars, wsvars, link, hass, cache
  <2>. QED BY <2>1, <2>2
<1>3. UNCHANGED pc \/ (pc' \in {"connecting", "refused", "serving"} /\ pc # "unwinding")
  BY DEF ServeStarts, AuthFails, Wire, Notified, vars, wsvars
<1>4. wired => wired'
  BY DEF proxy, Wire, Notified, vars
<1>. QED BY <1>1, <1>2, <1>3, <1>4 DEF Quiet

----------------------------------------------------------------------------
(* Steps that lose the connection, or wait for it *)

\* Without a generation only the basics matter, and what is sent.
LEMMA WithoutGeneration ==
  ASSUME gen' = None PROVE Answered' /\ Journal' /\ Maintained'
BY DEF Answered, AnswersTell, Journal, Maintained, Live

\* A task that is broken or cancelled keeps its data.
Ending(k) ==
    /\ Begun(task'[k]) <=> Begun(task[k])
    /\ task'[k].at = "done" <=> task[k].at = "done"
    /\ task'[k].base = task[k].base /\ task'[k].got = task[k].got

LEMMA BrokenEnding ==
  ASSUME AreTasks(task), task' = Broken(task)
  PROVE  \A k \in Syncs : Ending(k) /\ task'[k].cancelled = task[k].cancelled
<1>. SUFFICES ASSUME NEW k \in Syncs PROVE Ending(k) /\ task'[k].cancelled = task[k].cancelled
  OBVIOUS
<1>. DEFINE r == [task[k] EXCEPT !.at = "broken"]
<1>1. r.at = "broken" /\ r.base = task[k].base /\ r.got = task[k].got /\ r.cancelled = task[k].cancelled
  BY DEF AreTasks, IsTask
<1>. HIDE DEF r
<1>2. task'[k] = task[k] \/ (task[k].at \in {"fetching", "answered"} /\ task'[k] = r)
  BY DEF Broken, r
<1>. QED BY <1>1, <1>2 DEF Ending, Begun

\* The connection is gone, and its frames with it.
Lost ==
    /\ UNCHANGED <<env, clock, ha, states, kept, bus, wired>>
    /\ gen' = None /\ recv' # "running" /\ wire' = <<>> /\ ~subscribed'
    /\ pc' \in {"cancelling", "unwinding"} => recv' = "dead"
    /\ sync'.active \in {None, sync.active} /\ sync'.journal \in {<<>>, sync.journal}
    /\ \A k \in Syncs : Ending(k) /\ (task'[k].cancelled => pc' = "unwinding")

LEMMA LostFlow ==
  ASSUME Flow, Lost PROVE Flow'
<1>1. Data'
  <2>1. sync'.journal \in Seq(Entry) /\ wire' \in Seq(Frame)
    <3>1. sync.journal \in Seq(Entry) /\ <<>> \in Seq(Entry) /\ <<>> \in Seq(Frame)
      BY DEF Flow, Data
    <3>. QED BY <3>1 DEF Lost
  <2>. QED BY <2>1 DEF Flow, Data, Lost, Ending, Begun
<1>2. Exchange'
  <2>1. Len(wire') = 0
    BY DEF Lost
  <2>2. sync'.active # None => wired' /\ sync'.active \in Syncs /\ Begun(task'[sync'.active])
    BY DEF Flow, Exchange, Frames, Lost, Ending
  <2>. QED BY <2>1, <2>2 DEF Flow, Exchange, Frames, Lost, Begun
<1>3. Older'
  <2>1. Len(wire') = 0 /\ UNCHANGED <<clock, ha, states, bus>>
    BY DEF Lost
  <2>2. \A k \in Syncs : Begun(task'[k]) => \A e \in Entities : Past(task'[k].base[e], e)
    BY DEF Flow, Older, PastOnWire, Lost, Ending
  <2>3. \A k \in Syncs : task'[k].at = "done" => \A e \in Entities : Past(task'[k].got[e], e)
    BY DEF Flow, Older, PastOnWire, Lost, Ending
  <2>4. \A i \in 1 .. Len(sync'.journal) : Past(sync'.journal[i].state, sync'.journal[i].entity)
    BY DEF Flow, Older, PastOnWire, Lost
  <2>5. (\A e \in Entities : Past(ha[e], e) /\ Past(states[e], e)) /\ \A i \in 1 .. Len(bus) : Past(bus[i].state, bus[i].entity)
    BY DEF Flow, Older, PastOnWire
  <2>. QED BY <2>1, <2>2, <2>3, <2>4, <2>5 DEF Older, PastOnWire, Past, Begun
<1>4. Sent' /\ Answered' /\ Journal' /\ Maintained'
  BY WithoutGeneration DEF Lost, Sent, EventsTell
<1>. QED BY <1>1, <1>2, <1>3, <1>4 DEF Flow

LEMMA SameEnding ==
  ASSUME UNCHANGED task PROVE \A k \in Syncs : Ending(k)
BY DEF Ending, Begun

LEMMA RecvDiesLost ==
  ASSUME ProxyInv, Exchange, RecvDies, UNCHANGED proxy PROVE Lost
<1>1. UNCHANGED <<env, clock, ha, states, kept, bus, wired, sync, task, pc>>
  BY DEF RecvDies, hass, proxy, cache
<1>2. gen' = None /\ recv' = "dead" /\ wire' = <<>> /\ ~subscribed'
  BY DEF RecvDies, Lose
<1>3. \A k \in Syncs : Ending(k) /\ (task'[k].cancelled => pc' = "unwinding")
  BY <1>1, SameEnding DEF Exchange, Frames
<1>. QED BY <1>1, <1>2, <1>3 DEF Lost

LEMMA RetriedLost ==
  ASSUME ProxyInv, Exchange, Retried PROVE Lost
<1>1. UNCHANGED <<env, clock, ha, states, kept, bus, wired, sync>> /\ task' = Broken(task)
  BY DEF Retried, AttemptFails, hass, cache
<1>2. pc \in {"connecting", "subscribing"} /\ pc' \in {"connecting", "stopped"} /\ recv' = "none" /\ wire' = <<>> /\ ~subscribed'
  BY DEF Retried, AttemptFails, Cleanup
<1>3. gen' = None
  BY DEF Retried, AttemptFails, Lose, ProxyInv, Connection, Phases
<1>4. \A k \in Syncs : Ending(k) /\ task'[k].cancelled = task[k].cancelled
  BY <1>1, BrokenEnding DEF ProxyInv, Coordinated
<1>. QED BY <1>1, <1>2, <1>3, <1>4 DEF Lost, Exchange, Frames

LEMMA StaleLost ==
  ASSUME ProxyInv, Exchange, NEW to, Stale(to), to \in {"connecting", "stopped"}, gen' = None,
         UNCHANGED <<env, clock, ha, bus, wired>>, \A k \in Syncs : ~task[k].cancelled,
         sync'.active \in {None, sync.active}, sync'.journal \in {<<>>, sync.journal}
  PROVE  Lost
<1>1. UNCHANGED <<states, kept>> /\ task' = Broken(task) /\ pc' = to /\ recv' = "none" /\ wire' = <<>> /\ ~subscribed'
  BY DEF Stale, Cleanup
<1>2. \A k \in Syncs : Ending(k) /\ task'[k].cancelled = task[k].cancelled
  BY <1>1, BrokenEnding DEF ProxyInv, Coordinated
<1>. QED BY <1>1, <1>2 DEF Lost

LEMMA DetachLost ==
  ASSUME ProxyInv, Exchange, NEW to, Detach(to), to \in {"connecting", "stopped"}, gen' = None,
         recv = "dead", pc # "unwinding", UNCHANGED <<env, clock, ha, bus, wired>>
  PROVE  Lost
<1>1. sync'.active = None /\ sync'.journal = <<>>
  BY DEF Detach, Gone, ProxyInv, Coordinated, IsSync
<1>2. \A k \in Syncs : ~task[k].cancelled
  BY DEF Exchange, Frames
<1>3. CASE Stale(to)
  BY <1>1, <1>2, <1>3, StaleLost
<1>4. CASE /\ sync.cur # None /\ pc' = "unwinding" /\ UNCHANGED <<link, signal, cache>>
           /\ task' = [task EXCEPT ![sync.cur].cancelled = TRUE]
  <2>. DEFINE r == [task[sync.cur] EXCEPT !.cancelled = TRUE]
  <2>1. sync.cur \in Syncs
    BY <1>4 DEF ProxyInv, Coordinated, Tracks
  <2>2. /\ r.at = task[sync.cur].at /\ r.base = task[sync.cur].base /\ r.got = task[sync.cur].got
        /\ task'[sync.cur] = r
        /\ \A i \in Syncs \ {sync.cur} : task'[i] = task[i]
    BY <1>4, <2>1 DEF ProxyInv, Coordinated, AreTasks, IsTask
  <2>. HIDE DEF r
  <2>3. \A k \in Syncs : Ending(k) /\ (task'[k].cancelled => pc' = "unwinding")
    BY <1>4, <2>2 DEF Ending, Begun
  <2>4. UNCHANGED <<states, kept, recv, wire, subscribed>> /\ wire = <<>> /\ ~subscribed
    BY <1>4 DEF link, cache, Exchange, Frames
  <2>. QED BY <1>1, <1>4, <2>3, <2>4 DEF Lost
<1>. QED BY <1>3, <1>4 DEF Detach


LEMMA DroppedLost ==
  ASSUME ProxyInv, Exchange, Dropped PROVE Lost
<1>1. PICK to \in {"connecting", "stopped"} : leaving' = to
  BY DEF Dropped
<1>2. UNCHANGED <<env, clock, ha, bus, wired>> /\ gen' = None /\ recv = "dead" /\ pc = "serving"
  BY DEF Dropped, Lose, hass
<1>3. wire = <<>> /\ ~subscribed /\ \A k \in Syncs : ~task[k].cancelled
  BY <1>2 DEF Exchange, Frames
<1>4. CASE /\ pc' = leaving' /\ signal' = FALSE /\ Cleanup
           /\ UNCHANGED <<sync, task, caller, cache>>
  <2>1. \A k \in Syncs : Ending(k) /\ ~task'[k].cancelled
    BY <1>3, <1>4, SameEnding
  <2>2. recv' = "none" /\ wire' = <<>> /\ ~subscribed' /\ UNCHANGED <<states, kept>>
    BY <1>4 DEF Cleanup, cache
  <2>. QED BY <1>1, <1>2, <1>4, <2>1, <2>2 DEF Lost
<1>5. CASE /\ pc' = "cancelling"
           /\ sync' = RetryCancelled(sync)
           /\ caller' = WithoutRetry(sync)
           /\ UNCHANGED <<link, signal, task, cache>>
  <2>1. \A k \in Syncs : Ending(k) /\ ~task'[k].cancelled
    BY <1>3, <1>5, SameEnding
  <2>2. UNCHANGED <<states, kept, recv, wire, subscribed>>
    BY <1>5 DEF link, cache
  <2>3. sync'.active = sync.active /\ sync'.journal = sync.journal
    BY <1>5 DEF RetryCancelled, ProxyInv, Coordinated, IsSync
  <2>. QED BY <1>2, <1>3, <1>5, <2>1, <2>2, <2>3 DEF Lost
<1>6. CASE Detach(leaving')
  <2>1. Detach(to)
    BY <1>1, <1>6
  <2>. QED BY <1>2, <2>1, DetachLost
<1>. QED BY <1>4, <1>5, <1>6 DEF Dropped

LEMMA RetryGoneLost ==
  ASSUME ProxyInv, Exchange, RetryGone PROVE Lost
<1>1. UNCHANGED <<env, gen, clock, ha, bus, wired>> /\ pc = "cancelling" /\ Detach(leaving)
  BY DEF RetryGone, hass
<1>2. gen = None /\ recv = "dead" /\ leaving \in {"connecting", "stopped"}
  BY <1>1 DEF ProxyInv, Connection, Phases, Exchange, Frames
<1>3. PICK to \in {"connecting", "stopped"} : leaving = to
  BY <1>2
<1>4. Detach(to)
  BY <1>1, <1>3
<1>. QED BY <1>1, <1>2, <1>4, DetachLost

LEMMA SyncGoneLost ==
  ASSUME ProxyInv, Exchange, SyncGone PROVE Lost
<1>1. /\ UNCHANGED <<env, gen, clock, ha, bus, wired, sync>> /\ pc = "unwinding" /\ Stale(leaving)
      /\ \A k \in Syncs : ~task[k].cancelled
  BY DEF SyncGone, hass
<1>2. gen = None /\ leaving \in {"connecting", "stopped"}
  BY <1>1 DEF ProxyInv, Connection, Phases
<1>3. PICK to \in {"connecting", "stopped"} : leaving = to
  BY <1>2
<1>4. Stale(to)
  BY <1>1, <1>3
<1>. QED BY <1>1, <1>2, <1>4, StaleLost

LEMMA LosesFlow ==
  ASSUME ProxyInv, Flow, (RecvDies /\ UNCHANGED proxy) \/ Retried \/ Dropped \/ RetryGone \/ SyncGone
  PROVE  Flow'
BY RecvDiesLost, RetriedLost, DroppedLost, RetryGoneLost, SyncGoneLost, LostFlow DEF Flow

----------------------------------------------------------------------------
(* The connection *)

\* A new connection starts with nothing under way.
LEMMA OpenedFlow ==
  ASSUME ProxyInv, Flow, Opened, UNCHANGED proxy PROVE Flow'
<1>1. /\ UNCHANGED <<env, gen, clock, ha, states, kept, bus, wired, sync, task>>
      /\ recv' = "running" /\ acked' = FALSE /\ subscribed' = FALSE /\ wire' = <<>>
      /\ pc' = "subscribing" /\ pc = "connecting" /\ (env.backlog \/ bus = <<>>)
  BY DEF Opened, hass, proxy, cache
<1>2. gen' = None /\ Len(wire') = 0 /\ <<>> \in Seq(Frame)
  BY <1>1 DEF ProxyInv, Connection, Phases
<1>3. Data'
  BY <1>1, <1>2 DEF Flow, Data, Begun
<1>4. Exchange'
  BY <1>1, <1>2 DEF Flow, Exchange, Frames, Begun
<1>5. Older'
  BY <1>1, <1>2 DEF Flow, Older, PastOnWire, Past, Begun
<1>6. ~env.backlog => Sent'
  <2>. SUFFICES ASSUME bus = <<>> PROVE Sent'
    BY <1>1
  <2>1. bus' = <<>> /\ Len(bus') = 0
    BY <1>1
  <2>. QED BY <1>1, <1>2, <2>1 DEF Sent, EventsTell
<1>. QED BY <1>1, <1>2, <1>3, <1>4, <1>5, <1>6, WithoutGeneration DEF Flow

\* The new generation is nobody's yet.
LEMMA SubscribedFlow ==
  ASSUME ProxyInv, Generations, Flow, Subscribed, UNCHANGED proxy PROVE Flow'
<1>1. /\ UNCHANGED <<env, clock, ha, states, kept, bus, wired, sync, task, recv, acked, subscribed, wire>>
      /\ gen' = seq + 1 /\ pc' = "announcing" /\ pc = "subscribing" /\ acked
  BY DEF Subscribed, hass, link, proxy, cache
<1>2. gen = None /\ gen' \notin Reached /\ seq \in Nat
  BY <1>1, WebsocketAssumption DEF ProxyInv, Connection, Phases, Reached
<1>3. Data'
  BY <1>1 DEF Flow, Data, Begun
<1>4. Exchange'
  BY <1>1 DEF Flow, Exchange, Frames, Begun
<1>5. Older'
  BY <1>1 DEF Flow, Older, PastOnWire, Past, Begun
<1>6. Sent => Sent'
  BY <1>1, <1>2 DEF Sent, EventsTell, OnWire, EventOf
<1>7. kept' # gen' /\ \A k \in Syncs : ~Live(k)'
  BY <1>1, <1>2 DEF Live, Generations
<1>8. Answered' /\ Maintained'
  <2>1. \A i \in 1 .. Len(wire) : wire[i].kind = "states" => wire[i].task \in Syncs
    BY FrameTask DEF Flow
  <2>. QED BY <1>1, <1>7, <2>1 DEF Answered, AnswersTell, Maintained, Live
<1>9. Journal'
  BY <1>1, <1>7 DEF Journal, Flow, Exchange, Frames, Live
<1>. QED BY <1>1, <1>3, <1>4, <1>5, <1>6, <1>8, <1>9 DEF Flow


----------------------------------------------------------------------------
(* Frames received *)

LEMMA Shift ==
  ASSUME wire \in Seq(Frame), wire # <<>>, wire' = Tail(wire)
  PROVE  /\ wire' \in Seq(Frame) /\ 1 \in 1 .. Len(wire) /\ Head(wire) = wire[1]
         /\ \A i \in 1 .. Len(wire') : i + 1 \in 1 .. Len(wire) /\ i + 1 # 1 /\ wire'[i] = wire[i + 1]
         /\ \A e : \A i \in 1 .. Len(wire) :
               i # 1 /\ (\A j \in (i - 1) + 1 .. Len(wire') : ~EventOf(wire'[j], e))
                  => \A j \in i + 1 .. Len(wire) : ~EventOf(wire[j], e)
         /\ \A e : OnWire(e) <=> OnWire(e)' \/ EventOf(wire[1], e)
<1>1. /\ wire' \in Seq(Frame) /\ Len(wire) \in Nat \ {0} /\ Len(wire') = Len(wire) - 1 /\ Head(wire) = wire[1]
      /\ \A i \in 1 .. Len(wire') : wire'[i] = wire[i + 1]
  BY TailFacts
<1>2. \A i \in 1 .. Len(wire') : i + 1 \in 1 .. Len(wire) /\ i + 1 # 1
  BY <1>1
<1>3. \A j \in 1 .. Len(wire) : j # 1 => j - 1 \in 1 .. Len(wire') /\ wire'[j - 1] = wire[j]
  BY <1>1
<1>4. ASSUME NEW i \in 1 .. Len(wire), NEW e, i # 1, \A j \in (i - 1) + 1 .. Len(wire') : ~EventOf(wire'[j], e),
             NEW j \in i + 1 .. Len(wire)
      PROVE  ~EventOf(wire[j], e)
  <2>1. j - 1 \in (i - 1) + 1 .. Len(wire') /\ wire'[j - 1] = wire[j]
    BY <1>1, <1>3
  <2>. QED BY <1>4, <2>1
<1>5. ASSUME NEW e PROVE OnWire(e) <=> OnWire(e)' \/ EventOf(wire[1], e)
  <2>1. OnWire(e)' <=> \E i \in 1 .. Len(wire') : EventOf(wire'[i], e)
    BY DEF OnWire, EventOf
  <2>2. 1 \in 1 .. Len(wire)
    BY <1>1
  <2>3. ASSUME NEW i \in 1 .. Len(wire'), EventOf(wire'[i], e) PROVE OnWire(e)
    <3>1. i + 1 \in 1 .. Len(wire) /\ wire'[i] = wire[i + 1]
      BY <1>1, <1>2
    <3>. QED BY <2>3, <3>1 DEF OnWire
  <2>4. ASSUME NEW i \in 1 .. Len(wire), EventOf(wire[i], e), i # 1 PROVE OnWire(e)'
    BY <1>3, <2>1, <2>4
  <2>5. OnWire(e)' => OnWire(e)
    BY <2>1, <2>3
  <2>6. EventOf(wire[1], e) => OnWire(e)
    BY <2>2 DEF OnWire
  <2>7. OnWire(e) => OnWire(e)' \/ EventOf(wire[1], e)
    BY <2>4 DEF OnWire
  <2>. QED BY <2>5, <2>6, <2>7
<1>6. \A e : \A i \in 1 .. Len(wire) :
        i # 1 /\ (\A j \in (i - 1) + 1 .. Len(wire') : ~EventOf(wire'[j], e))
           => \A j \in i + 1 .. Len(wire) : ~EventOf(wire[j], e)
  BY <1>4
<1>7. 1 \in 1 .. Len(wire)
  BY <1>1
<1>8. \A e : OnWire(e) <=> OnWire(e)' \/ EventOf(wire[1], e)
  BY <1>5
<1>. QED BY <1>1, <1>2, <1>6, <1>7, <1>8

\* What holds of the frames holds of those that are left.
LEMMA Shifted ==
  ASSUME Flow, wire # <<>>, wire' = Tail(wire), UNCHANGED <<gen, clock, ha, subscribed>>,
         \A i \in 1 .. Len(wire) : i # 1 /\ wire[i].kind = "states" => task'[wire[i].task] = task[wire[i].task]
  PROVE  Frames' /\ PastOnWire' /\ (EventsTell => EventsTell') /\ (AnswersTell => AnswersTell')
<1>1. /\ wire' \in Seq(Frame) /\ 1 \in 1 .. Len(wire)
      /\ \A i \in 1 .. Len(wire') : i + 1 \in 1 .. Len(wire) /\ i + 1 # 1 /\ wire'[i] = wire[i + 1]
      /\ \A e : \A i \in 1 .. Len(wire) :
            i # 1 /\ (\A j \in (i - 1) + 1 .. Len(wire') : ~EventOf(wire'[j], e))
               => \A j \in i + 1 .. Len(wire) : ~EventOf(wire[j], e)
  BY Shift DEF Flow, Data
<1>2. Frames'
  <2>1. \A i \in 1 .. Len(wire') : wire'[i].kind = "ack" => subscribed'
    BY <1>1 DEF Flow, Exchange, Frames
  <2>2. \A i \in 1 .. Len(wire') : wire'[i].kind = "states" => task'[wire'[i].task].at = "answered"
    BY <1>1 DEF Flow, Exchange, Frames
  <2>3. \A i, j \in 1 .. Len(wire') :
           wire'[i].kind = "states" /\ wire'[j].kind = "states" /\ wire'[i].task = wire'[j].task => i = j
    <3>. SUFFICES ASSUME NEW i \in 1 .. Len(wire'), NEW j \in 1 .. Len(wire'),
                         wire'[i].kind = "states", wire'[j].kind = "states", wire'[i].task = wire'[j].task
                  PROVE  i = j
      OBVIOUS
    <3>1. i + 1 = j + 1
      BY <1>1 DEF Flow, Exchange, Frames
    <3>. QED BY <3>1
  <2>. QED BY <2>1, <2>2, <2>3 DEF Frames
<1>3. PastOnWire'
  BY <1>1 DEF Flow, Older, PastOnWire, Past
<1>4. ASSUME EventsTell, NEW e \in Entities, NEW i \in 1 .. Len(wire'), EventOf(wire'[i], e),
             \A j \in i + 1 .. Len(wire') : ~EventOf(wire'[j], e)
      PROVE  wire'[i].state = ha[e]
  <2>1. i + 1 \in 1 .. Len(wire) /\ i + 1 # 1 /\ wire'[i] = wire[i + 1] /\ (i + 1) - 1 = i
    BY <1>1
  <2>2. \A j \in (i + 1) + 1 .. Len(wire) : ~EventOf(wire[j], e)
    BY <1>1, <1>4, <2>1
  <2>. QED BY <1>4, <2>1, <2>2 DEF EventsTell
<1>5. ASSUME AnswersTell, NEW e \in Entities, NEW i \in 1 .. Len(wire'), wire'[i].kind = "states",
             gen # None, task'[wire'[i].task].gen = gen
      PROVE  /\ (\A j \in i + 1 .. Len(wire') : ~EventOf(wire'[j], e)) => wire'[i].states[e] = ha[e]
             /\ task'[wire'[i].task].base[e] # None /\ task'[wire'[i].task].base[e] = ha[e]
                   => wire'[i].states[e] = ha[e]
  <2>1. i + 1 \in 1 .. Len(wire) /\ i + 1 # 1 /\ wire'[i] = wire[i + 1] /\ (i + 1) - 1 = i
    BY <1>1
  <2>2. task'[wire'[i].task] = task[wire[i + 1].task] /\ wire[i + 1].kind = "states" /\ Live(wire[i + 1].task)
    BY <1>5, <2>1 DEF Live
  <2>3. (\A j \in i + 1 .. Len(wire') : ~EventOf(wire'[j], e)) => \A j \in (i + 1) + 1 .. Len(wire) : ~EventOf(wire[j], e)
    BY <1>1, <2>1
  <2>. QED BY <1>5, <2>1, <2>2, <2>3 DEF AnswersTell
<1>6. EventsTell => EventsTell'
  BY <1>4 DEF EventsTell, EventOf
<1>7. AnswersTell => AnswersTell'
  BY <1>5 DEF AnswersTell, EventOf, Live
<1>. QED BY <1>2, <1>3, <1>6, <1>7

LEMMA RecvAckFlow ==
  ASSUME Flow, RecvAck, UNCHANGED proxy PROVE Flow'
<1>1. /\ UNCHANGED <<env, gen, clock, ha, pc, recv, subscribed, states, kept, bus, wired, sync, task>>
      /\ wire # <<>> /\ wire' = Tail(wire) /\ Head(wire).kind = "ack" /\ recv = "running"
  BY DEF RecvAck, hass, proxy, cache
<1>2. /\ wire' \in Seq(Frame) /\ 1 \in 1 .. Len(wire) /\ wire[1].kind = "ack"
      /\ \A e : OnWire(e) <=> OnWire(e)' \/ EventOf(wire[1], e)
      /\ \A i \in 1 .. Len(wire') : i + 1 \in 1 .. Len(wire) /\ wire'[i] = wire[i + 1]
  BY <1>1, Shift DEF Flow, Data
<1>3. Frames' /\ PastOnWire' /\ (EventsTell => EventsTell') /\ (AnswersTell => AnswersTell')
  BY <1>1, Shifted
<1>4. \A e : (OnWire(e)' <=> OnWire(e)) /\ (Pending(e)' <=> Pending(e)) /\ (InJournal(e)' <=> InJournal(e))
  BY <1>1, <1>2 DEF EventOf, Pending, OnBus, InJournal
<1>5. Data'
  BY <1>1, <1>2 DEF Flow, Data, Begun
<1>6. subscribed
  BY <1>2 DEF Flow, Exchange, Frames
<1>7. Exchange'
  BY <1>1, <1>3, <1>6 DEF Flow, Exchange, Begun
<1>8. Older'
  BY <1>1, <1>3 DEF Flow, Older, Past, Begun
<1>9. Sent => Sent'
  BY <1>1, <1>3, <1>4, <1>6 DEF Sent
<1>10. Answered => Answered'
  BY <1>1, <1>3 DEF Answered, Live
<1>11. Journal => Journal'
  BY <1>1, <1>4 DEF Journal, Live
<1>12. Maintained => Maintained'
  BY <1>1, <1>4 DEF Maintained
<1>. QED BY <1>1, <1>5, <1>7, <1>8, <1>9, <1>10, <1>11, <1>12 DEF Flow


\* The event is stamped, and is the last on the bus.
LEMMA RecvEventFlow ==
  ASSUME ProxyInv, Flow, RecvEvent, UNCHANGED proxy PROVE Flow'
<1>. DEFINE x == wire[1]
            y == [entity |-> x.entity, state |-> x.state, gen |-> gen]
<1>1. /\ UNCHANGED <<env, gen, clock, ha, pc, recv, acked, subscribed, states, kept, wired, sync, task>>
      /\ wire # <<>> /\ wire' = Tail(wire) /\ Head(wire).kind = "event" /\ recv = "running"
      /\ bus' = Append(bus, [entity |-> Head(wire).entity, state |-> Head(wire).state, gen |-> gen])
  BY DEF RecvEvent, hass, proxy, cache
<1>2. /\ wire' \in Seq(Frame) /\ 1 \in 1 .. Len(wire) /\ Head(wire) = x
      /\ \A e : OnWire(e) <=> OnWire(e)' \/ EventOf(wire[1], e)
  BY <1>1, Shift DEF Flow, Data
<1>3. Frames' /\ PastOnWire' /\ (EventsTell => EventsTell') /\ (AnswersTell => AnswersTell')
  BY <1>1, Shifted
<1>4. x.kind = "event" /\ x.entity \in Entities /\ x.state \in Value
  <2>1. x \in Frame
    BY <1>2 DEF Flow, Data
  <2>. QED BY <1>1, <1>2, <2>1 DEF Frame
<1>5. y \in Event /\ bus \in Seq(Event)
  BY <1>4 DEF ProxyInv, Connection, Event, Flow, Data
<1>6. bus' = Append(bus, y) /\ y.entity = x.entity /\ y.state = x.state /\ y.gen = gen
  BY <1>1, <1>2
<1>. HIDE DEF y
<1>7. /\ bus' \in Seq(Event) /\ Len(bus) \in Nat /\ Len(bus') = Len(bus) + 1 /\ bus'[Len(bus) + 1] = y
      /\ \A i \in 1 .. Len(bus) : bus'[i] = bus[i]
  BY <1>5, <1>6, AppendFacts
<1>8. \A i \in 1 .. Len(bus') : i \in 1 .. Len(bus) \/ i = Len(bus) + 1
  BY <1>7
<1>9. \A e : OnBus(e)' <=> OnBus(e) \/ x.entity = e
  <2>1. \A i \in 1 .. Len(bus) : i \in 1 .. Len(bus')
    BY <1>7
  <2>2. Len(bus) + 1 \in 1 .. Len(bus')
    BY <1>7
  <2>. QED BY <1>6, <1>7, <1>8, <2>1, <2>2 DEF OnBus
<1>10. \A e : (Pending(e)' <=> Pending(e)) /\ (InJournal(e)' <=> InJournal(e))
  BY <1>1, <1>2, <1>4, <1>9 DEF EventOf, Pending, InJournal
<1>11. Data'
  BY <1>1, <1>2, <1>7 DEF Flow, Data, Begun
<1>12. Exchange'
  BY <1>1, <1>3 DEF Flow, Exchange, Begun
<1>13. Older'
  <2>1. Past(x.state, x.entity)
    BY <1>2, <1>4 DEF Flow, Older, PastOnWire
  <2>2. \A i \in 1 .. Len(bus') : Past(bus'[i].state, bus'[i].entity)
    BY <1>6, <1>7, <1>8, <2>1 DEF Flow, Older
  <2>. QED BY <1>1, <1>3, <2>2 DEF Flow, Older, Past, Begun
<1>14. Sent => Sent'
  <2>. SUFFICES ASSUME Sent PROVE Sent'
    OBVIOUS
  <2>1. subscribed
    BY <1>1, <1>2, <1>4 DEF Sent
  <2>2. \A i \in 1 .. Len(bus') : bus'[i].gen \in {None, gen}
    BY <1>1, <1>6, <1>7, <1>8 DEF Sent
  <2>3. ASSUME NEW e \in Entities, NEW i \in 1 .. Len(bus'), bus'[i].entity = e,
               \A j \in i + 1 .. Len(bus') : bus'[j].entity # e, ~OnWire(e)'
        PROVE  bus'[i].state = ha[e]
    <3>1. CASE i = Len(bus) + 1
      <4>1. x.entity = e /\ bus'[i].state = x.state
        BY <1>6, <1>7, <2>3, <3>1
      <4>2. \A j \in 1 + 1 .. Len(wire) : ~EventOf(wire[j], e)
        <5>1. ASSUME NEW j \in 1 + 1 .. Len(wire) PROVE j - 1 \in 1 .. Len(wire') /\ wire'[j - 1] = wire[j]
          <6>1. Len(wire') = Len(wire) - 1 /\ Len(wire) \in Nat /\ \A n \in 1 .. Len(wire') : wire'[n] = wire[n + 1]
            BY <1>1, TailFacts DEF Flow, Data
          <6>. QED BY <6>1
        <5>. QED BY <2>3, <5>1 DEF OnWire, EventOf
      <4>3. EventOf(wire[1], e)
        BY <1>4, <4>1 DEF EventOf
      <4>. QED BY <1>1, <1>2, <4>1, <4>2, <4>3 DEF Sent, EventsTell
    <3>2. CASE i \in 1 .. Len(bus)
      <4>1. Len(bus) + 1 \in i + 1 .. Len(bus') /\ \A j \in i + 1 .. Len(bus) : j \in i + 1 .. Len(bus') /\ j \in 1 .. Len(bus)
        BY <1>7, <3>2
      <4>2. x.entity # e
        BY <1>6, <1>7, <2>3, <4>1
      <4>3. ~OnWire(e)
        BY <1>2, <2>3, <4>2 DEF EventOf
      <4>4. bus[i].entity = e /\ \A j \in i + 1 .. Len(bus) : bus[j].entity # e
        BY <1>7, <2>3, <3>2, <4>1
      <4>. QED BY <1>1, <1>7, <3>2, <4>3, <4>4 DEF Sent
    <3>. QED BY <1>8, <3>1, <3>2
  <2>. QED BY <1>1, <1>3, <2>1, <2>2, <2>3 DEF Sent, OnWire, EventOf
<1>15. Answered => Answered'
  BY <1>1, <1>3 DEF Answered, Live
<1>16. Journal => Journal'
  BY <1>1, <1>10 DEF Journal, Live
<1>17. Maintained => Maintained'
  BY <1>1, <1>10 DEF Maintained
<1>. QED BY <1>1, <1>11, <1>12, <1>13, <1>14, <1>15, <1>16, <1>17 DEF Flow

\* The answer is received by the task that asked for it.
LEMMA RecvStatesFlow ==
  ASSUME ProxyInv, Flow, RecvStates PROVE Flow'
<1>. DEFINE k == wire[1].task
            r == [task[k] EXCEPT !.at = "done", !.got = wire[1].states]
<1>1. /\ UNCHANGED <<env, gen, clock, ha, pc, recv, acked, subscribed, states, kept, bus, wired, sync>>
      /\ wire # <<>> /\ wire' = Tail(wire) /\ Head(wire).kind = "states" /\ recv = "running"
  BY DEF RecvStates, hass, cache
<1>2. /\ wire' \in Seq(Frame) /\ 1 \in 1 .. Len(wire) /\ Head(wire) = wire[1]
      /\ \A e : OnWire(e) <=> OnWire(e)' \/ EventOf(wire[1], e)
      /\ \A i \in 1 .. Len(wire') : i + 1 \in 1 .. Len(wire) /\ wire'[i] = wire[i + 1]
  BY <1>1, Shift DEF Flow, Data
<1>3. wire[1].kind = "states" /\ k \in Syncs /\ task[k].at = "answered" /\ wire[1].states \in Snapshot
  BY <1>1, <1>2, FrameTask DEF Flow, Exchange, Frames
<1>4. task' = [task EXCEPT ![k] = r]
  BY <1>2, <1>3 DEF RecvStates
<1>5. /\ r.at = "done" /\ r.got = wire[1].states /\ r.base = task[k].base /\ r.gen = task[k].gen
      /\ r.cancelled = task[k].cancelled
  BY <1>3 DEF ProxyInv, Coordinated, AreTasks, IsTask
<1>. HIDE DEF r
<1>6. task'[k] = r /\ \A j \in Syncs \ {k} : task'[j] = task[j]
  BY <1>3, <1>4 DEF ProxyInv, Coordinated, AreTasks
<1>. HIDE DEF k
<1>7. \A i \in 1 .. Len(wire) : i # 1 /\ wire[i].kind = "states" => task'[wire[i].task] = task[wire[i].task]
  BY <1>2, <1>3, <1>6, FrameTask DEF Flow, Exchange, Frames, k
<1>8. Frames' /\ PastOnWire' /\ (EventsTell => EventsTell') /\ (AnswersTell => AnswersTell')
  BY <1>1, <1>7, Shifted
<1>9. \A e : (OnWire(e)' <=> OnWire(e)) /\ (Pending(e)' <=> Pending(e)) /\ (InJournal(e)' <=> InJournal(e))
  BY <1>1, <1>2, <1>3 DEF EventOf, Pending, OnBus, InJournal
<1>10. \A j \in Syncs : (Begun(task'[j]) <=> Begun(task[j])) /\ task'[j].base = task[j].base /\ (Live(j)' <=> Live(j))
  BY <1>1, <1>3, <1>5, <1>6 DEF Begun, Live
<1>11. Data'
  BY <1>1, <1>2, <1>3, <1>5, <1>6 DEF Flow, Data, Begun
<1>12. Exchange'
  BY <1>1, <1>3, <1>5, <1>6, <1>8, <1>10 DEF Flow, Exchange, Begun
<1>13. Older'
  <2>1. \A j \in Syncs : task'[j].at = "done" => \A e \in Entities : Past(task'[j].got[e], e)
    BY <1>2, <1>3, <1>5, <1>6 DEF Flow, Older, PastOnWire
  <2>2. \A j \in Syncs : Begun(task'[j]) => \A e \in Entities : Past(task'[j].base[e], e)
    BY <1>10 DEF Flow, Older
  <2>. QED BY <1>1, <1>8, <2>1, <2>2 DEF Flow, Older, Past, Begun
<1>14. Sent => Sent'
  <2>1. \A i \in 1 .. Len(wire') : i + 1 \in 1 .. Len(wire) /\ wire'[i] = wire[i + 1]
    BY <1>2
  <2>. QED BY <1>1, <1>8, <1>9, <2>1 DEF Sent
<1>15. Answered => Answered'
  <2>. SUFFICES ASSUME Answered PROVE Answered'
    OBVIOUS
  <2>1. ASSUME NEW j \in Syncs, task'[j].at = "done", Live(j)', NEW e \in Entities,
               task'[j].base[e] # None, task'[j].base[e] = ha[e]
        PROVE  task'[j].got[e] = ha[e]
    <3>1. CASE j = k
      BY <1>2, <1>3, <1>5, <1>6, <1>10, <2>1, <3>1 DEF Answered, AnswersTell, k
    <3>2. CASE j # k
      BY <1>6, <1>10, <2>1, <3>2 DEF Answered
    <3>. QED BY <3>1, <3>2
  <2>. QED BY <1>1, <1>8, <2>1 DEF Answered, Live
<1>16. Answered /\ Journal => Journal'
  <2>. SUFFICES ASSUME Answered, Journal, sync.active # None, Live(sync.active)' PROVE Journal'
    BY <1>1 DEF Journal, Live
  <2>1. sync.active \in Syncs /\ Live(sync.active)
    BY <1>1, <1>10 DEF Flow, Exchange
  <2>2. ASSUME NEW e \in Entities, task'[sync.active].at = "done", ~InJournal(e), ~Pending(e)
        PROVE  task'[sync.active].got[e] = ha[e]
    <3>1. CASE sync.active = k
      <4>1. \A j \in 1 + 1 .. Len(wire) : ~EventOf(wire[j], e)
        <5>1. \A j \in 1 + 1 .. Len(wire) : j \in 1 .. Len(wire)
          OBVIOUS
        <5>. QED BY <2>2, <5>1 DEF Pending, OnWire
      <4>2. wire[1].states[e] = ha[e]
        BY <1>2, <1>3, <2>1, <3>1, <4>1 DEF Answered, AnswersTell, k
      <4>. QED BY <1>5, <1>6, <3>1, <4>2
    <3>2. CASE sync.active # k
      BY <1>6, <2>1, <2>2, <3>2 DEF Journal
    <3>. QED BY <3>1, <3>2
  <2>. QED BY <1>1, <1>9, <1>10, <2>1, <2>2 DEF Journal
<1>17. Maintained => Maintained'
  BY <1>1, <1>9 DEF Maintained
<1>. QED BY <1>1, <1>11, <1>12, <1>13, <1>14, <1>15, <1>16, <1>17 DEF Flow


----------------------------------------------------------------------------
(* Frames sent *)

LEMMA Grow ==
  ASSUME NEW m \in Frame, wire \in Seq(Frame), wire' = Append(wire, m)
  PROVE  /\ wire' \in Seq(Frame) /\ Len(wire) \in Nat /\ Len(wire') = Len(wire) + 1
         /\ wire'[Len(wire')] = m /\ Len(wire') \in 1 .. Len(wire') /\ Len(wire') \notin 1 .. Len(wire)
         /\ \A i \in 1 .. Len(wire') : i \in 1 .. Len(wire) \/ i = Len(wire')
         /\ \A i \in 1 .. Len(wire) : i \in 1 .. Len(wire') /\ wire'[i] = wire[i] /\ Len(wire') \in i + 1 .. Len(wire')
         /\ \A e : OnWire(e)' <=> OnWire(e) \/ EventOf(m, e)
         /\ \A i \in 1 .. Len(wire) : \A j \in i + 1 .. Len(wire) : j \in i + 1 .. Len(wire') /\ wire'[j] = wire[j]
<1>1. /\ wire' \in Seq(Frame) /\ Len(wire) \in Nat /\ Len(wire') = Len(wire) + 1
      /\ wire'[Len(wire) + 1] = m
      /\ \A i \in 1 .. Len(wire) : wire'[i] = wire[i]
  BY AppendFacts
<1>2. /\ Len(wire') \in 1 .. Len(wire') /\ Len(wire') \notin 1 .. Len(wire)
      /\ \A i \in 1 .. Len(wire') : i \in 1 .. Len(wire) \/ i = Len(wire')
      /\ \A i \in 1 .. Len(wire) : i \in 1 .. Len(wire') /\ Len(wire') \in i + 1 .. Len(wire')
      /\ \A i \in 1 .. Len(wire) : \A j \in i + 1 .. Len(wire) : j \in i + 1 .. Len(wire') /\ j \in 1 .. Len(wire)
  BY <1>1
<1>3. \A e : OnWire(e)' <=> OnWire(e) \/ EventOf(m, e)
  <2>. TAKE e
  <2>1. OnWire(e)' <=> \E i \in 1 .. Len(wire') : EventOf(wire'[i], e)
    BY DEF OnWire, EventOf
  <2>. QED BY <1>1, <1>2, <2>1 DEF OnWire
<1>. QED BY <1>1, <1>2, <1>3

LEMMA SubscribesFlow ==
  ASSUME ProxyInv, Flow, Subscribes, UNCHANGED proxy PROVE Flow'
<1>. DEFINE m == [kind |-> "ack"]
<1>1. /\ UNCHANGED <<env, gen, clock, ha, pc, recv, acked, states, kept, bus, wired, sync, task>>
      /\ pc = "subscribing" /\ recv = "running" /\ ~subscribed /\ subscribed' /\ wire' = Append(wire, m)
  BY DEF Subscribes, hass, proxy, cache
<1>2. m \in Frame /\ m.kind = "ack"
  BY DEF Frame
<1>3. gen' = None
  BY <1>1 DEF ProxyInv, Connection, Phases
<1>. HIDE DEF m
<1>4. /\ wire' \in Seq(Frame) /\ wire'[Len(wire')] = m
      /\ \A i \in 1 .. Len(wire') : i \in 1 .. Len(wire) \/ i = Len(wire')
      /\ \A i \in 1 .. Len(wire) : wire'[i] = wire[i]
  BY <1>1, <1>2, Grow DEF Flow, Data
<1>5. Frames'
  <2>1. \A i \in 1 .. Len(wire') : wire'[i].kind = "states" => i \in 1 .. Len(wire) /\ wire'[i] = wire[i]
    BY <1>2, <1>4
  <2>. QED BY <1>1, <2>1 DEF Flow, Exchange, Frames
<1>6. PastOnWire'
  <2>1. \A i \in 1 .. Len(wire') : wire'[i].kind \in {"states", "event"} => i \in 1 .. Len(wire) /\ wire'[i] = wire[i]
    BY <1>2, <1>4
  <2>. QED BY <1>1, <2>1 DEF Flow, Older, PastOnWire, Past
<1>7. Data'
  BY <1>1, <1>4 DEF Flow, Data, Begun
<1>8. Exchange'
  BY <1>1, <1>5 DEF Flow, Exchange, Begun
<1>9. Older'
  BY <1>1, <1>6 DEF Flow, Older, Past, Begun
<1>10. Sent => Sent'
  <2>. SUFFICES ASSUME Sent PROVE Sent'
    OBVIOUS
  <2>1. bus' = <<>> /\ Len(bus') = 0 /\ \A i \in 1 .. Len(wire') : wire'[i].kind # "event"
    BY <1>1, <1>2, <1>4 DEF Sent
  <2>2. EventsTell'
    BY <2>1 DEF EventsTell, EventOf
  <2>. QED BY <1>1, <2>1, <2>2 DEF Sent
<1>. QED BY <1>1, <1>3, <1>7, <1>8, <1>9, <1>10, WithoutGeneration DEF Flow

\* The answer holds Home Assistant's states, behind what was sent before.
LEMMA AnswersFlow ==
  ASSUME ProxyInv, Flow, NEW k \in Syncs, Answers(k) PROVE Flow'
<1>. DEFINE m == [kind |-> "states", task |-> k, states |-> ha]
            r == [task[k] EXCEPT !.at = "answered"]
<1>1. /\ UNCHANGED <<env, gen, clock, ha, pc, recv, acked, subscribed, states, kept, bus, wired, sync>>
      /\ task[k].at = "fetching" /\ recv = "running" /\ wire' = Append(wire, m) /\ task' = [task EXCEPT ![k] = r]
  BY DEF Answers, hass, cache
<1>2. m \in Frame /\ m.kind = "states" /\ m.task = k /\ m.states = ha
  BY DEF Frame, Flow, Data
<1>3. r.at = "answered" /\ r.got = task[k].got /\ r.base = task[k].base /\ r.gen = task[k].gen
      /\ r.cancelled = task[k].cancelled
  BY DEF ProxyInv, Coordinated, AreTasks, IsTask
<1>. HIDE DEF m, r
<1>4. /\ wire' \in Seq(Frame) /\ wire'[Len(wire')] = m
      /\ \A i \in 1 .. Len(wire') : i \in 1 .. Len(wire) \/ i = Len(wire')
      /\ \A i \in 1 .. Len(wire) : wire'[i] = wire[i] /\ Len(wire') \in i + 1 .. Len(wire')
      /\ \A e : OnWire(e)' <=> OnWire(e) \/ EventOf(m, e)
      /\ \A i \in 1 .. Len(wire) : \A j \in i + 1 .. Len(wire) : j \in i + 1 .. Len(wire') /\ wire'[j] = wire[j]
  BY <1>1, <1>2, Grow DEF Flow, Data
<1>5. task'[k] = r /\ \A j \in Syncs \ {k} : task'[j] = task[j]
  BY <1>1 DEF ProxyInv, Coordinated, AreTasks
<1>6. \A i \in 1 .. Len(wire) : wire[i].kind = "states" => wire[i].task \in Syncs \ {k}
  BY <1>1, FrameTask DEF Flow, Exchange, Frames
<1>7. \A j \in Syncs : /\ Begun(task'[j]) <=> Begun(task[j])
                       /\ task'[j].at = "done" <=> task[j].at = "done"
                       /\ task'[j].base = task[j].base /\ task'[j].got = task[j].got
                       /\ task'[j].gen = task[j].gen /\ task'[j].cancelled = task[j].cancelled
  BY <1>1, <1>3, <1>5 DEF Begun
<1>8. Frames'
  BY <1>1, <1>2, <1>3, <1>4, <1>5, <1>6 DEF Flow, Exchange, Frames
<1>9. PastOnWire'
  BY <1>1, <1>2, <1>4 DEF Flow, Older, PastOnWire, Past
<1>10. EventsTell => EventsTell'
  BY <1>1, <1>2, <1>4 DEF EventsTell, EventOf
<1>11. AnswersTell => AnswersTell'
  <2>1. ASSUME AnswersTell, NEW i \in 1 .. Len(wire'), wire'[i].kind = "states",
               gen # None, task'[wire'[i].task].gen = gen, NEW e \in Entities
        PROVE  /\ (\A j \in i + 1 .. Len(wire') : ~EventOf(wire'[j], e)) => wire'[i].states[e] = ha[e]
               /\ task'[wire'[i].task].base[e] # None /\ task'[wire'[i].task].base[e] = ha[e]
                     => wire'[i].states[e] = ha[e]
    <3>1. CASE i = Len(wire')
      BY <1>2, <1>4, <3>1
    <3>2. CASE i \in 1 .. Len(wire)
      <4>1. wire'[i] = wire[i] /\ task'[wire[i].task] = task[wire[i].task] /\ Live(wire[i].task) /\ wire[i].kind = "states"
        BY <1>1, <1>4, <1>5, <1>6, <2>1, <3>2 DEF Live
      <4>2. (\A j \in i + 1 .. Len(wire') : ~EventOf(wire'[j], e)) => \A j \in i + 1 .. Len(wire) : ~EventOf(wire[j], e)
        BY <1>4, <3>2
      <4>. QED BY <2>1, <3>2, <4>1, <4>2 DEF AnswersTell
    <3>. QED BY <1>4, <3>1, <3>2
  <2>. QED BY <1>1, <2>1 DEF AnswersTell, EventOf, Live
<1>12. \A e : (OnWire(e)' <=> OnWire(e)) /\ (Pending(e)' <=> Pending(e)) /\ (InJournal(e)' <=> InJournal(e))
  BY <1>1, <1>2, <1>4 DEF EventOf, Pending, OnBus, InJournal
<1>13. Data'
  BY <1>1, <1>4, <1>7 DEF Flow, Data, Begun
<1>14. Exchange'
  BY <1>1, <1>7, <1>8 DEF Flow, Exchange, Begun
<1>15. Older'
  BY <1>1, <1>7, <1>9 DEF Flow, Older, Past, Begun
<1>16. Sent => Sent'
  BY <1>1, <1>2, <1>4, <1>10, <1>12 DEF Sent
<1>17. Answered => Answered'
  BY <1>1, <1>7, <1>11 DEF Answered, Live
<1>18. Journal => Journal'
  <2>1. sync.active # None => sync.active \in Syncs
    BY DEF Flow, Exchange
  <2>. QED BY <1>1, <1>7, <1>12, <2>1 DEF Journal, Live
<1>19. Maintained => Maintained'
  BY <1>1, <1>12 DEF Maintained
<1>. QED BY <1>1, <1>13, <1>14, <1>15, <1>16, <1>17, <1>18, <1>19 DEF Flow


----------------------------------------------------------------------------
(* Home Assistant's changes *)

\* The new version is newer than every other.
LEMMA StillPast ==
  ASSUME clock \in Nat, clock' = clock + 1, NEW e \in Entities, ha'[e] \in {ha[e], None, clock + 1},
         NEW v \in Value, Past(v, e)
  PROVE  v # None => v <= clock' /\ (ha'[e] # None => v <= ha'[e])
BY DEF Past, Value

LEMMA ChangesOlder ==
  ASSUME Data, Older, clock \in Nat, clock' = clock + 1,
         NEW x \in Entities, NEW w \in {None, clock + 1}, ha' = [ha EXCEPT ![x] = w],
         UNCHANGED <<states, bus, sync, task>>,
         \A i \in 1 .. Len(wire') : \/ i \in 1 .. Len(wire) /\ wire'[i] = wire[i]
                                    \/ wire'[i].kind = "event" /\ wire'[i].entity = x /\ wire'[i].state = w
  PROVE  Older'
<1>. DEFINE Then(v, e) == v # None => v <= clock' /\ (ha'[e] # None => v <= ha'[e])
<1>1. \A e \in Entities : ha'[e] = IF e = x THEN w ELSE ha[e]
  BY DEF Data, Snapshot
<1>2. ASSUME NEW e \in Entities, NEW v \in Value, Past(v, e) PROVE Then(v, e)
  BY <1>1, <1>2, StillPast DEF Past
<1>3. \A f \in Snapshot : (\A e \in Entities : Past(f[e], e)) => \A e \in Entities : Then(f[e], e)
  BY <1>2 DEF Snapshot
<1>4. Then(w, x)
  BY <1>1 DEF Past
<1>5. \A e \in Entities : Then(ha[e], e) /\ Then(states[e], e)
  <2>1. ASSUME NEW e \in Entities PROVE Then(ha'[e], e)
    <3>1. CASE e = x
      BY <1>1, <3>1 DEF Past
    <3>2. CASE e # x
      BY <1>1, <1>2, <3>2 DEF Data, Snapshot, Older, Past
    <3>. QED BY <3>1, <3>2
  <2>. QED BY <1>3, <2>1 DEF Data, Older, Past
<1>6. \A k \in Syncs : Begun(task[k]) => \A e \in Entities : Then(task[k].base[e], e)
  BY <1>3 DEF Data, Older
<1>7. \A k \in Syncs : task[k].at = "done" => \A e \in Entities : Then(task[k].got[e], e)
  BY <1>3 DEF Data, Older
<1>8. \A i \in 1 .. Len(sync.journal) : Then(sync.journal[i].state, sync.journal[i].entity)
  <2>1. \A i \in 1 .. Len(sync.journal) : sync.journal[i] \in Entry
    BY DEF Data
  <2>. QED BY <1>2, <2>1 DEF Older, Entry
<1>9. PastOnWire'
  <2>1. \A i \in 1 .. Len(wire) : wire[i].kind = "event" => wire[i].entity \in Entities /\ wire[i].state \in Value
    <3>. SUFFICES ASSUME NEW i \in 1 .. Len(wire), wire[i].kind = "event"
                  PROVE  wire[i].entity \in Entities /\ wire[i].state \in Value
      OBVIOUS
    <3>1. wire[i] \in Frame
      BY DEF Data
    <3>. QED BY <3>1 DEF Frame
  <2>2. \A i \in 1 .. Len(wire') : wire'[i].kind = "event" => Then(wire'[i].state, wire'[i].entity)
    BY <1>2, <1>4, <2>1 DEF Older, PastOnWire
  <2>3. \A i \in 1 .. Len(wire') : wire'[i].kind = "states" => \A e \in Entities : Then(wire'[i].states[e], e)
    BY <1>3, FrameTask DEF Older, PastOnWire
  <2>. QED BY <2>2, <2>3 DEF PastOnWire, Past
<1>10. \A i \in 1 .. Len(bus) : Then(bus[i].state, bus[i].entity)
  <2>1. \A i \in 1 .. Len(bus) : bus[i] \in Event
    BY DEF Data
  <2>. QED BY <1>2, <2>1 DEF Older, Event
<1>. QED BY <1>5, <1>6, <1>7, <1>8, <1>9, <1>10 DEF Older, Past, Begun

\* Home Assistant changes an entity: the event is the last on its way.
LEMMA ChangesFlow ==
  ASSUME ProxyInv, Sorts, Flow, NEW x \in Entities, NEW gone \in BOOLEAN, Changes(x, gone), UNCHANGED proxy
  PROVE  Flow'
<1>1. PICK w \in {None, clock + 1} :
        /\ w = IF gone THEN None ELSE clock + 1
        /\ ha' = [ha EXCEPT ![x] = w]
  BY DEF Changes
<1>. DEFINE m == [kind |-> "event", entity |-> x, state |-> w]
<1>2. clock \in Nat /\ clock' = clock + 1 /\ w \in Value
  BY <1>1 DEF Changes, Sorts, Environment, Value
<1>3. \A e \in Entities : ha'[e] = IF e = x THEN w ELSE ha[e]
  BY <1>1 DEF Flow, Data, Snapshot
<1>4. /\ UNCHANGED <<env, gen, pc, recv, acked, subscribed, states, kept, bus, wired, sync, task>>
      /\ wire' = IF subscribed THEN Append(wire, m) ELSE wire
  BY <1>1, <1>3 DEF Changes, proxy, cache
<1>5. m \in Frame /\ EventOf(m, x) /\ m.state = w /\ \A e : EventOf(m, e) => e = x
  BY <1>2 DEF Frame, EventOf
<1>. HIDE DEF m
<1>6. /\ wire' \in Seq(Frame)
      /\ \A i \in 1 .. Len(wire') : \/ i \in 1 .. Len(wire) /\ wire'[i] = wire[i]
                                    \/ i = Len(wire') /\ wire'[i] = m /\ subscribed
      /\ \A i \in 1 .. Len(wire) : \A e : (\A j \in i + 1 .. Len(wire') : ~EventOf(wire'[j], e))
            => \A j \in i + 1 .. Len(wire) : ~EventOf(wire[j], e)
      /\ \A e : OnWire(e) => OnWire(e)'
      /\ \A e : e # x => (OnWire(e)' <=> OnWire(e))
      /\ subscribed => OnWire(x)' /\ \A i \in 1 .. Len(wire) : ~\A j \in i + 1 .. Len(wire') : ~EventOf(wire'[j], x)
  <2>1. CASE subscribed
    <3>1. /\ wire' \in Seq(Frame) /\ wire'[Len(wire')] = m
          /\ \A i \in 1 .. Len(wire') : i \in 1 .. Len(wire) \/ i = Len(wire')
          /\ \A i \in 1 .. Len(wire) : wire'[i] = wire[i] /\ Len(wire') \in i + 1 .. Len(wire')
          /\ \A e : OnWire(e)' <=> OnWire(e) \/ EventOf(m, e)
          /\ \A i \in 1 .. Len(wire) : \A j \in i + 1 .. Len(wire) : j \in i + 1 .. Len(wire') /\ wire'[j] = wire[j]
      BY <1>4, <1>5, <2>1, Grow DEF Flow, Data
    <3>. QED BY <1>5, <2>1, <3>1
  <2>2. CASE ~subscribed
    BY <1>4, <2>2 DEF Flow, Data, OnWire, EventOf
  <2>. QED BY <2>1, <2>2
<1>7. Data'
  <2>1. ha' \in Snapshot
    BY <1>1, <1>2 DEF Flow, Data, Snapshot
  <2>. QED BY <1>4, <1>6, <2>1 DEF Flow, Data, Begun
<1>8. Exchange'
  <2>1. \A i \in 1 .. Len(wire') : wire'[i].kind # "event" => i \in 1 .. Len(wire) /\ wire'[i] = wire[i]
    BY <1>5, <1>6 DEF EventOf
  <2>2. Frames'
    BY <1>4, <2>1 DEF Flow, Exchange, Frames
  <2>3. recv # "running" => wire' = wire
    BY <1>4 DEF Flow, Exchange
  <2>. QED BY <1>4, <2>2, <2>3 DEF Flow, Exchange, Begun
<1>9. Older'
  <2>1. \A i \in 1 .. Len(wire') : \/ i \in 1 .. Len(wire) /\ wire'[i] = wire[i]
                                   \/ wire'[i].kind = "event" /\ wire'[i].entity = x /\ wire'[i].state = w
    BY <1>5, <1>6 DEF EventOf
  <2>. QED BY <1>1, <1>2, <1>4, <2>1, ChangesOlder DEF Flow
<1>10. \A e : /\ Pending(e) => Pending(e)'
              /\ e # x => (Pending(e)' <=> Pending(e))
              /\ InJournal(e)' <=> InJournal(e)
  BY <1>4, <1>6 DEF Pending, OnBus, InJournal
<1>11. gen # None => subscribed /\ Pending(x)'
  <2>1. gen # None => subscribed
    BY DEF ProxyInv, Connection, Phases, Flow, Exchange
  <2>. QED BY <1>6, <2>1 DEF Pending
<1>12. Sent => Sent'
  <2>. SUFFICES ASSUME Sent, recv = "running" PROVE Sent'
    BY <1>4 DEF Sent
  <2>1. CASE ~subscribed
    <3>1. wire' = wire /\ bus' = <<>> /\ Len(bus') = 0 /\ \A i \in 1 .. Len(wire) : wire[i].kind # "event"
      BY <1>4, <2>1 DEF Sent
    <3>. QED BY <1>4, <3>1 DEF Sent, EventsTell, EventOf
  <2>2. CASE subscribed
    <3>1. ASSUME NEW e \in Entities, NEW i \in 1 .. Len(wire'), EventOf(wire'[i], e),
                 \A j \in i + 1 .. Len(wire') : ~EventOf(wire'[j], e)
          PROVE  wire'[i].state = ha'[e]
      <4>1. CASE e = x
        <5>1. i \notin 1 .. Len(wire)
          BY <1>6, <2>2, <3>1, <4>1
        <5>. QED BY <1>3, <1>5, <1>6, <4>1, <5>1
      <4>2. CASE e # x
        <5>1. i \in 1 .. Len(wire) /\ wire'[i] = wire[i]
          BY <1>5, <1>6, <3>1, <4>2
        <5>2. \A j \in i + 1 .. Len(wire) : ~EventOf(wire[j], e)
          BY <1>6, <3>1, <5>1
        <5>3. wire[i].state = ha[e]
          BY <3>1, <5>1, <5>2 DEF Sent, EventsTell
        <5>. QED BY <1>3, <4>2, <5>1, <5>3
      <4>. QED BY <4>1, <4>2
    <3>2. EventsTell'
      BY <3>1 DEF EventsTell, EventOf
    <3>3. \A e \in Entities : ~OnWire(e)' => e # x /\ ~OnWire(e)
      BY <1>6, <2>2
    <3>. QED BY <1>3, <1>4, <2>2, <3>2, <3>3 DEF Sent
  <2>. QED BY <2>1, <2>2
<1>13. \A k \in Syncs : Begun(task[k]) => task[k].base[x] = None \/ task[k].base[x] # w
  <2>1. \A v \in Value : Past(v, x) => v = None \/ v # w
    BY <1>2, WebsocketAssumption DEF Past, Value
  <2>. QED BY <2>1 DEF Flow, Data, Older, Snapshot
<1>14. Answered => Answered'
  <2>. SUFFICES ASSUME Answered, gen # None PROVE Answered'
    BY <1>4 DEF Answered, AnswersTell, Live
  <2>1. ASSUME NEW i \in 1 .. Len(wire'), wire'[i].kind = "states", task[wire'[i].task].gen = gen, NEW e \in Entities
        PROVE  /\ (\A j \in i + 1 .. Len(wire') : ~EventOf(wire'[j], e)) => wire'[i].states[e] = ha'[e]
               /\ task[wire'[i].task].base[e] # None /\ task[wire'[i].task].base[e] = ha'[e]
                     => wire'[i].states[e] = ha'[e]
    <3>1. i \in 1 .. Len(wire) /\ wire'[i] = wire[i]
      BY <1>5, <1>6, <2>1 DEF EventOf
    <3>2. wire[i].task \in Syncs /\ task[wire[i].task].at = "answered" /\ Live(wire[i].task)
      BY <2>1, <3>1, FrameTask DEF Flow, Exchange, Frames, Live
    <3>3. CASE e = x
      BY <1>3, <1>6, <1>11, <1>13, <3>1, <3>2, <3>3 DEF Begun
    <3>4. CASE e # x
      <4>1. ha'[e] = ha[e]
        BY <1>3, <3>4
      <4>2. /\ (\A j \in i + 1 .. Len(wire) : ~EventOf(wire[j], e)) => wire[i].states[e] = ha[e]
            /\ task[wire[i].task].base[e] # None /\ task[wire[i].task].base[e] = ha[e]
                  => wire[i].states[e] = ha[e]
        BY <2>1, <3>1, <3>2 DEF Answered, AnswersTell
      <4>3. (\A j \in i + 1 .. Len(wire') : ~EventOf(wire'[j], e))
              => \A j \in i + 1 .. Len(wire) : ~EventOf(wire[j], e)
        BY <1>6, <3>1
      <4>. QED BY <3>1, <4>1, <4>2, <4>3
    <3>. QED BY <3>3, <3>4
  <2>2. AnswersTell'
    BY <1>4, <2>1 DEF AnswersTell, Live, EventOf
  <2>3. ASSUME NEW k \in Syncs, task[k].at = "done", Live(k), NEW e \in Entities,
               task[k].base[e] # None, task[k].base[e] = ha'[e]
        PROVE  task[k].got[e] = ha'[e]
    BY <1>3, <1>13, <2>3 DEF Answered, Begun
  <2>. QED BY <1>4, <2>2, <2>3 DEF Answered, Live
<1>15. Journal => Journal'
  <2>. SUFFICES ASSUME Journal, sync.active # None, Live(sync.active) PROVE Journal'
    BY <1>4 DEF Journal, Live
  <2>1. Pending(x)'
    BY <1>11 DEF Live
  <2>. QED BY <1>3, <1>4, <1>10, <2>1 DEF Journal
<1>16. Maintained => Maintained'
  BY <1>3, <1>4, <1>10, <1>11 DEF Maintained
<1>. QED BY <1>4, <1>7, <1>8, <1>9, <1>12, <1>14, <1>15, <1>16 DEF Flow


----------------------------------------------------------------------------
(* The events applied *)

LEMMA BusShift ==
  ASSUME bus \in Seq(Event), bus # <<>>, bus' = Tail(bus)
  PROVE  /\ bus' \in Seq(Event) /\ 1 \in 1 .. Len(bus) /\ Head(bus) = bus[1]
         /\ \A i \in 1 .. Len(bus') : i + 1 \in 1 .. Len(bus) /\ bus'[i] = bus[i + 1]
         /\ \A i \in 1 .. Len(bus) : i # 1 => \E j \in 1 .. Len(bus') : i = j + 1 /\ bus'[j] = bus[i]
         /\ \A i \in 1 .. Len(bus') : \A j \in (i + 1) + 1 .. Len(bus) :
               \E n \in i + 1 .. Len(bus') : bus'[n] = bus[j]
<1>1. /\ bus' \in Seq(Event) /\ Len(bus) \in Nat \ {0} /\ Len(bus') = Len(bus) - 1 /\ Head(bus) = bus[1]
      /\ \A i \in 1 .. Len(bus') : bus'[i] = bus[i + 1]
  BY TailFacts
<1>2. ASSUME NEW i \in 1 .. Len(bus), i # 1 PROVE \E j \in 1 .. Len(bus') : i = j + 1 /\ bus'[j] = bus[i]
  <2>1. i - 1 \in 1 .. Len(bus') /\ i = (i - 1) + 1
    BY <1>1, <1>2
  <2>. QED BY <1>1, <2>1
<1>3. ASSUME NEW i \in 1 .. Len(bus'), NEW j \in (i + 1) + 1 .. Len(bus)
      PROVE  \E n \in i + 1 .. Len(bus') : bus'[n] = bus[j]
  <2>1. j - 1 \in i + 1 .. Len(bus') /\ j - 1 \in 1 .. Len(bus') /\ j = (j - 1) + 1
    BY <1>1
  <2>. QED BY <1>1, <2>1
<1>4. \A i \in 1 .. Len(bus') : i + 1 \in 1 .. Len(bus)
  BY <1>1
<1>5. 1 \in 1 .. Len(bus)
  BY <1>1
<1>. QED BY <1>1, <1>2, <1>3, <1>4, <1>5

LEMMA BusShifted ==
  ASSUME Flow, bus # <<>>, bus' = Tail(bus), UNCHANGED <<gen, ha, recv, subscribed, wire>>,
         NEW x \in Entities, x = bus[1].entity
  PROVE  /\ \A e : e # x => (Pending(e)' <=> Pending(e))
         /\ Sent => Sent'
         /\ Sent /\ recv = "running" /\ ~Pending(x)' => bus[1].state = ha[x]
<1>1. /\ bus' \in Seq(Event) /\ 1 \in 1 .. Len(bus)
      /\ \A i \in 1 .. Len(bus') : i + 1 \in 1 .. Len(bus) /\ bus'[i] = bus[i + 1]
      /\ \A i \in 1 .. Len(bus) : i # 1 => \E j \in 1 .. Len(bus') : i = j + 1 /\ bus'[j] = bus[i]
  BY BusShift DEF Flow, Data
<1>2. \A e : OnWire(e)' <=> OnWire(e)
  BY DEF OnWire, EventOf
<1>3. \A e : OnBus(e)' => OnBus(e)
  BY <1>1 DEF OnBus
<1>4. \A e : OnBus(e) => OnBus(e)' \/ e = x
  BY <1>1 DEF OnBus
<1>5. ASSUME Sent, recv = "running", NEW e \in Entities, NEW i \in 1 .. Len(bus'), bus'[i].entity = e,
             \A j \in i + 1 .. Len(bus') : bus'[j].entity # e, ~OnWire(e)
      PROVE  bus'[i].state = ha[e]
  <2>1. i + 1 \in 1 .. Len(bus) /\ bus'[i] = bus[i + 1]
    BY <1>1
  <2>2. \A j \in (i + 1) + 1 .. Len(bus) : bus[j].entity # e
    <3>. SUFFICES ASSUME NEW j \in (i + 1) + 1 .. Len(bus) PROVE bus[j].entity # e
      OBVIOUS
    <3>1. bus \in Seq(Event)
      BY DEF Flow, Data
    <3>2. PICK n \in i + 1 .. Len(bus') : bus'[n] = bus[j]
      BY <3>1, BusShift
    <3>. QED BY <1>5, <3>2
  <2>. QED BY <1>5, <2>1, <2>2 DEF Sent
<1>6. Sent => Sent'
  <2>1. Sent /\ recv = "running" => subscribed
    BY DEF Sent
  <2>2. Sent /\ recv = "running" => \A i \in 1 .. Len(bus') : bus'[i].gen \in {None, gen}
    BY <1>1 DEF Sent
  <2>3. EventsTell <=> EventsTell'
    BY DEF EventsTell, EventOf
  <2>4. ASSUME Sent, recv = "running", NEW e \in Entities, NEW i \in 1 .. Len(bus'), bus'[i].entity = e,
               \A j \in i + 1 .. Len(bus') : bus'[j].entity # e, ~OnWire(e)'
        PROVE  bus'[i].state = ha'[e]
    BY <1>2, <1>5, <2>4
  <2>. QED BY <2>1, <2>2, <2>3, <2>4 DEF Sent
<1>7. ASSUME Sent, recv = "running", ~Pending(x)' PROVE bus[1].state = ha[x]
  <2>1. ~OnWire(x) /\ \A j \in 1 .. Len(bus') : bus'[j].entity # x
    BY <1>2, <1>7 DEF Pending, OnBus
  <2>2. \A j \in 1 + 1 .. Len(bus) : j \in 1 .. Len(bus) /\ j # 1
    OBVIOUS
  <2>3. \A j \in 1 + 1 .. Len(bus) : bus[j].entity # x
    <3>. SUFFICES ASSUME NEW j \in 1 + 1 .. Len(bus) PROVE bus[j].entity # x
      OBVIOUS
    <3>1. PICK i \in 1 .. Len(bus') : bus'[i] = bus[j]
      BY <1>1, <2>2
    <3>. QED BY <2>1, <3>1
  <2>. QED BY <1>1, <1>7, <2>1, <2>3 DEF Sent
<1>. QED BY <1>2, <1>3, <1>4, <1>6, <1>7 DEF Pending


\* The event that is applied, or skipped because the cache knows it.
LEMMA OnStateChangeFlow ==
  ASSUME ProxyInv, Flow, OnStateChange PROVE Flow'
<1>1. PICK event \in Event : event = Head(bus)
  <2>1. Head(bus) = bus[1] /\ bus[1] \in Event
    BY TailFacts DEF Flow, Data, OnStateChange
  <2>. QED BY <2>1
<1>. DEFINE x == event.entity
            v == event.state
            o == [entity |-> x, state |-> v]
<1>2. /\ UNCHANGED <<env, gen, clock, ha, pc, recv, acked, subscribed, wire, wired, kept, task>>
      /\ bus # <<>> /\ bus' = Tail(bus)
  BY DEF OnStateChange, link, hass
<1>3. /\ bus' \in Seq(Event) /\ 1 \in 1 .. Len(bus) /\ event = bus[1]
      /\ \A i \in 1 .. Len(bus') : i + 1 \in 1 .. Len(bus) /\ bus'[i] = bus[i + 1]
  BY <1>1, <1>2, BusShift DEF Flow, Data
<1>4. x \in Entities /\ v \in Value /\ event.gen \in Nat \cup {None} /\ Past(v, x)
  BY <1>3 DEF Event, Flow, Older
<1>5. \/ (~wired \/ Obsolete(event) \/ Outdated(event)) /\ UNCHANGED <<states, sync>>
      \/ /\ wired /\ ~Obsolete(event) /\ ~Outdated(event)
         /\ states' = [states EXCEPT ![x] = v] /\ sync' = Journalled(event)
  BY <1>1 DEF OnStateChange
<1>. HIDE DEF x, v
<1>6. /\ \A e : e # x => (Pending(e)' <=> Pending(e))
      /\ Sent => Sent'
      /\ Sent /\ recv = "running" /\ ~Pending(x)' => v = ha[x]
  BY <1>2, <1>3, <1>4, BusShifted DEF x, v
<1>7. /\ sync'.active = sync.active
      /\ \/ sync'.journal = sync.journal
         \/ sync'.journal = Append(sync.journal, o) /\ sync' = Journalled(event)
  <2>1. CASE sync' = sync
    BY <2>1
  <2>2. CASE sync' = Journalled(event)
    BY <2>2 DEF Journalled, ProxyInv, Coordinated, IsSync, x, v
  <2>. QED BY <1>5, <2>1, <2>2
<1>8. o \in Entry /\ o.entity = x /\ o.state = v
  BY <1>4 DEF Entry
<1>. HIDE DEF o
<1>9. sync.journal \in Seq(Entry)
  BY DEF Flow, Data
<1>10. /\ Append(sync.journal, o) \in Seq(Entry) /\ Len(sync.journal) \in Nat
       /\ Len(Append(sync.journal, o)) = Len(sync.journal) + 1 /\ Append(sync.journal, o)[Len(sync.journal) + 1] = o
       /\ \A i \in 1 .. Len(sync.journal) : Append(sync.journal, o)[i] = sync.journal[i]
  BY <1>8, <1>9, AppendFacts
<1>11. Data'
  <2>1. states' \in Snapshot /\ sync'.journal \in Seq(Entry)
    BY <1>4, <1>5, <1>7, <1>9, <1>10 DEF Flow, Data, Snapshot
  <2>. QED BY <1>2, <1>3, <2>1 DEF Flow, Data, Begun
<1>12. Exchange'
  BY <1>2, <1>7 DEF Flow, Exchange, Frames, Begun
<1>13. Older'
  <2>1. \A e \in Entities : Past(states'[e], e)
    BY <1>4, <1>5 DEF Flow, Data, Snapshot, Older
  <2>2. \A i \in 1 .. Len(sync'.journal) : Past(sync'.journal[i].state, sync'.journal[i].entity)
    <3>1. CASE sync'.journal = sync.journal
      BY <3>1 DEF Flow, Older
    <3>2. CASE sync'.journal = Append(sync.journal, o)
      <4>1. \A i \in 1 .. Len(sync'.journal) : i \in 1 .. Len(sync.journal) \/ i = Len(sync.journal) + 1
        BY <1>10, <3>2
      <4>. QED BY <1>4, <1>8, <1>10, <3>2, <4>1 DEF Flow, Older
    <3>. QED BY <1>7, <3>1, <3>2
  <2>3. \A i \in 1 .. Len(bus') : Past(bus'[i].state, bus'[i].entity)
    BY <1>3 DEF Flow, Older
  <2>. QED BY <1>2, <2>1, <2>2, <2>3 DEF Flow, Older, PastOnWire, Past, Begun
<1>14. Answered => Answered'
  BY <1>2 DEF Answered, AnswersTell, Live, EventOf
<1>15. gen # None => recv = "running"
  BY DEF ProxyInv, Connection
<1>16. Sent /\ gen # None => event.gen \in {None, gen} /\ ~Obsolete(event)
  BY <1>3, <1>15 DEF Sent, Obsolete
<1>17. Sent /\ gen # None /\ Outdated(event) /\ ~Pending(x)' => states[x] = ha[x] /\ ha[x] # None
  <2>. SUFFICES ASSUME Sent, gen # None, Outdated(event), ~Pending(x)' PROVE states[x] = ha[x] /\ ha[x] # None
    OBVIOUS
  <2>1. v = ha[x]
    BY <1>6, <1>15
  <2>2. v # None /\ states[x] # None /\ v <= states[x]
    BY DEF Outdated, HeldIsNewer, x, v
  <2>3. Past(states[x], x) /\ states[x] \in Value
    BY <1>4 DEF Flow, Older, Data, Snapshot
  <2>. QED BY <1>4, <2>1, <2>2, <2>3 DEF Past, Value
<1>18. \A e : /\ InJournal(e) => InJournal(e)'
              /\ InJournal(e)' => InJournal(e) \/ (e = x /\ sync'.journal # sync.journal)
              /\ sync'.journal # sync.journal => InJournal(x)'
  <2>1. CASE sync'.journal = sync.journal
    BY <2>1 DEF InJournal
  <2>2. CASE sync'.journal = Append(sync.journal, o)
    <3>1. \A i \in 1 .. Len(sync'.journal) : i \in 1 .. Len(sync.journal) \/ i = Len(sync.journal) + 1
      BY <1>10, <2>2
    <3>2. Len(sync.journal) + 1 \in 1 .. Len(sync'.journal) /\ \A i \in 1 .. Len(sync.journal) : i \in 1 .. Len(sync'.journal)
      BY <1>10, <2>2
    <3>3. sync'.journal # sync.journal
      BY <1>10, <2>2
    <3>. QED BY <1>8, <1>10, <2>2, <3>1, <3>2, <3>3 DEF InJournal
  <2>3. sync'.journal \in {sync.journal, Append(sync.journal, o)}
    BY <1>7
  <2>. QED BY <2>1, <2>2, <2>3
<1>19. Sent /\ Answered /\ Journal => Journal'
  <2>. SUFFICES ASSUME Sent, Answered, Journal, sync.active # None, gen # None, task[sync.active].gen = gen
                PROVE  Journal'
    BY <1>2, <1>7 DEF Journal, Live
  <2>. DEFINE a == sync.active
  <2>1. Live(a) /\ wired /\ a \in Syncs /\ ~Obsolete(event) /\ event.gen \in {None, gen}
    BY <1>16 DEF Live, Flow, Exchange
  <2>2. CASE Outdated(event) /\ UNCHANGED <<states, sync>>
    <3>1. \A e : InJournal(e)' <=> InJournal(e)
      BY <2>2 DEF InJournal
    <3>2. ASSUME NEW e \in Entities, ~Pending(e)'
          PROVE  /\ InJournal(e) => states[e] = ha[e]
                 /\ task[a].at = "done" /\ ~InJournal(e) => task[a].got[e] = ha[e]
      <4>1. CASE e = x
        <5>1. states[x] = ha[x] /\ ha[x] # None
          BY <1>17, <2>2, <3>2, <4>1
        <5>2. ~InJournal(x) => task[a].base[x] = ha[x]
          BY <1>4, <2>1, <5>1 DEF Journal
        <5>. QED BY <1>4, <2>1, <4>1, <5>1, <5>2 DEF Answered
      <4>2. CASE e # x
        BY <1>6, <2>1, <3>2, <4>2 DEF Journal
      <4>. QED BY <4>1, <4>2
    <3>. QED BY <1>2, <2>1, <2>2, <3>1, <3>2 DEF Journal
  <2>3. CASE states' = [states EXCEPT ![x] = v] /\ sync' = Journalled(event)
    <3>. DEFINE n == Len(sync.journal) + 1
    <3>1. sync'.journal = Append(sync.journal, o)
      BY <2>1, <2>3 DEF Journalled, ProxyInv, Coordinated, IsSync, x, v, o
    <3>2. states'[x] = v /\ \A e \in Entities : e # x => states'[e] = states[e]
      BY <1>4, <2>3 DEF Flow, Data, Snapshot
    <3>3. /\ \A i \in 1 .. Len(sync'.journal) : i \in 1 .. Len(sync.journal) \/ i = n
          /\ \A i \in 1 .. Len(sync.journal) : n \in i + 1 .. Len(sync'.journal)
          /\ \A i \in 1 .. Len(sync.journal) : \A j \in i + 1 .. Len(sync.journal) :
                j \in i + 1 .. Len(sync'.journal) /\ j \in 1 .. Len(sync.journal)
          /\ n \in Nat /\ Len(sync'.journal) = n
      BY <1>10, <3>1
    <3>4. sync'.journal[n] = o /\ \A i \in 1 .. Len(sync.journal) : sync'.journal[i] = sync.journal[i]
      BY <1>10, <3>1
    <3>5. InJournal(x)' /\ \A e : e # x => (InJournal(e)' <=> InJournal(e))
      <4>1. sync'.journal # sync.journal
        BY <1>10, <3>1
      <4>. QED BY <1>18, <4>1
    <3>6. ASSUME NEW e \in Entities, NEW i \in 1 .. Len(sync'.journal), sync'.journal[i].entity = e,
                 \A j \in i + 1 .. Len(sync'.journal) : sync'.journal[j].entity # e
          PROVE  sync'.journal[i].state = states'[e]
      <4>1. CASE i = n
        BY <1>8, <3>2, <3>4, <3>6, <4>1
      <4>2. CASE i \in 1 .. Len(sync.journal)
        <5>1. e # x
          BY <1>8, <3>3, <3>4, <3>6, <4>2
        <5>2. sync.journal[i].entity = e /\ \A j \in i + 1 .. Len(sync.journal) : sync.journal[j].entity # e
          BY <3>3, <3>4, <3>6, <4>2
        <5>. QED BY <2>1, <3>2, <3>4, <4>2, <5>1, <5>2 DEF Journal
      <4>. QED BY <3>3, <4>1, <4>2
    <3>7. ASSUME NEW e \in Entities
          PROVE  /\ ~InJournal(e)' => states'[e] = task[a].base[e]
                 /\ InJournal(e)' /\ ~Pending(e)' => states'[e] = ha[e]
                 /\ task[a].at = "done" /\ ~InJournal(e)' /\ ~Pending(e)' => task[a].got[e] = ha[e]
      <4>1. CASE e = x
        BY <1>6, <1>15, <3>2, <3>5, <4>1
      <4>2. CASE e # x
        BY <1>6, <2>1, <3>2, <3>5, <4>2 DEF Journal
      <4>. QED BY <4>1, <4>2
    <3>. QED BY <1>2, <1>7, <2>1, <3>6, <3>7 DEF Journal
  <2>. QED BY <1>5, <2>1, <2>2, <2>3
<1>20. Sent /\ Maintained => Maintained'
  <2>. SUFFICES ASSUME Sent, Maintained, gen # None, kept = gen, NEW e \in Entities, ~Pending(e)'
                PROVE  states'[e] = ha[e]
    BY <1>2 DEF Maintained
  <2>1. wired /\ ~Obsolete(event)
    BY <1>16 DEF Flow, Exchange
  <2>2. CASE e = x
    <3>1. CASE Outdated(event) /\ UNCHANGED states
      BY <1>17, <2>2, <3>1
    <3>2. CASE states' = [states EXCEPT ![x] = v]
      BY <1>4, <1>6, <1>15, <2>2, <3>2 DEF Flow, Data, Snapshot
    <3>. QED BY <1>5, <2>1, <3>1, <3>2
  <2>3. CASE e # x
    <3>1. states'[e] = states[e]
      BY <1>5, <2>3 DEF Flow, Data, Snapshot
    <3>. QED BY <1>6, <2>3, <3>1 DEF Maintained
  <2>. QED BY <2>2, <2>3
<1>. QED BY <1>2, <1>6, <1>11, <1>12, <1>13, <1>14, <1>19, <1>20 DEF Flow


----------------------------------------------------------------------------
(* A synchronization begins, and is committed *)

LEMMA Largest ==
  ASSUME NEW n \in Nat, NEW S, S \subseteq 1 .. n, S # {}
  PROVE  \E i \in S : \A j \in S : j <= i
<1>. DEFINE T == {n - i : i \in S}
<1>1. T \subseteq Nat /\ T # {}
  <2>1. \A i \in S : n - i \in Nat
    OBVIOUS
  <2>. QED BY <2>1
<1>2. IsWellFoundedOn(OpToRel(<, Nat), Nat)
  BY NatLessThanWellFounded
<1>3. \E m \in T : \A k \in T : <<k, m>> \notin OpToRel(<, Nat)
  BY <1>1, <1>2, WFMin
<1>4. \E m \in T : \A k \in T : ~(k < m)
  <2>1. PICK m \in T : \A k \in T : <<k, m>> \notin OpToRel(<, Nat)
    BY <1>3
  <2>2. \A k \in T : k \in Nat /\ m \in Nat
    BY <1>1
  <2>3. \A k \in T : k < m => <<k, m>> \in OpToRel(<, Nat)
    BY <2>2 DEF OpToRel
  <2>. QED BY <2>1, <2>3
<1>5. PICK i \in S : \A k \in T : ~(k < n - i)
  BY <1>4
<1>6. \A j \in S : ~(n - j < n - i) /\ i \in 1 .. n /\ j \in 1 .. n
  BY <1>5
<1>. QED BY <1>6

\* The last operation on an entity is what remains of the journal.
LEMMA ReplayedFacts ==
  ASSUME NEW f, NEW journal \in Seq(Entry), NEW e \in Entities
  PROVE  \/ (\A i \in 1 .. Len(journal) : journal[i].entity # e) /\ Replayed(f, journal)[e] = f[e]
         \/ \E i \in 1 .. Len(journal) :
               /\ journal[i].entity = e /\ \A j \in i + 1 .. Len(journal) : journal[j].entity # e
               /\ Replayed(f, journal)[e] = journal[i].state
<1>. DEFINE S == {i \in 1 .. Len(journal) : journal[i].entity = e}
<1>1. Replayed(f, journal)[e] = IF S = {} THEN f[e] ELSE journal[CHOOSE i \in S : \A j \in S : j <= i].state
  BY DEF Replayed
<1>2. CASE S = {}
  BY <1>1, <1>2
<1>3. CASE S # {}
  <2>. DEFINE m == CHOOSE i \in S : \A j \in S : j <= i
  <2>1. Len(journal) \in Nat /\ S \subseteq 1 .. Len(journal)
    OBVIOUS
  <2>2. \E i \in S : \A j \in S : j <= i
    <3>. HIDE DEF S
    <3>. QED BY <1>3, <2>1, Largest
  <2>3. m \in S /\ \A j \in S : j <= m
    <3>. HIDE DEF S
    <3>. QED BY <2>2
  <2>4. Replayed(f, journal)[e] = journal[m].state
    BY <1>1, <1>3
  <2>. HIDE DEF m
  <2>5. m \in 1 .. Len(journal) /\ journal[m].entity = e
    BY <2>3
  <2>6. \A j \in m + 1 .. Len(journal) : j \notin S /\ j \in 1 .. Len(journal)
    <3>. SUFFICES ASSUME NEW j \in m + 1 .. Len(journal) PROVE j \notin S /\ j \in 1 .. Len(journal)
      OBVIOUS
    <3>1. j \in 1 .. Len(journal) /\ ~(j <= m)
      BY <2>1, <2>5
    <3>. QED BY <2>3, <3>1
  <2>. QED BY <2>4, <2>5, <2>6
<1>. QED BY <1>2, <1>3

LEMMA BeginFlow ==
  ASSUME ProxyInv, Flow, NEW k \in Syncs, Begin(k) PROVE Flow'
<1>. DEFINE r == [task[k] EXCEPT !.at = IF recv = "running" THEN "fetching" ELSE "broken", !.base = states]
<1>1. /\ UNCHANGED <<env, gen, clock, ha, pc, recv, acked, subscribed, wire, bus, states, kept, wired>>
      /\ task[k].at = "spawned" /\ ~task[k].cancelled
      /\ task' = [task EXCEPT ![k] = r] /\ sync' = [sync EXCEPT !.active = k, !.journal = <<>>]
  BY DEF Begin, wsvars, link, hass, cache
<1>2. r.at \in {"fetching", "broken"} /\ r.base = states /\ r.cancelled = task[k].cancelled
  BY DEF ProxyInv, Coordinated, AreTasks, IsTask
<1>. HIDE DEF r
<1>3. task'[k] = r /\ \A j \in Syncs \ {k} : task'[j] = task[j]
  BY <1>1 DEF ProxyInv, Coordinated, AreTasks
<1>4. sync'.active = k /\ sync'.journal = <<>> /\ Len(sync'.journal) = 0
  BY <1>1 DEF ProxyInv, Coordinated, IsSync
<1>5. k # None
  BY StateProxyAssumption
<1>6. \A i \in 1 .. Len(wire) : wire[i].kind = "states" => wire[i].task \in Syncs \ {k}
  BY <1>1, FrameTask DEF Flow, Exchange, Frames
<1>7. Data'
  <2>1. <<>> \in Seq(Entry)
    OBVIOUS
  <2>. QED BY <1>1, <1>2, <1>3, <1>4, <2>1 DEF Flow, Data, Begun
<1>8. Exchange'
  <2>1. wired
    BY <1>1, <1>5 DEF ProxyInv, Coordinated, Tracks, Alive, Known
  <2>2. Begun(task'[k])
    BY <1>2, <1>3 DEF Begun
  <2>3. Frames'
    BY <1>1, <1>3, <1>6 DEF Flow, Exchange, Frames
  <2>. QED BY <1>1, <1>2, <1>3, <1>4, <2>1, <2>2, <2>3 DEF Flow, Exchange, Begun
<1>9. Older'
  <2>1. \A j \in Syncs : Begun(task'[j]) => \A e \in Entities : Past(task'[j].base[e], e)
    BY <1>2, <1>3 DEF Flow, Older
  <2>2. \A j \in Syncs : task'[j].at = "done" => \A e \in Entities : Past(task'[j].got[e], e)
    BY <1>2, <1>3 DEF Flow, Older
  <2>. QED BY <1>1, <1>4, <2>1, <2>2 DEF Flow, Older, PastOnWire, Past, Begun
<1>10. Sent => Sent'
  BY <1>1 DEF Sent, EventsTell, EventOf, OnWire
<1>11. Answered => Answered'
  <2>1. AnswersTell => AnswersTell'
    <3>1. \A i \in 1 .. Len(wire) : wire[i].kind = "states" => task'[wire[i].task] = task[wire[i].task]
      BY <1>3, <1>6
    <3>. QED BY <1>1, <3>1 DEF AnswersTell, Live, EventOf
  <2>. QED BY <1>1, <1>2, <1>3, <2>1 DEF Answered, Live
<1>12. Journal'
  BY <1>1, <1>2, <1>3, <1>4 DEF Journal, InJournal
<1>13. Maintained => Maintained'
  BY <1>1 DEF Maintained, Pending, OnWire, OnBus, EventOf
<1>. QED BY <1>1, <1>7, <1>8, <1>9, <1>10, <1>11, <1>12, <1>13 DEF Flow


\* What was fetched is newer than what was held, or equal to it.
LEMMA CandidateFacts ==
  ASSUME NEW base \in Snapshot, NEW got \in Snapshot, NEW e \in Entities
  PROVE  /\ Candidate(base, got)[e] \in {base[e], got[e]}
         /\ Candidate(base, got)[e] # got[e] => got[e] # None /\ base[e] # None /\ got[e] <= base[e]
BY DEF Candidate, HeldIsNewer

\* The commit publishes the candidate with the journal replayed over it.
LEMMA CommitFlow ==
  ASSUME ProxyInv, Flow, NEW k \in Syncs, Commit(k), MayCommit(k) PROVE Flow'
<1>. DEFINE base == task[k].base
            got  == task[k].got
            f    == Candidate(base, got)
<1>1. /\ UNCHANGED <<env, gen, clock, ha, pc, recv, acked, subscribed, wire, bus, wired>>
      /\ task[k].at = "done" /\ ~task[k].cancelled /\ sync.active = k /\ gen = task[k].gen
      /\ states' = Replayed(f, sync.journal) /\ kept' = task[k].gen
      /\ sync' = Finished(k, sync) /\ task' = [task EXCEPT ![k] = NoTask]
  BY DEF Commit, MayCommit, wsvars, link, hass
<1>2. task'[k] = NoTask /\ \A j \in Syncs \ {k} : task'[j] = task[j]
  BY <1>1 DEF ProxyInv, Coordinated, AreTasks
<1>3. sync'.active = None /\ sync'.journal = <<>> /\ Len(sync'.journal) = 0
  BY <1>1 DEF ProxyInv, Coordinated, IsSync, Finished
<1>4. Begun(task[k]) /\ base \in Snapshot /\ got \in Snapshot /\ sync.journal \in Seq(Entry)
  BY <1>1 DEF Flow, Data, Begun
<1>5. Live(k) /\ recv = "running" /\ wired
  <2>1. gen # None
    BY <1>1 DEF ProxyInv, Lateness, Alive
  <2>. QED BY <1>1, <2>1, StateProxyAssumption DEF Live, ProxyInv, Connection, Flow, Exchange
<1>6. /\ \A e \in Entities : f[e] \in {base[e], got[e]}
      /\ \A e \in Entities : f[e] # got[e] => got[e] # None /\ base[e] # None /\ got[e] <= base[e]
  BY <1>4, CandidateFacts
<1>. HIDE DEF f
<1>7. \A e \in Entities :
        \/ ~InJournal(e) /\ states'[e] = f[e]
        \/ \E i \in 1 .. Len(sync.journal) :
              /\ sync.journal[i].entity = e /\ \A j \in i + 1 .. Len(sync.journal) : sync.journal[j].entity # e
              /\ states'[e] = sync.journal[i].state
  BY <1>1, <1>4, ReplayedFacts DEF InJournal
<1>8. states' \in Snapshot
  <2>1. \A e \in Entities : f[e] \in Value
    BY <1>4, <1>6 DEF Snapshot
  <2>2. \A i \in 1 .. Len(sync.journal) : sync.journal[i].state \in Value
    <3>. SUFFICES ASSUME NEW i \in 1 .. Len(sync.journal) PROVE sync.journal[i].state \in Value
      OBVIOUS
    <3>1. sync.journal[i] \in Entry
      BY <1>4
    <3>. QED BY <3>1 DEF Entry
  <2>3. \A e \in Entities : states'[e] \in Value
    BY <1>7, <2>1, <2>2
  <2>4. states' = [e \in Entities |-> states'[e]]
    BY <1>1 DEF Replayed
  <2>. QED BY <2>3, <2>4 DEF Snapshot
<1>9. \A i \in 1 .. Len(wire) : wire[i].kind = "states" => wire[i].task \in Syncs \ {k}
  BY <1>1, FrameTask DEF Flow, Exchange, Frames
<1>10. NoTask.at = "free" /\ NoTask.cancelled = FALSE
  BY DEF NoTask
<1>11. Data'
  <2>1. <<>> \in Seq(Entry)
    OBVIOUS
  <2>. QED BY <1>1, <1>2, <1>3, <1>8, <1>10, <2>1 DEF Flow, Data, Begun
<1>12. Exchange'
  <2>1. Frames'
    BY <1>1, <1>2, <1>9 DEF Flow, Exchange, Frames
  <2>. QED BY <1>1, <1>2, <1>3, <1>5, <1>10, <2>1 DEF Flow, Exchange, Begun
<1>13. Older'
  <2>1. \A e \in Entities : Past(base[e], e) /\ Past(got[e], e)
    BY <1>1, <1>4 DEF Flow, Older
  <2>2. \A e \in Entities : Past(f[e], e)
    BY <1>6, <2>1
  <2>3. \A i \in 1 .. Len(sync.journal) : Past(sync.journal[i].state, sync.journal[i].entity)
    BY DEF Flow, Older
  <2>4. \A e \in Entities : Past(states'[e], e)
    BY <1>7, <2>2, <2>3
  <2>5. \A j \in Syncs : Begun(task'[j]) => \A e \in Entities : Past(task'[j].base[e], e)
    BY <1>2, <1>10 DEF Flow, Older, Begun
  <2>6. \A j \in Syncs : task'[j].at = "done" => \A e \in Entities : Past(task'[j].got[e], e)
    BY <1>2, <1>10 DEF Flow, Older
  <2>. QED BY <1>1, <1>3, <2>4, <2>5, <2>6 DEF Flow, Older, PastOnWire, Past, Begun
<1>14. Sent => Sent'
  BY <1>1 DEF Sent, EventsTell, EventOf, OnWire
<1>15. Answered => Answered'
  <2>1. AnswersTell => AnswersTell'
    <3>1. \A i \in 1 .. Len(wire) : wire[i].kind = "states" => task'[wire[i].task] = task[wire[i].task]
      BY <1>2, <1>9
    <3>. QED BY <1>1, <3>1 DEF AnswersTell, Live, EventOf
  <2>. QED BY <1>1, <1>2, <1>10, <2>1 DEF Answered, Live
<1>16. Journal'
  BY <1>3 DEF Journal
<1>17. Journal => Maintained'
  <2>. SUFFICES ASSUME Journal, NEW e \in Entities, ~Pending(e) PROVE states'[e] = ha[e]
    BY <1>1 DEF Maintained, Pending, OnWire, OnBus, EventOf
  <2>1. CASE InJournal(e)
    <3>1. PICK i \in 1 .. Len(sync.journal) :
            /\ sync.journal[i].entity = e /\ \A j \in i + 1 .. Len(sync.journal) : sync.journal[j].entity # e
            /\ states'[e] = sync.journal[i].state
      BY <1>7, <2>1
    <3>2. states[e] = ha[e] /\ sync.active # None
      BY <1>1, <1>5, <2>1, StateProxyAssumption DEF Journal
    <3>3. sync.journal[i].state = states[e]
      BY <1>1, <1>5, <3>1, <3>2 DEF Journal
    <3>. QED BY <3>1, <3>2, <3>3
  <2>2. CASE ~InJournal(e)
    <3>1. got[e] = ha[e]
      BY <1>1, <1>5, <2>2, StateProxyAssumption DEF Journal
    <3>2. states'[e] = f[e]
      BY <1>7, <2>2 DEF InJournal
    <3>3. CASE f[e] # got[e]
      <4>1. f[e] = base[e] /\ got[e] # None /\ base[e] # None /\ got[e] <= base[e]
        BY <1>6, <3>3
      <4>2. Past(base[e], e) /\ base[e] \in Value /\ got[e] \in Value
        BY <1>4 DEF Flow, Older, Snapshot
      <4>3. base[e] <= got[e]
        BY <3>1, <4>1, <4>2 DEF Past
      <4>. QED BY <3>3, <4>1, <4>2, <4>3 DEF Value
    <3>. QED BY <3>1, <3>2, <3>3
  <2>. QED BY <2>1, <2>2
<1>. QED BY <1>1, <1>11, <1>12, <1>13, <1>14, <1>15, <1>16, <1>17 DEF Flow

----------------------------------------------------------------------------
(* The cache's invariant *)

LEMMA CacheInvInit == Init => CacheInv
<1>. SUFFICES ASSUME Init PROVE CacheInv
  OBVIOUS
<1>1. Sorts
  BY WebsocketAssumption, RestSpeaks DEF Init, WsInit, Sorts, Environment, NoSync, NoTask, Rest, Ats
<1>2. Generations
  BY DEF Init, WsInit, Generations, Reached, NoSync, NoTask, Rest
<1>3. Data
  BY DEF Init, WsInit, Data, Snapshot, Value, NoSync, NoTask, Begun
<1>4. Len(wire) = 0 /\ Len(bus) = 0 /\ Len(sync.journal) = 0
  BY DEF Init, WsInit, NoSync
<1>5. Exchange
  BY <1>4 DEF Init, WsInit, Exchange, Frames, NoSync, NoTask
<1>6. Older
  BY <1>4 DEF Init, WsInit, Older, PastOnWire, Past, NoTask, Begun
<1>7. Sent /\ Answered /\ Journal /\ Maintained
  BY DEF Init, WsInit, Sent, Answered, AnswersTell, Journal, Maintained, Live
<1>. QED BY <1>1, <1>2, <1>3, <1>5, <1>6, <1>7 DEF CacheInv, Flow

LEMMA CacheInvStep == ProxyInv /\ CacheInv /\ [Next]_vars => CacheInv'
<1>. SUFFICES ASSUME ProxyInv, CacheInv, [Next]_vars PROVE CacheInv'
  OBVIOUS
<1>1. Sorts' /\ Generations'
  BY SortsStep DEF CacheInv
<1>2. Sorts /\ Generations /\ Flow /\ Exchange
  BY DEF CacheInv, Flow
<1>3. Flow'
  <2>1. CASE Requests
    BY <1>2, <2>1, RequestsQuiet, QuietFlow
  <2>2. CASE \/ (ServeStarts \/ AuthFails) /\ UNCHANGED proxy
             \/ Wire \/ Notified \/ UNCHANGED vars
    BY <1>2, <2>2, OtherQuiet, QuietFlow
  <2>3. CASE \E k \in Syncs : (Commit(k) /\ ~MayCommit(k)) \/ Fails(k) \/ Unwinds(k)
    BY <1>2, <2>3, EndsQuiet, QuietFlow
  <2>4. CASE (RecvDies /\ UNCHANGED proxy) \/ Retried \/ Dropped \/ RetryGone \/ SyncGone
    BY <1>2, <2>4, LosesFlow
  <2>5. CASE (Opened \/ Subscribed \/ RecvEvent \/ RecvAck \/ Subscribes) /\ UNCHANGED proxy
    BY <1>2, <2>5, OpenedFlow, SubscribedFlow, RecvEventFlow, RecvAckFlow, SubscribesFlow
  <2>6. CASE UNCHANGED proxy /\ \E e \in Entities, gone \in BOOLEAN : Changes(e, gone)
    BY <1>2, <2>6, ChangesFlow
  <2>7. CASE OnStateChange \/ RecvStates
    BY <1>2, <2>7, OnStateChangeFlow, RecvStatesFlow
  <2>8. CASE \E k \in Syncs : Begin(k) \/ (Commit(k) /\ MayCommit(k)) \/ Answers(k)
    BY <1>2, <2>8, BeginFlow, CommitFlow, AnswersFlow
  <2>. QED BY <2>1, <2>2, <2>3, <2>4, <2>5, <2>6, <2>7, <2>8 DEF Next, WsNext, Requests, SyncStep
<1>. QED BY <1>1, <1>3 DEF CacheInv


----------------------------------------------------------------------------
(* Theorems *)

\* "rather than starting a second concurrent synchronization": of the
\* synchronization tasks that were not cancelled at most one is alive, and the
\* coordinator has it; the one retry that sleeps is the one it would cancel
\* (state_proxy.py, _start_sync_task(), _schedule_retry()).
THEOREM SynchronizesOnce == Spec => []OneSynchronization
<1>1. ProxyInv => OneSynchronization
  BY CoordinatedGivesOne DEF ProxyInv, OneSynchronization, RetryTracked, Known, Sleeps, Callers
<1>. QED BY <1>1, ProxyInvInit, ProxyInvStep, PTL DEF Spec

\* Only a task's commit makes the cache fresh, and it commits what it fetched on
\* the connection that is ready then: a synchronization that was asked for
\* without a connection never gets that far (_commit_candidate_states()).
THEOREM CommitsConnected == Spec => CommitsOnlyConnected
<1>1. ASSUME ProxyInv, [Next]_vars, kept' # kept \/ cap' # cap \/ (fresh # "FRESH" /\ fresh' = "FRESH")
      PROVE  gen # None /\ kept' = gen
  <2>1. Downgraded # "FRESH"
    BY DEF Downgraded
  <2>2. PICK k \in Syncs : Commit(k)
    BY <1>1, <2>1, CacheStep
  <2>3. MayCommit(k) /\ kept' = task[k].gen
    BY <1>1, <2>2 DEF Commit, cache
  <2>4. task[k].gen # None
    BY <1>1, <2>2 DEF Commit, ProxyInv, Lateness, Alive
  <2>. QED BY <2>3, <2>4 DEF MayCommit
<1>2. ProxyInv /\ [Next]_vars =>
        [kept' # kept \/ cap' # cap \/ (fresh # "FRESH" /\ fresh' = "FRESH") => gen # None /\ kept' = gen]_vars
  BY <1>1
<1>. QED BY <1>2, ProxyInvInit, ProxyInvStep, PTL DEF Spec, CommitsOnlyConnected

\* Every variable keeps its type: generations are those of connections that were
\* opened, and the cache holds versions that Home Assistant has sent.
THEOREM TypeCorrect == Spec => []TypeOK
<1>1. ASSUME ProxyInv, CacheInv PROVE TypeOK
  <2>1. Reached \subseteq Gens \cup {None}
    BY <1>1 DEF CacheInv, Sorts, Environment, ProxyInv, Connection, Reached, Gens
  <2>2. states \in [Entities -> Versions \cup {None}]
    <3>1. \A e \in Entities : states[e] \in Versions \cup {None}
      <4>. SUFFICES ASSUME NEW e \in Entities, states[e] # None PROVE states[e] \in Versions
        OBVIOUS
      <4>1. states[e] \in Nat \ {0} /\ states[e] <= clock
        BY <1>1 DEF CacheInv, Flow, Data, Snapshot, Value, Older, Past
      <4>. QED BY <1>1, <4>1 DEF CacheInv, Sorts, Environment, Versions
    <3>. QED BY <1>1, <3>1 DEF CacheInv, Flow, Data, Snapshot
  <2>3. sync.cur \in Syncs \cup {None} /\ sync.active \in Syncs \cup {None}
    BY <1>1 DEF ProxyInv, Coordinated, Tracks, CacheInv, Flow, Exchange
  <2>. QED BY <1>1, <2>1, <2>2, <2>3 DEF TypeOK, CacheInv, Sorts, Generations, Ats
<1>. QED BY <1>1, ProxyInvInit, ProxyInvStep, CacheInvInit, CacheInvStep, PTL DEF Spec

\* "no update racing the bulk fetch is lost" (state_proxy.py, StateProxy): once
\* no frame and no event is under way, a cache that is fresh for the ready
\* connection is Home Assistant's state, however events, answers, commits,
\* failures and reconnections followed each other; unless events of an earlier
\* connection are still on the bus when the next one is opened.
THEOREM FreshIsCurrent == Spec => []FreshMatches
<1>1. ASSUME CacheInv PROVE FreshMatches
  <2>. SUFFICES ASSUME ~env.backlog, wire = <<>>, bus = <<>>, gen # None, kept = gen PROVE states = ha
    BY DEF FreshMatches, Settled
  <2>1. Len(wire) = 0 /\ Len(bus) = 0
    OBVIOUS
  <2>2. \A e \in Entities : ~Pending(e)
    BY <2>1 DEF Pending, OnWire, OnBus
  <2>3. \A e \in Entities : states[e] = ha[e]
    BY <1>1, <2>2 DEF CacheInv, Flow, Maintained
  <2>. QED BY <1>1, <2>3 DEF CacheInv, Flow, Data, Snapshot
<1>. QED BY <1>1, ProxyInvInit, ProxyInvStep, CacheInvInit, CacheInvStep, PTL DEF Spec
=============================================================================
