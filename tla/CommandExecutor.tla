-------------------------- MODULE CommandExecutor --------------------------
(***************************************************************************)
(* core/command_executor.py on top of DatabaseService: every execution of  *)
(* a handler or job leaves a record on a bounded queue, and serve() writes *)
(* the queue to the database in batches, with retries, a row-by-row        *)
(* fallback and drop counters, until the service is shut down.             *)
(*                                                                         *)
(* serve() is the caller Executor of the database's submit().  The fate of *)
(* a record that gets no row is kept in lost, which the code does not      *)
(* have: by the counter that counts it, or "logged" and "cancelled" where  *)
(* no counter does.                                                        *)
(***************************************************************************)
EXTENDS DatabaseService, FiniteSets, FiniteSetsExt

CONSTANTS
    Executor,           \* serve(), among Callers
    Records,            \* one per execution
    Orphans,            \* the records whose listener or job row is gone
    TelemetryQueueMax,  \* config.database.telemetry_write_queue_max
    DrainCap,           \* _BATCH_DRAIN_CAP
    MaxRetries,         \* _MAX_RETRY_COUNT
    MaxFaults           \* bound: writes that fail for the database's own reasons

ASSUME ExecutorAssumption ==
    /\ Executor \in Callers
    /\ IsFiniteSet(Records) /\ Orphans \subseteq Records
    /\ {TelemetryQueueMax, DrainCap, MaxRetries} \subseteq Nat \ {0}
    /\ MaxFaults \in Nat
    /\ None \notin Jobs \cup [records : SUBSET Records, retry : 0..MaxRetries, due : BOOLEAN]
    /\ Writes = [op : {"batch", "fallback", "other"}, records : SUBSET Records]

VARIABLES
    ended,      \* the executions that have ended
    ring,       \* _write_queue: single records (retry 0) and RetryableBatches
    serve,      \* the coroutine serve(), see Start
    stopping,   \* shutdown_event: shutdown() has been called
    drops,      \* _dropped_overflow, _dropped_exhausted
    lost,       \* the records that will have no row, by what became of them
    rows,       \* how many rows each record has
    announced,  \* records whose completion event was sent
    faults

exvars == <<ended, ring, serve, stopping, drops, lost, rows, announced, faults>>
vars   == <<dbvars, exvars>>

Item(S, n, due) == [records |-> S, retry |-> n, due |-> due]
NoItem == Item({}, 0, TRUE)

\* serve(): the item its get() task holds, what is left of the batch it drained,
\* the item it is persisting, and whether this is flush_queue().
Start == [at |-> "waiting", got |-> None, todo |-> <<>>, batch |-> NoItem, op |-> "batch", flush |-> FALSE]

Init ==
    /\ DbInit
    /\ ended = {} /\ ring = <<>> /\ serve = Start /\ stopping = FALSE
    /\ drops = [overflow |-> 0, exhausted |-> 0]
    /\ lost = [overflow |-> {}, exhausted |-> {}, logged |-> {}, cancelled |-> {}]
    /\ rows = [r \in Records |-> 0]
    /\ announced = {} /\ faults = 0

----------------------------------------------------------------------------
(* Dropped records *)

Lost(how, S) == [lost EXCEPT ![how] = @ \cup S]
Counted(how, n) == [drops EXCEPT ![how] = @ + n]
Drop(how, S) == lost' = Lost(how, S) /\ drops' = Counted(how, Cardinality(S))
Keep == UNCHANGED <<lost, drops>>

AllRecords(items) == UNION {items[i].records : i \in DOMAIN items}
IsDue(item) == item.due
IsRetry(item) == item.retry > 0

----------------------------------------------------------------------------
(* Executions *)

\* _execute() ends and enqueues its record; a full queue drops it.
Execute(r) ==
    /\ r \notin ended
    /\ ended' = ended \cup {r}
    /\ \/ /\ Len(ring) < TelemetryQueueMax
          /\ ring' = Append(ring, Item({r}, 0, TRUE))
          /\ Keep
       \/ /\ Len(ring) >= TelemetryQueueMax
          /\ Drop("overflow", {r})
          /\ UNCHANGED ring
    /\ UNCHANGED <<dbvars, serve, stopping, rows, announced, faults>>

\* The backoff of a batch on the queue, or just taken from it, has elapsed.
\* drain_and_persist() looks at the clock once, after the fresh records.
BackoffElapses ==
    /\ \/ \E i \in DOMAIN ring : /\ ~ring[i].due
                                 /\ ring' = [ring EXCEPT ![i].due = TRUE]
                                 /\ UNCHANGED serve
       \/ /\ serve.got # None /\ ~serve.got.due
          /\ serve' = [serve EXCEPT !.got.due = TRUE]
          /\ UNCHANGED ring
       \/ \E i \in DOMAIN serve.todo : /\ serve.batch.retry = 0 /\ ~serve.todo[i].due
                                       /\ serve' = [serve EXCEPT !.todo[i].due = TRUE]
                                       /\ UNCHANGED ring
    /\ UNCHANGED <<dbvars, ended, stopping, drops, lost, rows, announced, faults>>

----------------------------------------------------------------------------
(* drain_and_persist() and flush_queue() *)

\* The batches in front of the first one whose backoff has elapsed go back to
\* the queue, as far as there is room; the next is persisted.
Deferred(todo) == IF \E i \in DOMAIN todo : todo[i].due
                  THEN SubSeq(todo, 1, SelectInSeq(todo, IsDue) - 1) ELSE todo

\* Mutant: a batch that is not due yet is dropped from the drained items.
Proceed_DropsDeferred(todo, left) ==
    LET rest == SubSeq(todo, Len(Deferred(todo)) + 1, Len(todo))
    IN  /\ ring' = left
        /\ Keep
        /\ \/ /\ rest = <<>>
              /\ serve' = [Start EXCEPT !.at = IF serve.flush THEN "gone" ELSE "waiting"]
              /\ call' = [call EXCEPT ![Executor] = Idle]
              /\ UNCHANGED <<queue, putting>>
           \/ /\ rest # <<>>
              /\ serve' = [serve EXCEPT !.at = "persisting", !.got = None, !.op = "batch",
                                        !.batch = Head(rest), !.todo = Tail(rest)]
              /\ Submit(Executor, [op |-> "batch", records |-> Head(rest).records])
        /\ UNCHANGED <<accepting, writing, stage, cut, restarts>>

Proceed(todo, left) ==
    LET deferred == Deferred(todo)
        room     == Min({Len(deferred), TelemetryQueueMax - Len(left)})
        rest     == SubSeq(todo, Len(deferred) + 1, Len(todo))
    IN  /\ ring' = left \o SubSeq(deferred, 1, room)
        /\ Drop("overflow", AllRecords(SubSeq(deferred, room + 1, Len(deferred))))
        /\ \/ /\ rest = <<>>
              /\ serve' = [Start EXCEPT !.at = IF serve.flush THEN "gone" ELSE "waiting"]
              /\ call' = [call EXCEPT ![Executor] = Idle]
              /\ UNCHANGED <<queue, putting>>
           \/ /\ rest # <<>>
              /\ serve' = [serve EXCEPT !.at = "persisting", !.got = None, !.op = "batch",
                                        !.batch = Head(rest), !.todo = Tail(rest)]
              /\ Submit(Executor, [op |-> "batch", records |-> Head(rest).records])
        /\ UNCHANGED <<accepting, writing, stage, cut, restarts>>

\* The retries among the items, in their order.
Retries(items) ==
    LET I == {i \in DOMAIN items : IsRetry(items[i])}
        order == CHOOSE f \in [1..Cardinality(I) -> I] : \A j, k \in DOMAIN f : j < k => f[j] < f[k]
    IN  [k \in DOMAIN order |-> items[order[k]]]

\* drain_and_persist(): at most DrainCap items; the single records make one
\* batch, written first, and each RetryableBatch stays one.
DrainAndPersist ==
    LET first == IF serve.got = None THEN <<>> ELSE <<serve.got>>
        n     == Min({Len(ring), DrainCap - Len(first)})
        items == first \o SubSeq(ring, 1, n)
        fresh == UNION {items[i].records : i \in {j \in DOMAIN items : ~IsRetry(items[j])}}
    IN  Proceed((IF fresh = {} THEN <<>> ELSE <<Item(fresh, 0, TRUE)>>) \o Retries(items),
                SubSeq(ring, n + 1, Len(ring)))

----------------------------------------------------------------------------
(* serve() *)

\* The get() task takes an item while serve() is in asyncio.wait().
GetItem ==
    /\ serve.at = "waiting" /\ serve.got = None /\ ring # <<>>
    /\ serve' = [serve EXCEPT !.got = Head(ring)]
    /\ ring' = Tail(ring)
    /\ UNCHANGED <<dbvars, ended, stopping, drops, lost, rows, announced, faults>>

\* asyncio.wait() returns, with an item or after the flush interval; serve()
\* cancels what is pending and waits for it.
Wakes ==
    /\ serve.at = "waiting"
    /\ serve' = [serve EXCEPT !.at = "reaping"]
    /\ UNCHANGED <<dbvars, ended, ring, stopping, drops, lost, rows, announced, faults>>

\* serve() drains; an item taken as the shutdown began goes back on the queue,
\* and one _dropped_overflow stands for it if there is no room.
Reaped ==
    /\ serve.at = "reaping"
    /\ \/ /\ ~stopping
          /\ DrainAndPersist
          /\ UNCHANGED <<ended, stopping, rows, announced, faults>>
       \/ /\ stopping
          /\ serve' = [serve EXCEPT !.at = "flushing", !.got = None, !.flush = TRUE]
          /\ \/ /\ serve.got = None
                /\ Keep /\ UNCHANGED ring
             \/ /\ serve.got # None /\ Len(ring) < TelemetryQueueMax
                /\ ring' = Append(ring, serve.got)
                /\ Keep
             \/ /\ serve.got # None /\ Len(ring) >= TelemetryQueueMax
                /\ lost' = Lost("overflow", serve.got.records)
                /\ drops' = Counted("overflow", 1)
                /\ UNCHANGED ring
          /\ UNCHANGED <<dbvars, ended, stopping, rows, announced, faults>>

\* flush_queue(): everything in one batch, whatever its backoff or retries.  Its
\* except clause, with _dropped_shutdown, is never reached: persist_batch()
\* handles every Exception.
FlushQueue ==
    /\ serve.at = "flushing"
    /\ Proceed(IF ring = <<>> THEN <<>> ELSE <<Item(AllRecords(ring), 0, TRUE)>>, <<>>)
    /\ UNCHANGED <<ended, stopping, rows, announced, faults>>

----------------------------------------------------------------------------
(* persist_batch() *)

Result == call[Executor].result
Back == serve.at = "persisting" /\ call[Executor].at = "back"

\* Mutant: the result of submit() is not awaited.
Persisted_Unawaited ==
    /\ serve.at = "persisting" /\ call[Executor].at # "putting" /\ Result \in {None, "ok"}
    /\ serve' = [serve EXCEPT !.at = "emitting"]
    /\ call' = [call EXCEPT ![Executor] = Idle]
    /\ Keep
    /\ UNCHANGED <<ring, accepting, queue, putting, writing, stage, cut, restarts,
                   ended, stopping, rows, announced, faults>>

\* The batch is in: its completion events follow.  After the fallback they
\* follow only when it has dropped nothing.
Persisted ==
    /\ Back /\ Result = "ok"
    /\ \/ /\ serve.op = "batch" \/ serve.batch.records \cap Orphans = {}
          /\ serve' = [serve EXCEPT !.at = "emitting"]
          /\ call' = [call EXCEPT ![Executor] = Idle]
          /\ Keep
          /\ UNCHANGED <<ring, accepting, queue, putting, writing, stage, cut, restarts>>
       \/ /\ serve.op = "fallback" /\ serve.batch.records \cap Orphans # {}
          /\ serve' = [serve EXCEPT !.at = "dropping"]
          /\ Drop("exhausted", serve.batch.records \cap Orphans)
          /\ UNCHANGED <<dbvars, ring>>
    /\ UNCHANGED <<ended, stopping, rows, announced, faults>>

\* emit_completion_events()
Emit ==
    /\ serve.at = "emitting"
    /\ announced' = announced \cup serve.batch.records
    /\ Proceed(serve.todo, ring)
    /\ UNCHANGED <<ended, stopping, rows, faults>>

\* Nothing more to do for this batch: on to the next.
NextBatch ==
    /\ serve.at = "dropping"
    /\ Proceed(serve.todo, ring)
    /\ UNCHANGED <<ended, stopping, rows, announced, faults>>

\* Mutant: one retry too many.
OperationalError_OneMore ==
    /\ Back /\ Result = "locked" /\ serve.op = "batch"
    /\ \/ /\ serve.batch.retry <= MaxRetries
          /\ serve' = [serve EXCEPT !.at = "yielding"]
          /\ Keep
       \/ /\ serve.batch.retry > MaxRetries
          /\ serve' = [serve EXCEPT !.at = "dropping"]
          /\ Drop("exhausted", serve.batch.records)
    /\ UNCHANGED <<dbvars, ended, ring, stopping, rows, announced, faults>>

\* An OperationalError is retried up to MaxRetries times, then dropped.
OperationalError ==
    /\ Back /\ Result = "locked" /\ serve.op = "batch"
    /\ \/ /\ serve.batch.retry < MaxRetries
          /\ serve' = [serve EXCEPT !.at = "yielding"]
          /\ Keep
       \/ /\ serve.batch.retry >= MaxRetries
          /\ serve' = [serve EXCEPT !.at = "dropping"]
          /\ Drop("exhausted", serve.batch.records)
    /\ UNCHANGED <<dbvars, ended, ring, stopping, rows, announced, faults>>

\* After sleep(0) the batch goes back on the queue, if there is room.
Requeue ==
    /\ serve.at = "yielding"
    /\ serve' = [serve EXCEPT !.at = "dropping"]
    /\ \/ /\ Len(ring) < TelemetryQueueMax
          /\ ring' = Append(ring, Item(serve.batch.records, serve.batch.retry + 1, FALSE))
          /\ Keep
       \/ /\ Len(ring) >= TelemetryQueueMax
          /\ Drop("exhausted", serve.batch.records)
          /\ UNCHANGED ring
    /\ UNCHANGED <<dbvars, ended, stopping, rows, announced, faults>>

\* An IntegrityError starts handle_fk_violation().
IntegrityError ==
    /\ Back /\ Result = "constraint" /\ serve.op = "batch"
    /\ serve' = [serve EXCEPT !.op = "fallback"]
    /\ Submit(Executor, [op |-> "fallback", records |-> serve.batch.records])
    /\ UNCHANGED <<accepting, writing, stage, cut, restarts,
                   ended, ring, stopping, drops, lost, rows, announced, faults>>

\* Mutant: an error of the fallback is not handled.
OtherError_NotFallback ==
    /\ Back /\ serve.op = "batch" /\ Result \in {"broken", "refused"}
    /\ serve' = [serve EXCEPT !.at = "dropping"]
    /\ lost' = Lost("logged", serve.batch.records)
    /\ UNCHANGED <<dbvars, ended, ring, stopping, drops, rows, announced, faults>>

\* Any other error drops the batch, with a log line but no counter; an error of
\* the fallback is counted.
OtherError ==
    /\ Back
    /\ serve' = [serve EXCEPT !.at = "dropping"]
    /\ \/ /\ serve.op = "batch" /\ Result \in {"broken", "refused"}
          /\ lost' = Lost("logged", serve.batch.records)
          /\ UNCHANGED drops
       \/ /\ serve.op = "fallback" /\ Result # "ok"
          /\ Drop("exhausted", serve.batch.records)
    /\ UNCHANGED <<dbvars, ended, ring, stopping, rows, announced, faults>>

----------------------------------------------------------------------------
(* Service.shutdown() *)

\* What a cancelled serve() holds: everything but a write it has submitted,
\* which runs on without it.
Submitted == serve.at = "persisting" /\ call[Executor].at = "waiting"
Held == (IF serve.got = None THEN {} ELSE serve.got.records)
            \cup AllRecords(serve.todo)
            \cup (IF serve.at \in {"persisting", "yielding"} /\ ~Submitted
                  THEN {r \in serve.batch.records : rows[r] = 0} ELSE {})

ServeCancelled ==
    /\ serve' = [Start EXCEPT !.at = "gone"]
    /\ lost' = Lost("cancelled", Held)
    /\ Abandon(Executor)
    /\ UNCHANGED <<accepting, stage, cut, restarts, ended, ring, drops, rows, announced, faults>>

\* shutdown() sets the event and cancels serve() in one go.  While serve() waits
\* for its own pending futures it swallows the cancellation.
Shutdown ==
    /\ ~stopping /\ stopping' = TRUE
    /\ \/ /\ serve.at = "reaping"
          /\ UNCHANGED <<dbvars, ended, ring, serve, drops, lost, rows, announced, faults>>
       \/ /\ serve.at # "reaping"
          /\ ServeCancelled

\* The flush outlasts resource_shutdown_timeout_seconds.
ShutdownTimesOut ==
    /\ stopping /\ serve.flush
    /\ ServeCancelled
    /\ UNCHANGED stopping

----------------------------------------------------------------------------
(* The database's side *)

Unchanged == UNCHANGED <<ended, ring, serve, stopping, drops, announced>>

\* What SQLite answers, faults aside: one stale foreign key fails a batch, and
\* in the fallback only its own row, as the schema forbids the null key too.
Answer(w) == IF w.op = "batch" /\ w.records \cap Orphans # {} THEN "constraint" ELSE "ok"

Inserted(w) == CASE w.op = "batch"    -> w.records
                 [] w.op = "fallback" -> w.records \ Orphans
                 [] w.op = "other"    -> {}

\* Records of a write whose caller is gone, or failed, have nobody left to
\* count them.
WriteEnds ==
    /\ writing # None
    /\ \E result \in {Answer(writing.what), "locked", "broken"} :
        LET w  == writing.what
            in == IF result = "ok" THEN Inserted(w) ELSE {}
        IN  /\ result # Answer(w) => faults < MaxFaults
            /\ faults' = IF result = Answer(w) THEN faults ELSE faults + 1
            /\ Written(result)
            /\ rows' = [r \in Records |-> rows[r] + IF r \in in THEN 1 ELSE 0]
            /\ lost' = IF writing.by = None THEN Lost("cancelled", w.records \ in) ELSE lost
    /\ Unchanged

\* Somebody else's writes.
OtherWrite == [op |-> "other", records |-> {}]
Others == Callers \ {Executor}

OtherSubmits(c) ==
    /\ call[c].at = "idle"
    /\ Submit(c, OtherWrite)
    /\ UNCHANGED <<accepting, writing, stage, cut, restarts, exvars>>

OtherReturns(c) ==
    /\ call[c].at = "back"
    /\ call' = [call EXCEPT ![c] = Idle]
    /\ UNCHANGED <<accepting, queue, putting, writing, stage, cut, restarts, exvars>>

\* record_blocking_event() and the log handler
OtherEnqueues == ~stopping /\ Enqueue(OtherWrite) /\ UNCHANGED exvars

TakeWrite == Take /\ UNCHANGED exvars

\* The watcher restarts a failed database; Hassette's shutdown stops it after
\* the executor, in a later wave.
StopDatabase ==
    /\ stopping \/ restarts < MaxRestarts
    /\ stopping => serve.at = "gone"
    /\ StopAccepting
    /\ UNCHANGED exvars

DatabaseJoined == Joined /\ UNCHANGED exvars

\* A shutdown wave times out while the database drains.
DatabaseCutOff ==
    /\ stopping /\ serve.at = "gone"
    /\ CutOff
    /\ lost' = Lost("cancelled", (UNION {queue[i].what.records : i \in DOMAIN queue})
                                 \cup (IF writing = None THEN {} ELSE writing.what.records))
    /\ UNCHANGED <<ended, ring, serve, stopping, drops, rows, announced, faults>>

DatabaseReopens == ~stopping /\ Reopen /\ UNCHANGED exvars

----------------------------------------------------------------------------

ServeStep == GetItem \/ Reaped \/ FlushQueue \/ Persisted \/ Emit \/ NextBatch
             \/ OperationalError \/ Requeue \/ IntegrityError \/ OtherError

Next ==
    \/ \E r \in Records : Execute(r)
    \/ BackoffElapses
    \/ GetItem \/ Wakes \/ Reaped \/ FlushQueue \/ Persisted \/ Emit \/ NextBatch
    \/ OperationalError \/ Requeue \/ IntegrityError \/ OtherError
    \/ Shutdown \/ ShutdownTimesOut
    \/ WriteEnds \/ TakeWrite \/ OtherEnqueues
    \/ \E c \in Others : OtherSubmits(c) \/ OtherReturns(c)
    \/ StopDatabase \/ DatabaseJoined \/ DatabaseCutOff \/ DatabaseReopens

Spec == Init /\ [][Next]_vars

\* The event loop runs what is ready and timers expire; nothing obliges an
\* execution to end, a shutdown to be asked for or a fault to happen.
FairSpec ==
    /\ Spec
    /\ WF_vars(ServeStep) /\ WF_vars(Wakes) /\ WF_vars(BackoffElapses)
    /\ WF_vars(WriteEnds) /\ WF_vars(TakeWrite)
    /\ WF_vars(DatabaseJoined) /\ WF_vars(DatabaseReopens)

----------------------------------------------------------------------------
(* Properties *)

Reasons == {"overflow", "exhausted", "logged", "cancelled"}
States == {"waiting", "reaping", "flushing", "persisting", "emitting", "dropping", "yielding", "gone"}
ItemOK(item) == item.records # {} /\ item.records \subseteq Records /\ item.retry \in 0..MaxRetries

TypeOK ==
    /\ DbTypeOK
    /\ ended \subseteq Records /\ announced \subseteq Records
    /\ Len(ring) <= TelemetryQueueMax /\ \A i \in DOMAIN ring : ItemOK(ring[i])
    /\ serve.at \in States /\ \A i \in DOMAIN serve.todo : ItemOK(serve.todo[i])
    /\ serve.at = "persisting" => ItemOK(serve.batch)
    /\ \A why \in Reasons : lost[why] \subseteq Records
    /\ \A which \in DOMAIN drops : drops[which] \in Nat
    /\ rows \in [Records -> Nat] /\ faults \in 0..MaxFaults

InDatabase(r) ==
    LET jobs == queue \o putting \o (IF writing = None THEN <<>> ELSE <<writing>>)
    IN  Cardinality({i \in DOMAIN jobs : jobs[i].by = None /\ r \in jobs[i].what.records})

InHand(r) ==
    (IF serve.got # None /\ r \in serve.got.records THEN 1 ELSE 0)
        + Cardinality({i \in DOMAIN serve.todo : r \in serve.todo[i].records})
        + (IF serve.at \in {"persisting", "yielding"} /\ r \in serve.batch.records /\ rows[r] = 0
           THEN 1 ELSE 0)

OnQueue(r) == Cardinality({i \in DOMAIN ring : r \in ring[i].records})

\* The drop counters (get_drop_counters(): "records dropped because ...") say
\* how many records were dropped for their reason; only an item that finds no
\* room when serve() puts it back at shutdown counts as one, however many
\* records it has.
CountersTell ==
    /\ drops.exhausted = Cardinality(lost.exhausted)
    /\ drops.overflow <= Cardinality(lost.overflow)
    /\ ~stopping => drops.overflow = Cardinality(lost.overflow)

\* A completion event is sent only for an execution whose row is written, so
\* whoever reads the table on the event finds it.
AnnouncedHasRow == \A r \in announced : rows[r] = 1

\* The record of an execution that has ended is in one place, once: on the
\* queue, in serve()'s hands, in a write whose caller is gone, in the table, or
\* given up for one reason.  Retries, deferrals, the fallback, cancellations of
\* serve() and restarts of the database neither duplicate nor forget it, the
\* counters tell of those given up and the events of those written.
RecordAccounted ==
    /\ \A r \in Records :
          OnQueue(r) + InHand(r) + InDatabase(r) + rows[r]
              + Cardinality({why \in Reasons : r \in lost[why]})
          = IF r \in ended THEN 1 ELSE 0
    /\ CountersTell /\ AnnouncedHasRow

Settled(r) == rows[r] = 1 \/ \E why \in Reasons : r \in lost[why]

\* While nobody shuts the executor down, every record ends up in the table or
\* dropped: no batch stays on the queue, in a retry or in a submit() for ever,
\* however the database fails, is restarted, or is full of other writes.
\* (A settled record stays so and there are finitely many, so "again and again
\* none is pending" says it of each.)
RecordSettles == []<>(stopping \/ \A r \in ended : Settled(r))
=============================================================================
