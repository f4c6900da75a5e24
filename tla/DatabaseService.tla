-------------------------- MODULE DatabaseService --------------------------
(***************************************************************************)
(* core/database_service.py: the single-writer queue in front of SQLite.   *)
(* submit() puts a write on a bounded queue and waits for its result,      *)
(* enqueue() puts one without waiting and drops it when the queue is full, *)
(* db_write_worker() runs the writes one at a time, and on_shutdown()      *)
(* refuses new writes, waits for the ones it has accepted and closes the   *)
(* connections.  The service watcher restarts the service after failed     *)
(* heartbeats; Hassette's shutdown stops it for good and may cut its       *)
(* on_shutdown() off.                                                      *)
(***************************************************************************)
EXTENDS Naturals, Sequences, SequencesExt

CONSTANTS
    Callers,        \* coroutines that call submit()
    Writes,         \* what a write does, opaque here
    None,           \* no caller, no write
    WriteQueueMax,  \* config.database.write_queue_max
    MaxRestarts     \* bound: restarts of the service

ASSUME DatabaseAssumption ==
    /\ WriteQueueMax \in Nat \ {0}
    /\ MaxRestarts \in Nat
    /\ None \notin Callers \cup Writes

VARIABLES
    accepting,  \* _db_write_queue is set
    queue,      \* the write queue: [by, what], by = None when nobody waits
    putting,    \* callers suspended in put() on a full queue
    writing,    \* the write the worker runs
    call,       \* where each caller is in submit(), and what it got
    stage,      \* "up", "joining" in on_shutdown(), "closed"
    cut,        \* on_shutdown() was cancelled before the queue was empty
    restarts

dbvars == <<accepting, queue, putting, writing, call, stage, cut, restarts>>

Jobs == [by : Callers \cup {None}, what : Writes]
Results == {"ok", "locked", "constraint", "broken", "refused", "cancelled"}
Idle == [at |-> "idle", result |-> None]

DbInit ==
    /\ accepting = TRUE
    /\ queue = <<>> /\ putting = <<>> /\ writing = None
    /\ call = [c \in Callers |-> Idle]
    /\ stage = "up" /\ cut = FALSE /\ restarts = 0

----------------------------------------------------------------------------
(* submit() and enqueue() *)

Called(c, at, result) == [call EXCEPT ![c] = [at |-> at, result |-> result]]

Submit(c, w) ==
    LET job == [by |-> c, what |-> w] IN
    \/ /\ ~accepting
       /\ call' = Called(c, "back", "refused")
       /\ UNCHANGED <<queue, putting>>
    \/ /\ accepting /\ Len(queue) < WriteQueueMax
       /\ queue' = Append(queue, job)
       /\ call' = Called(c, "waiting", None)
       /\ UNCHANGED putting
    \/ /\ accepting /\ Len(queue) >= WriteQueueMax
       /\ putting' = Append(putting, job)
       /\ call' = Called(c, "putting", None)
       /\ UNCHANGED queue

\* enqueue(): dropped when the queue is full, an error when it is not there.
Enqueue(w) ==
    /\ queue' = IF accepting /\ Len(queue) < WriteQueueMax
                THEN Append(queue, [by |-> None, what |-> w]) ELSE queue
    /\ UNCHANGED <<accepting, putting, writing, call, stage, cut, restarts>>

\* The caller is cancelled inside submit(): a write not yet on the queue is
\* closed, one that is stays there without anybody to tell.
Unowned(c, job) == IF job.by = c THEN [job EXCEPT !.by = None] ELSE job
Abandon(c) ==
    /\ \/ /\ call[c].at = "putting"
          /\ \E i \in DOMAIN putting : putting[i].by = c /\ putting' = RemoveAt(putting, i)
       \/ /\ call[c].at # "putting"
          /\ UNCHANGED putting
    /\ queue' = [i \in DOMAIN queue |-> Unowned(c, queue[i])]
    /\ writing' = IF writing = None THEN None ELSE Unowned(c, writing)
    /\ call' = [call EXCEPT ![c] = Idle]

----------------------------------------------------------------------------
(* db_write_worker() *)

\* get() frees a slot and wakes a suspended put(), which runs long before the
\* write it made room for by being taken has ended.
Take ==
    /\ writing = None /\ queue # <<>>
    /\ writing' = Head(queue)
    /\ \/ /\ putting = <<>>
          /\ queue' = Tail(queue)
          /\ UNCHANGED <<putting, call>>
       \/ /\ putting # <<>>
          /\ queue' = Append(Tail(queue), Head(putting))
          /\ putting' = Tail(putting)
          /\ call' = Called(Head(putting).by, "waiting", None)
    /\ UNCHANGED <<accepting, stage, cut, restarts>>

\* The write ends with the given result, delivered to whoever waits for it.
Written(result) ==
    /\ writing # None
    /\ writing' = None
    /\ call' = IF writing.by = None THEN call ELSE Called(writing.by, "back", result)
    /\ UNCHANGED <<accepting, queue, putting, stage, cut, restarts>>

----------------------------------------------------------------------------
(* on_shutdown() and on_initialize() *)

StopAccepting ==
    /\ stage = "up"
    /\ stage' = "joining" /\ accepting' = FALSE
    /\ UNCHANGED <<queue, putting, writing, call, cut, restarts>>

Unfinished == queue # <<>> \/ writing # None

\* Mutant: the worker is cancelled without waiting for the write it runs.
Joined_QueueOnly ==
    /\ stage = "joining" /\ queue = <<>>
    /\ stage' = "closed"
    /\ UNCHANGED <<accepting, queue, putting, writing, call, cut, restarts>>

\* join() returns, the worker is cancelled and the connections are closed.
Joined ==
    /\ stage = "joining" /\ ~Unfinished
    /\ stage' = "closed"
    /\ UNCHANGED <<accepting, queue, putting, writing, call, cut, restarts>>

\* on_shutdown() itself is cancelled while it joins: the write being run dies
\* with the worker and nobody is told, the queued ones are closed and their
\* callers cancelled.
CutOff ==
    /\ stage = "joining" /\ Unfinished
    /\ stage' = "closed" /\ cut' = TRUE
    /\ writing' = None /\ queue' = <<>>
    /\ call' = [c \in Callers |-> IF \E i \in DOMAIN queue : queue[i].by = c
                                  THEN [at |-> "back", result |-> "cancelled"] ELSE call[c]]
    /\ UNCHANGED <<accepting, putting, restarts>>

\* A restarted service opens its connections and a new queue.
Reopen ==
    /\ stage = "closed" /\ ~cut /\ restarts < MaxRestarts
    /\ stage' = "up" /\ accepting' = TRUE
    /\ restarts' = restarts + 1
    /\ UNCHANGED <<queue, putting, writing, call, cut>>

----------------------------------------------------------------------------
(* The service alone, with callers that may write anything at any time *)

CallerStep(c) ==
    \/ /\ call[c].at \in {"idle", "back"}
       /\ \E w \in Writes : Submit(c, w)
       /\ UNCHANGED <<accepting, writing, stage, cut, restarts>>
    \/ /\ call[c].at = "back"
       /\ call' = [call EXCEPT ![c] = Idle]
       /\ UNCHANGED <<accepting, queue, putting, writing, stage, cut, restarts>>
    \/ /\ call[c].at \in {"putting", "waiting"}
       /\ Abandon(c)
       /\ UNCHANGED <<accepting, stage, cut, restarts>>

DbNext ==
    \/ \E c \in Callers : CallerStep(c)
    \/ \E w \in Writes : Enqueue(w)
    \/ Take
    \/ \E result \in Results : Written(result)
    \/ StopAccepting \/ Joined \/ CutOff \/ Reopen

DbSpec == DbInit /\ [][DbNext]_dbvars

----------------------------------------------------------------------------

DbTypeOK ==
    /\ accepting \in BOOLEAN /\ cut \in BOOLEAN /\ restarts \in Nat
    /\ queue \in Seq(Jobs) /\ Len(queue) <= WriteQueueMax
    /\ putting \in Seq([by : Callers, what : Writes])
    /\ writing \in Jobs \cup {None}
    /\ call \in [Callers -> [at : {"idle", "putting", "waiting", "back"},
                             result : Results \cup {None}]]
    /\ stage \in {"up", "joining", "closed"}

\* When the connections are closed (on_shutdown(), "drain the write queue,
\* cancel the worker, then close the database connection") every write that
\* was accepted has ended: none is queued, none is being run, and unless the
\* drain was cut off no submit() is still suspended on the replaced queue.
NothingAfterClose ==
    stage = "closed" => /\ queue = <<>> /\ writing = None
                        /\ cut \/ putting = <<>>

\* Why: a caller suspended in put() has a full queue in front of it, so the
\* write that will make room for it is there and join() waits for both; and
\* nothing is put once the queue was taken away.
PutMeansFull ==
    /\ accepting <=> stage = "up"
    /\ cut => stage = "closed"
    /\ putting # <<>> => cut \/ Len(queue) = WriteQueueMax
=============================================================================
