----------------------------- MODULE StateProxy -----------------------------
(***************************************************************************)
(* core/state_proxy.py on top of WebsocketService: the cache of Home       *)
(* Assistant's states, fed by state-changed events, and the coordinator    *)
(* that keeps it synchronized across connects, disconnects, polls and      *)
(* retries.                                                                *)
(*                                                                         *)
(* Neither of the proxy's locks is held across a suspension, so a critical *)
(* section is part of the action that runs it.  The suspensions kept are   *)
(* the first step of a spawned task, the get_states request, the awaits of *)
(* a synchronization by its requesters, the retry's sleep and the gathers  *)
(* of on_disconnect().                                                     *)
(***************************************************************************)
EXTENDS WebsocketService, FiniteSets

CONSTANTS
    Syncs,      \* names for the synchronization tasks alive at a time
    Retries     \* names for the retry tasks alive at a time

ASSUME StateProxyAssumption ==
    /\ IsFiniteSet(Syncs) /\ IsFiniteSet(Retries)
    /\ None \notin Syncs \cup Retries \cup {"serve", "boot", "poll"}
    /\ Retries \cap {"serve", "boot", "poll"} = {}

Callers == {"serve", "boot", "poll"} \cup Retries

VARIABLES
    wired,      \* on_initialize() has subscribed the proxy
    states,     \* the published cache: last_updated by entity
    fresh,      \* _cache_freshness
    kept,       \* _maintained_generation
    cap,        \* _initial_state_capability_event
    sync,       \* the coordinator's bookkeeping, see NoSync
    task,       \* the synchronization tasks
    caller,     \* who asks for synchronizations: serve(), bootstrap, poll, retries
    leaving,    \* where serve() goes after on_disconnect()
    fails       \* failed requests so far

cache == <<states, fresh, kept, cap>>
vars  == <<wsvars, wired, cache, sync, task, caller, leaving, fails>>

----------------------------------------------------------------------------
\* _sync_task, _sync_generation, _synchronization_status,
\* _pending_reconnect_generation, _active_sync, _retry_task, _retry_generation.
NoSync == [cur |-> None, gen |-> None, status |-> "IDLE", pending |-> None,
           active |-> None, journal |-> <<>>, retry |-> None, retryGen |-> None]

NoTask == [at |-> "free", gen |-> None, status |-> "IDLE", base |-> None,
           got |-> None, cancelled |-> FALSE]

\* A requester: what it awaits, the generation it asks for now and the one it
\* was called with, and whether it looks again after the awaited task.
Rest == [at |-> "idle", on |-> None, gen |-> None, own |-> None, cause |-> "signal", again |-> FALSE]

Init ==
    /\ WsInit
    /\ wired = FALSE
    /\ states = ha
    /\ fresh = "UNAVAILABLE" /\ kept = None /\ cap = FALSE
    /\ sync = NoSync
    /\ task = [k \in Syncs |-> NoTask]
    /\ caller = [c \in Callers |-> Rest]
    /\ leaving = "connecting"
    /\ fails = 0

----------------------------------------------------------------------------
(* Requests *)

\* _needs_connected_synchronization()
NeedsSync(g) == ~cap \/ kept # g \/ fresh # "FRESH"

\* _determine_connected_sync_status()
StatusFor(g, cause) ==
    CASE ~cap -> "INITIAL"
      [] cap /\ (kept # g \/ fresh # "FRESH") -> "RECONNECT"
      [] OTHER -> IF cause = "retry" THEN "POLL" ELSE "RECONNECT"

\* _cancel_retry_task_locked(); a cancelled retry is asleep and ends.
RetryCancelled(s) == [s EXCEPT !.retry = None, !.retryGen = None]

WithoutRetry(s) == IF s.retry = None THEN caller ELSE [caller EXCEPT ![s.retry] = Rest]

Superseded(s, g) == s.retryGen # None /\ s.retryGen # g

\* _start_sync_task() by caller c, who awaits the task.
StartSync(c, g, cause, status, s, callers) ==
    \E k \in {i \in Syncs : task[i].at = "free"} :
        /\ task' = [task EXCEPT ![k] = [NoTask EXCEPT !.at = "spawned", !.gen = g, !.status = status]]
        /\ sync' = [s EXCEPT !.cur = k, !.gen = g, !.status = status]
        /\ caller' = [callers EXCEPT ![c] = [@ EXCEPT !.at = "awaits", !.on = k, !.gen = g,
                                                      !.cause = cause, !.again = FALSE]]

\* _run_retry_after_delay() after its request.
Forgotten(c, s) ==
    IF c \in Retries /\ s.retryGen = caller[c].own /\ s.retry = None
    THEN [s EXCEPT !.retryGen = None] ELSE s

\* One round of _request_connected_synchronization(): wait for the task in
\* flight, start one, or find that none is needed.
RequestSync(c, g, cause, before) ==
    LET stale   == Superseded(before, g)
        s       == IF stale THEN RetryCancelled(before) ELSE before
        callers == IF stale THEN WithoutRetry(before) ELSE caller
        want    == IF s.pending = None THEN g ELSE s.pending
        again   == s.status = "POLL" \/ (s.gen # None /\ s.gen # g)
    IN  \/ /\ s.cur # None
           /\ sync' = IF again THEN [s EXCEPT !.pending = g] ELSE s
           /\ caller' = [callers EXCEPT ![c] = [@ EXCEPT !.at = "awaits", !.on = s.cur, !.gen = g,
                                                         !.cause = cause, !.again = again]]
           /\ UNCHANGED task
        \/ /\ s.cur = None /\ NeedsSync(want)
           /\ StartSync(c, want, cause, StatusFor(want, cause), [s EXCEPT !.pending = None], callers)
        \/ /\ s.cur = None /\ ~NeedsSync(want)
           /\ sync' = Forgotten(c, [s EXCEPT !.pending = IF @ = want THEN None ELSE @])
           /\ caller' = [callers EXCEPT ![c] = Rest]
           /\ UNCHANGED task

\* The task a requester awaited is done.
Resume(c) ==
    /\ caller[c].at = "woken"
    /\ IF caller[c].again
       THEN RequestSync(c, caller[c].gen, caller[c].cause, sync)
       ELSE /\ sync' = Forgotten(c, sync)
            /\ caller' = [caller EXCEPT ![c] = Rest]
            /\ UNCHANGED task
    /\ UNCHANGED <<wsvars, wired, cache, leaving, fails>>

----------------------------------------------------------------------------
(* Who requests *)

\* on_initialize(): subscriptions and observers, then the bootstrap task.
Wire ==
    /\ ~wired
    /\ wired' = TRUE
    /\ caller' = [caller EXCEPT !["boot"].at = "spawned"]
    /\ UNCHANGED <<wsvars, cache, sync, task, leaving, fails>>

\* _bootstrap_initial_sync(): a connection, a failed attempt or a timeout.
Bootstrap ==
    /\ caller["boot"].at = "spawned"
    /\ IF gen # None
       THEN RequestSync("boot", gen, "signal", sync)
       ELSE /\ caller' = [caller EXCEPT !["boot"] = Rest]
            /\ UNCHANGED <<sync, task>>
    /\ UNCHANGED <<wsvars, wired, cache, leaving, fails>>

\* serve() goes on from the readiness event to its connected observers, with
\* the generation as it is now.
Announced ==
    /\ pc = "announcing"
    /\ pc' = "notifying"
    /\ signal' = TRUE
    /\ IF wired THEN RequestSync("serve", gen, "signal", sync)
                ELSE UNCHANGED <<sync, task, caller>>
    /\ UNCHANGED <<conn, gen, seq, link, hass, bus, wired, cache, leaving, fails>>

\* The observers returned; serve() awaits the receive task.
Notified ==
    /\ pc = "notifying" /\ caller["serve"].at = "idle"
    /\ pc' = "serving"
    /\ UNCHANGED <<conn, gen, seq, link, signal, hass, bus, wired, cache, sync, task, caller, leaving, fails>>

\* load_cache() and _request_poll_synchronization(), mode "single".
Poll ==
    /\ env.polling /\ wired /\ gen # None
    /\ caller["poll"].at = "idle"
    /\ LET stale == Superseded(sync, gen)
           s     == IF stale THEN RetryCancelled(sync) ELSE sync
           callers == IF stale THEN WithoutRetry(sync) ELSE caller
       IN  \/ /\ s.cur # None
              /\ sync' = s /\ caller' = callers
              /\ UNCHANGED task
           \/ /\ s.cur = None
              /\ StartSync("poll", gen, "retry",
                           IF NeedsSync(gen) THEN StatusFor(gen, "retry") ELSE "POLL", s, callers)
    /\ UNCHANGED <<wsvars, wired, cache, leaving, fails>>

\* The sleep of a retry is over; it has outlasted the requesters that were
\* ready to resume.
RetryWakes(c) ==
    /\ caller[c].at = "asleep"
    /\ \A d \in Callers : caller[d].at # "woken"
    /\ RequestSync(c, caller[c].own, "retry", [sync EXCEPT !.retry = IF @ = c THEN None ELSE @])
    /\ UNCHANGED <<wsvars, wired, cache, leaving, fails>>

----------------------------------------------------------------------------
(* A synchronization *)

\* _begin_synchronization() and the get_states request, which raises unless
\* there is a connection to send it on.
Begin(k) ==
    /\ task[k].at = "spawned" /\ ~task[k].cancelled
    /\ task' = [task EXCEPT ![k].at = IF recv = "running" THEN "fetching" ELSE "broken",
                            ![k].base = states]
    /\ sync' = [sync EXCEPT !.active = k, !.journal = <<>>]
    /\ UNCHANGED <<wsvars, wired, cache, caller, leaving, fails>>

\* Home Assistant answers with its states, behind the events it has sent.
Answers(k) ==
    /\ task[k].at = "fetching" /\ recv = "running"
    /\ task' = [task EXCEPT ![k].at = "answered"]
    /\ wire' = Append(wire, [kind |-> "states", task |-> k, states |-> ha])
    /\ UNCHANGED <<conn, gen, seq, pc, recv, acked, subscribed, signal, hass, bus,
                   wired, cache, sync, caller, leaving, fails>>

\* The response future is resolved, unless its request is gone.
RecvStates ==
    /\ recv = "running" /\ wire # <<>> /\ Head(wire).kind = "states"
    /\ LET k == Head(wire).task IN
       task' = IF task[k].at = "answered" THEN [task EXCEPT ![k].at = "done", ![k].got = Head(wire).states]
                                          ELSE task
    /\ wire' = Tail(wire)
    /\ UNCHANGED <<conn, gen, seq, pc, recv, acked, subscribed, signal, hass, bus,
                   wired, cache, sync, caller, leaving, fails>>

\* _is_older_or_equal_state() of what is held against what is new.
HeldIsNewer(held, new) == held # None /\ new <= held

\* _build_candidate_states()
Candidate(base, got) ==
    [e \in Entities |-> IF got[e] # None /\ HeldIsNewer(base[e], got[e]) THEN base[e] ELSE got[e]]

\* Mutant: the journal is dropped.
Replayed_Not(f, journal) == f

\* The journal replayed over the candidate.
Replayed(f, journal) ==
    LET last(e) == {i \in 1..Len(journal) : journal[i].entity = e} IN
    [e \in Entities |-> IF last(e) = {} THEN f[e]
                        ELSE journal[CHOOSE i \in last(e) : \A j \in last(e) : j <= i].state]

\* _finish_synchronization(), and the end of the task for those who await it.
Finished(k, s) ==
    LET t == IF s.active = k THEN [s EXCEPT !.active = None, !.journal = <<>>] ELSE s
    IN  IF t.cur = k THEN [t EXCEPT !.cur = None, !.gen = None, !.status = "IDLE"] ELSE t

Awoken(k, callers) ==
    [c \in Callers |-> IF callers[c].at = "awaits" /\ callers[c].on = k
                       THEN [callers[c] EXCEPT !.at = "woken", !.on = None] ELSE callers[c]]

\* A task that awaits a cancelled one is cancelled with it.
Cancelled(k) ==
    [c \in Callers |-> IF caller[c].at = "awaits" /\ caller[c].on = k THEN Rest ELSE caller[c]]

\* Mutant: the connection's generation is not checked.
MayCommit_AnyConnection(k) == sync.active = k

\* The two checks of _commit_candidate_states().
MayCommit(k) == sync.active = k /\ gen = task[k].gen

\* _commit_candidate_states(), committed or abandoned, and the end of the task.
Commit(k) ==
    /\ task[k].at = "done" /\ ~task[k].cancelled
    /\ IF MayCommit(k)
       THEN /\ states' = Replayed(Candidate(task[k].base, task[k].got), sync.journal)
            /\ fresh' = "FRESH"
            /\ kept' = task[k].gen
            /\ cap' = (cap \/ task[k].status = "INITIAL")
       ELSE UNCHANGED cache
    /\ sync' = Finished(k, sync)
    /\ task' = [task EXCEPT ![k] = NoTask]
    /\ caller' = Awoken(k, caller)
    /\ UNCHANGED <<wsvars, wired, leaving, fails>>

Downgraded == IF cap THEN "STALE" ELSE "UNAVAILABLE"

\* Mutant: a failure is left to a poll that may not be there.
RetryScheduled_Never(g, s, callers) == sync' = s /\ caller' = callers

\* _schedule_retry(), called by a synchronization task.
RetryScheduled(g, s, callers) ==
    IF s.retryGen = g /\ s.retry # None
    THEN sync' = s /\ caller' = callers
    ELSE LET c == CHOOSE i \in Retries : callers[i].at = "idle"
             old == IF s.retry = None THEN callers ELSE [callers EXCEPT ![s.retry] = Rest]
         IN  /\ \E i \in Retries : callers[i].at = "idle"
             /\ sync' = [s EXCEPT !.retry = c, !.retryGen = g]
             /\ caller' = [old EXCEPT ![c] = [Rest EXCEPT !.at = "asleep", !.own = g]]

\* get_states_raw() raised: an error reply, or a connection that is gone.
\* _handle_synchronization_failure() and the end of the task.
Fails(k) ==
    /\ task[k].at \in {"fetching", "answered", "broken"} /\ ~task[k].cancelled
    /\ IF recv = "running" /\ task[k].at # "broken"
       THEN task[k].at = "fetching" /\ fails < env.fails /\ fails' = fails + 1
       ELSE UNCHANGED fails
    /\ IF gen # task[k].gen
       THEN sync' = Finished(k, sync) /\ caller' = Awoken(k, caller) /\ UNCHANGED cache
       ELSE /\ fresh' = Downgraded
            /\ UNCHANGED <<states, kept, cap>>
            /\ IF env.polling
               THEN sync' = Finished(k, sync) /\ caller' = Awoken(k, caller)
               ELSE RetryScheduled(task[k].gen, Finished(k, sync), Awoken(k, caller))
    /\ task' = [task EXCEPT ![k] = NoTask]
    /\ UNCHANGED <<wsvars, wired, leaving>>

\* The cancelled task unwinds; on_disconnect() has detached it already.
Unwinds(k) ==
    /\ task[k].cancelled
    /\ sync' = Finished(k, sync)
    /\ task' = [task EXCEPT ![k] = NoTask]
    /\ caller' = Cancelled(k)
    /\ UNCHANGED <<wsvars, wired, cache, leaving, fails>>

----------------------------------------------------------------------------
(* State-changed events *)

\* The generation check of on_state_change().
Obsolete(event) ==
    LET reference == IF gen # None THEN gen ELSE kept
    IN  event.gen # None /\ reference # None /\ event.gen # reference

Outdated(event) == event.state # None /\ HeldIsNewer(states[event.entity], event.state)

\* _append_journal_operation()
Journalled(event) ==
    LET g == IF event.gen = None THEN gen ELSE event.gen IN
    IF sync.active # None /\ g # None /\ task[sync.active].gen = g
    THEN [sync EXCEPT !.journal = Append(@, [entity |-> event.entity, state |-> event.state])]
    ELSE sync

\* on_state_change(), run in the order the events were received.
OnStateChange ==
    /\ bus # <<>>
    /\ bus' = Tail(bus)
    /\ LET event == Head(bus) IN
       IF ~wired \/ Obsolete(event) \/ Outdated(event)
       THEN UNCHANGED <<states, sync>>
       ELSE /\ states' = [states EXCEPT ![event.entity] = event.state]
            /\ sync' = Journalled(event)
    /\ UNCHANGED <<conn, gen, seq, pc, link, signal, hass, wired, fresh, kept, cap,
                   task, caller, leaving, fails>>

----------------------------------------------------------------------------
(* Disconnection, in serve() *)

\* partial_cleanup() fails the requests that await a response.
Broken(tasks) ==
    [k \in Syncs |-> IF tasks[k].at \in {"fetching", "answered"} THEN [tasks[k] EXCEPT !.at = "broken"]
                     ELSE tasks[k]]

\* make_connection()'s failed attempts, the requests included.
Retried ==
    /\ AttemptFails
    /\ task' = Broken(task)
    /\ UNCHANGED <<wired, cache, sync, caller, leaving, fails>>

\* on_disconnect() ends, the connection-lost event is sent, and
\* partial_cleanup() leads to the next attempt or to the end of serve().
Stale(to) ==
    /\ fresh' = Downgraded
    /\ pc' = to
    /\ signal' = FALSE
    /\ Cleanup
    /\ task' = Broken(task)
    /\ UNCHANGED <<states, kept, cap>>

Gone == [sync EXCEPT !.cur = None, !.gen = None, !.status = "IDLE", !.pending = None, !.active = None,
                     !.journal = <<>>, !.retry = None, !.retryGen = None]

\* Mutant: the task in flight is left running.
Detach_NoCancel(to) ==
    /\ sync' = Gone
    /\ Stale(to)

\* _detach_active_sync_task(), the cancellation, and what follows if there is
\* no task to wait for.
Detach(to) ==
    /\ sync' = Gone
    /\ IF sync.cur # None
       THEN /\ task' = [task EXCEPT ![sync.cur].cancelled = TRUE]
            /\ pc' = "unwinding"
            /\ UNCHANGED <<link, signal, cache>>
       ELSE Stale(to)

\* serve() finds the receive task dead: handle_early_drop() goes on to a new
\* attempt, handle_genuine_failure() ends serve().  Which one depends on times
\* and counts.  The retry task is cancelled first and awaited.
Dropped ==
    /\ pc = "serving" /\ recv = "dead"
    /\ \/ leaving' = "connecting" /\ Lose("CONNECTING")
       \/ leaving' = "stopped" /\ Lose("DISCONNECTED")
    /\ IF ~wired
       THEN /\ pc' = leaving' /\ signal' = FALSE /\ Cleanup
            /\ UNCHANGED <<sync, task, caller, cache>>
       ELSE IF sync.retry # None
       THEN /\ pc' = "cancelling"
            /\ sync' = RetryCancelled(sync)
            /\ caller' = WithoutRetry(sync)
            /\ UNCHANGED <<link, signal, task, cache>>
       ELSE Detach(leaving') /\ UNCHANGED caller
    /\ UNCHANGED <<seq, hass, bus, wired, fails>>

RetryGone ==
    /\ pc = "cancelling"
    /\ Detach(leaving)
    /\ UNCHANGED <<conn, gen, seq, hass, bus, wired, caller, leaving, fails>>

SyncGone ==
    /\ pc = "unwinding"
    /\ \A k \in Syncs : ~task[k].cancelled
    /\ Stale(leaving)
    /\ UNCHANGED <<conn, gen, seq, hass, bus, wired, sync, caller, leaving, fails>>

----------------------------------------------------------------------------
proxy == <<wired, cache, sync, task, caller, leaving, fails>>

SyncStep(k) == Begin(k) \/ Commit(k) \/ Fails(k) \/ Unwinds(k)

Next ==
    \/ WsNext /\ UNCHANGED proxy
    \/ Retried
    \/ Wire \/ Bootstrap \/ Announced \/ Notified \/ Poll \/ OnStateChange \/ RecvStates
    \/ Dropped \/ RetryGone \/ SyncGone
    \/ \E c \in Callers : Resume(c)
    \/ \E c \in Retries : RetryWakes(c)
    \/ \E k \in Syncs : SyncStep(k) \/ Answers(k)

\* The event loop runs what can run, a live connection delivers and answers,
\* and sleeps and poll intervals end.
Fairness ==
    /\ WF_vars(Wire) /\ WF_vars(Bootstrap) /\ WF_vars(Announced) /\ WF_vars(Notified)
    /\ WF_vars(RecvStates) /\ WF_vars((RecvEvent \/ RecvAck) /\ UNCHANGED proxy)
    /\ WF_vars(OnStateChange) /\ WF_vars(Poll)
    /\ WF_vars(Dropped) /\ WF_vars(RetryGone) /\ WF_vars(SyncGone)
    /\ \A c \in Callers : WF_vars(Resume(c))
    /\ \A c \in Retries : WF_vars(RetryWakes(c))
    /\ \A k \in Syncs : WF_vars(Answers(k)) /\ WF_vars(SyncStep(k))

Spec == Init /\ [][Next]_vars
FairSpec == Spec /\ Fairness

----------------------------------------------------------------------------
(* Properties *)

TypeOK ==
    /\ conn \in {"DISCONNECTED", "CONNECTING", "CONNECTED"}
    /\ gen \in Gens \cup {None} /\ (gen = None) = (conn # "CONNECTED")
    /\ states \in [Entities -> Versions \cup {None}]
    /\ fresh \in {"UNAVAILABLE", "FRESH", "STALE"}
    /\ kept \in Gens \cup {None}
    /\ sync.cur \in Syncs \cup {None} /\ sync.active \in Syncs \cup {None}
    /\ sync.status \in {"IDLE", "INITIAL", "RECONNECT", "POLL"}
    /\ sync.pending \in Gens \cup {None} /\ sync.retryGen \in Gens \cup {None}
    /\ \A k \in Syncs : task[k].at \in {"free", "spawned", "fetching", "answered", "broken", "done"}
    /\ \A c \in Callers : caller[c].at \in {"idle", "spawned", "asleep", "awaits", "woken"}

\* At most one synchronization that was not cancelled is alive, it is the one
\* the coordinator tracks, and the status says so.
TaskTracked ==
    /\ \A k \in Syncs : task[k].at # "free" /\ ~task[k].cancelled => sync.cur = k
    /\ sync.cur # None => task[sync.cur].at # "free"
    /\ sync.status = "IDLE" <=> sync.cur = None

\* At most one retry sleeps, and the coordinator knows it.
RetryTracked == \A c \in Retries : caller[c].at = "asleep" => sync.retry = c

\* "rather than starting a second concurrent synchronization": the coordinator
\* has the one synchronization and the one retry there are, so the next request
\* can join the one and cancel the other.
OneSynchronization == TaskTracked /\ RetryTracked

\* A synchronization is committed only while its own connection is ready.
CommitsOnlyConnected ==
    [][kept' # kept \/ cap' # cap \/ (fresh # "FRESH" /\ fresh' = "FRESH")
        => gen # None /\ kept' = gen]_vars

\* No frame, event or answer is on its way to the cache.
Settled == wire = <<>> /\ bus = <<>> /\ sync.cur = None

\* A cache that calls itself fresh for the ready connection is Home
\* Assistant's state once everything under way has been applied: "no update
\* racing the bulk fetch is lost" (StateProxy).  So it is as long as the bus has
\* delivered a connection's events before the next connection is opened.
FreshMatches ==
    ~env.backlog /\ Settled /\ gen # None /\ subscribed /\ kept = gen /\ fresh = "FRESH"
        => states = ha

\* While a connection stays ready, the cache becomes fresh for it: through the
\* observers, the bootstrap, the poll or a retry.
BecomesFresh ==
    gen # None ~> gen = None \/ (fresh = "FRESH" /\ kept = gen)
=============================================================================
