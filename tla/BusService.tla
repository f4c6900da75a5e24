------------------------------ MODULE BusService ------------------------------
(***************************************************************************)
(* core/bus_service.py with bus/bus.py, bus/duration_hold.py,              *)
(* bus/duration_timer.py, bus/rate_limiter.py and bus/router.py:           *)
(* registration and removal of listeners, the dispatch loop and its slots, *)
(* once, immediate, duration, debounced and throttled listeners, for one   *)
(* app and the state_changed events of one entity.                         *)
(*                                                                         *)
(* An action is what one task does between two suspension points.  The     *)
(* event loop runs the tasks it was given first in, first out (ready);     *)
(* handlers, timers and database writes take any time.  StateProxy is one  *)
(* more listener, the last each event is given to; the overlap guard is    *)
(* ExecutionModeGuard, here a listener is parallel or single.              *)
(***************************************************************************)
EXTENDS Integers, Sequences, FiniteSets, SequencesExt

CONSTANTS
    Listeners,   \* Listener objects the app registers
    Names,       \* natural keys: name and topic
    NameOf,      \* the name of each listener
    Scenarios,   \* see Scenario
    None

States == {"off", "on", "other"}
Via == {"slot", "now", "timer", "late"}   \* what started a handler: late, a debounce task

\* What may happen in a behaviour: the kind of each listener, the calls the
\* app makes, the dispatch slots, how often the entity changes, and whether
\* the database may refuse a registration.
Scenario ==
    [once : SUBSET Listeners, held : SUBSET Listeners, immediate : SUBSET Listeners,
     parallel : SUBSET Listeners, dropping : SUBSET Listeners, fromOff : SUBSET Listeners,
     debounced : SUBSET Listeners, throttled : SUBSET Listeners,
     registered : SUBSET Listeners, calls : SUBSET {"replace", "cancel", "stop"},
     slots : Nat \ {0}, events : Nat, dbFails : BOOLEAN]

\* A listener that drops events and starts its timer at once is not among the
\* scenarios' listeners: the hold of such a listener is broken by a drop.
ASSUME BusAssumption ==
    /\ IsFiniteSet(Listeners) /\ NameOf \in [Listeners -> Names]
    /\ \A s \in Scenarios : /\ s \in Scenario
                            /\ s.held \cap s.immediate \cap s.dropping = {}
                            /\ s.fromOff \cap s.immediate = {}
                            /\ s.debounced \cap s.throttled = {}
                            /\ (s.once \cup s.held) \cap (s.debounced \cup s.throttled) = {}
    /\ None \notin Listeners \cup Names

VARIABLES
    app,      \* the behaviour's scenario
    home,     \* the entity's state in Home Assistant
    sent,     \* number of its changes so far
    stream,   \* events the dispatch loop has not received
    cache,    \* the entity's state in StateProxy
    adding,   \* listeners whose registration awaits the database, in its order
    subs,     \* listeners whose Subscription the app holds
    gone,     \* listeners the app has given up: cancelled, replaced, stopped, refused
    bus,      \* the event loop's state, see Init
    ran       \* listeners whose handler has been started

vars == <<app, home, sent, stream, cache, adding, subs, gone, bus, ran>>

Task(kind, l, e) == [kind |-> kind, l |-> l, e |-> e]

Init ==
    /\ app \in Scenarios
    /\ home = "off" /\ sent = 0 /\ stream = <<>> /\ cache = "off"
    /\ adding = <<>> /\ subs = {} /\ gone = {} /\ ran = {}
    /\ bus = [keys |-> [n \in Names |-> None],         \* Bus._registered_listeners
              routes |-> <<>>,                         \* the topic's bucket of the Router
              cancelled |-> {}, fired |-> {},          \* flags of the listeners
              timer |-> [l \in Listeners |-> "none"],  \* DurationTimer: its sleeping task
              left |-> {},                             \* held listeners whose state was left meanwhile
              holding |-> 0,                           \* _duration_timers_active
              delayed |-> {},                          \* debounced listeners whose task sleeps
              owed |-> {},                             \* those whose last event is not handled yet
              shut |-> {},                             \* throttled listeners within their window
              running |-> [l \in Listeners |-> [v \in Via |-> 0]],
              slots |-> app.slots,                     \* _dispatch_semaphore
              pending |-> 0,                           \* _dispatch_pending
              loop |-> [at |-> "waiting", todo |-> <<>>],
              ready |-> <<>>]

----------------------------------------------------------------------------
(* Listeners *)

Enqueue(b, t) == [b EXCEPT !.ready = Append(@, t)]

\* The elements of s at the positions I, in their order.
Kept(s, I) ==
    [k \in 1..Cardinality(I) |-> s[CHOOSE i \in I : Cardinality({j \in I : j <= i}) = k]]

Route(kind, l) == [kind |-> kind, l |-> l]

Without(routes, kind, l) == Kept(routes, {i \in DOMAIN routes : routes[i] # Route(kind, l)})

\* Mutant: the cancel listener of a cancelled timer stays routed.
TimerCancelled_KeepsSub(b, l) ==
    IF b.timer[l] = "none" THEN b ELSE [b EXCEPT !.timer[l] = "none", !.holding = @ - 1]

\* DurationTimer.cancel() with its cancel listener and on_cancel.
TimerCancelled(b, l) ==
    IF b.timer[l] = "none" THEN b
    ELSE [b EXCEPT !.timer[l] = "none", !.holding = @ - 1,
                   !.routes = Without(@, "cancel", l)]

\* _start_duration_timer() and DurationTimer.start().
TimerStarted(b, l) ==
    LET c == TimerCancelled(b, l)
    IN  [c EXCEPT !.timer[l] = "sleeping", !.holding = @ + 1, !.left = @ \ {l},
                  !.routes = Append(@, Route("cancel", l))]

\* RateLimiter._debounce_task.cancel(): the sleep ends, or the handler of a
\* parallel listener; of any other only the task that waits for its handler.
DelayCancelled(b, l) ==
    [b EXCEPT !.delayed = @ \ {l},
              !.running[l]["late"] = IF l \in app.parallel THEN 0 ELSE @]

\* Listener.cancel(); releasing the guard of a parallel listener does nothing.
Cancelled(b, l) ==
    LET c == [DelayCancelled(TimerCancelled(b, l), l) EXCEPT !.cancelled = @ \cup {l}, !.fired = @ \cup {l}]
    IN  IF l \in app.parallel THEN c ELSE Enqueue(c, Task("release", l, None))

\* BusService.remove_listener() with Bus._on_listener_removed(), which gives
\* back the name whoever holds it.
Removed(b, l) ==
    [Cancelled(b, l) EXCEPT !.routes = Without(@, "main", l), !.keys[NameOf[l]] = None]

\* Bus.remove_listener()
Unsubscribed(b, l) == Removed([b EXCEPT !.keys[NameOf[l]] = None], l)

\* The finally blocks around HandlerInvoker.dispatch(), and the end of the task.
Ended(b, l, via) ==
    LET c == IF l \in app.once THEN Removed(b, l) ELSE b
    IN  CASE via = "slot" -> Enqueue(c, Task("done", None, None))
          [] via = "now" -> Enqueue(c, Task("settled", None, None))
          [] via = "timer" -> [c EXCEPT !.holding = @ - 1]
          [] via = "late" -> c

Busy(b, l) == \E v \in Via : b.running[l][v] > 0

\* Mutant: no once-guard.
Spent_Never(b, l) == FALSE

\* The once-guard: the listener has fired or was cancelled.
Spent(b, l) == l \in app.once /\ l \in b.fired

\* run_with_mode(): the overlap guard of a listener that is not parallel.
Guarded(b, l, via) ==
    IF l \notin app.parallel /\ Busy(b, l) THEN Ended(b, l, via)
    ELSE [b EXCEPT !.running[l][via] = @ + 1]

\* Mutant: the task is cancelled after its replacement was stored.
Debounced_CancelsNew(b, l) == DelayCancelled([b EXCEPT !.owed = @ \cup {l}], l)

\* RateLimiter.debounced_call(): a new task takes the place of the last one.
Debounced(b, l) ==
    [DelayCancelled(b, l) EXCEPT !.delayed = @ \cup {l}, !.owed = @ \cup {l}]

\* RateLimiter.call() declines: its listener was removed, or is throttled.
Declined(b, l) ==
    \/ l \in b.shut
    \/ l \in b.cancelled \cap (app.debounced \cup app.throttled)

\* HandlerInvoker.dispatch(): the once-guard, the rate limiter, the overlap guard.
Invoked(b, l, via) ==
    LET c == [b EXCEPT !.fired = IF l \in app.once THEN @ \cup {l} ELSE @]
    IN  IF Spent(b, l) \/ Declined(b, l) THEN Ended(c, l, via)
        ELSE IF l \in app.debounced THEN Ended(Debounced(c, l), l, via)
        ELSE Guarded([c EXCEPT !.shut = IF l \in app.throttled THEN @ \cup {l} ELSE @], l, via)

\* The step makes the event loop's state b; ran remembers the handlers started.
Becomes(b) ==
    /\ bus' = b
    /\ ran' = ran \cup {l \in Listeners : \E v \in Via : b.running[l][v] > bus.running[l][v]}

----------------------------------------------------------------------------
(* The dispatch loop *)

\* Listener.matches() for a change, and for the synthetic event of a state.
Matches(l, e) == e.new = "on" /\ (l \in app.fromOff => e.old = "off")

\* _match_listeners(): the entity's topic first, the general one (StateProxy) last.
Targets(b, e) ==
    LET hit == {i \in DOMAIN b.routes : b.routes[i].kind = "cancel" \/ Matches(b.routes[i].l, e)}
        met == Kept(b.routes, hit)
    IN  Append([i \in DOMAIN met |-> Task(met[i].kind, met[i].l, e)], Task("proxy", None, e))

\* _spawn_dispatch_task() for each of the targets: those that find a slot are
\* spawned; of the others the loop blocks at the first that is not dropped,
\* and keeps the rest.
Dispatched(b, todo) ==
    LET n == IF b.slots < Len(todo) THEN b.slots ELSE Len(todo)
        late == {i \in n+1..Len(todo) : ~(todo[i].kind = "main" /\ todo[i].l \in app.dropping)}
        rest == {j \in 1..Len(todo) : \E i \in late : i <= j}
    IN  [b EXCEPT !.slots = @ - n, !.pending = @ + n, !.ready = @ \o SubSeq(todo, 1, n),
                  !.loop = [at |-> IF late = {} THEN "waiting" ELSE "blocked",
                            todo |-> Kept(todo, rest)]]

\* serve() has an event to receive and is scheduled.
Receive ==
    /\ bus.loop.at = "waiting" /\ stream # <<>>
    /\ bus' = Enqueue([bus EXCEPT !.loop.at = "queued"], Task("go", None, None))
    /\ UNCHANGED <<app, home, sent, stream, cache, adding, subs, gone, ran>>

Running(kind) == bus.ready # <<>> /\ Head(bus.ready).kind = kind
Started(b) == [b EXCEPT !.ready = Tail(@)]
Current == Head(bus.ready)

\* serve() runs: with its next event, or with the slot it waited for.
RunLoop ==
    /\ Running("go")
    /\ IF bus.loop.at = "queued"
       THEN /\ bus' = Dispatched(Started(bus), Targets(bus, Head(stream)))
            /\ stream' = Tail(stream)
       ELSE /\ bus' = LET b == Started(bus)
                      IN  Dispatched(Enqueue([b EXCEPT !.pending = @ + 1], Head(b.loop.todo)),
                                     Tail(b.loop.todo))
            /\ UNCHANGED stream
    /\ UNCHANGED <<app, home, sent, cache, adding, subs, gone, ran>>

----------------------------------------------------------------------------
(* Tasks *)

\* _dispatch() for a listener: start its timer, or run the handler.
RunMain ==
    /\ Running("main")
    /\ LET l == Current.l
           b == Started(bus)
       IN  Becomes(IF l \notin app.held THEN Invoked(b, l, "slot")
                   ELSE Enqueue(IF l \in b.cancelled THEN b ELSE TimerStarted(b, l),
                                Task("done", None, None)))
    /\ UNCHANGED <<app, home, sent, stream, cache, adding, subs, gone>>

\* The hold predicate: the state only, not the transition into it.
StillHeld(e) == e.new = "on"

\* evaluate_cancel_event(), the handler of a timer's cancel listener.
RunCancel ==
    /\ Running("cancel")
    /\ LET b == Started(bus)
           t == Current
       IN  Becomes(Enqueue(IF StillHeld(t.e) THEN b ELSE TimerCancelled(b, t.l),
                           Task("done", None, None)))
    /\ UNCHANGED <<app, home, sent, stream, cache, adding, subs, gone>>

\* StateProxy applies the event.
RunProxy ==
    /\ Running("proxy")
    /\ cache' = Current.e.new
    /\ LET b == Started(bus)
           broken == {l \in Listeners : b.timer[l] = "sleeping" /\ Current.e.new # "on"}
       IN  Becomes(Enqueue([b EXCEPT !.left = @ \cup broken], Task("done", None, None)))
    /\ UNCHANGED <<app, home, sent, stream, adding, subs, gone>>

\* immediate_fire_task(): what a synthetic event of the cached state asks for;
\* elapsed: the state has been held for the whole duration already.
RunImmediate ==
    /\ Running("immediate")
    /\ \E elapsed \in BOOLEAN :
          LET l == Current.l
              b == Started(bus)
          IN  Becomes(IF ~Matches(l, [old |-> None, new |-> cache])
                      THEN Enqueue(b, Task("settled", None, None))
                      ELSE IF l \notin app.held \/ elapsed THEN Invoked(b, l, "now")
                      ELSE Enqueue(TimerStarted(b, l), Task("settled", None, None)))
    /\ UNCHANGED <<app, home, sent, stream, cache, adding, subs, gone>>

\* release_guard(): the handler in flight is cancelled.
RunRelease ==
    /\ Running("release")
    /\ LET l == Current.l
           b == Started(bus)
           cut == {v \in Via : b.running[l][v] > 0}
       IN  Becomes(IF cut = {} THEN b
                   ELSE LET v == CHOOSE x \in cut : TRUE
                        IN  Ended([b EXCEPT !.running[l][v] = @ - 1], l, v))
    /\ UNCHANGED <<app, home, sent, stream, cache, adding, subs, gone>>

\* Mutant: the slot is given back without waking the loop.
Freed_NoWake(b) == [b EXCEPT !.slots = @ + 1]

\* Mutant: the slot handed to the loop is counted as free as well.
Freed_Both(b) ==
    IF b.loop.at = "blocked"
    THEN Enqueue([b EXCEPT !.loop.at = "woken", !.slots = @ + 1], Task("go", None, None))
    ELSE [b EXCEPT !.slots = @ + 1]

\* Semaphore.release(): a waiting loop is handed the slot.
Freed(b) ==
    IF b.loop.at = "blocked" THEN Enqueue([b EXCEPT !.loop.at = "woken"], Task("go", None, None))
    ELSE [b EXCEPT !.slots = @ + 1]

\* The done-callbacks of a fan-out task (done) and an immediate task (settled).
RunDone ==
    /\ Running("done") \/ Running("settled")
    /\ LET b == Started(bus)
           c == IF Current.kind = "done" THEN Freed(b) ELSE b
       IN  Becomes([c EXCEPT !.pending = @ - 1])
    /\ UNCHANGED <<app, home, sent, stream, cache, adding, subs, gone>>

\* A handler returns or raises.
Finish(l, via) ==
    /\ bus.running[l][via] > 0
    /\ Becomes(Ended([bus EXCEPT !.running[l][via] = @ - 1,
                                 !.owed = IF via = "late" THEN @ \ ({l} \ bus.delayed) ELSE @],
                     l, via))
    /\ UNCHANGED <<app, home, sent, stream, cache, adding, subs, gone>>

\* delayed_fire(), and on_duration_fire(), which reads the state again.
TimerFires(l) ==
    /\ bus.timer[l] = "sleeping"
    /\ LET b == [bus EXCEPT !.timer[l] = "none", !.routes = Without(@, "cancel", l)]
       IN  Becomes(IF cache = "on" THEN Invoked(b, l, "timer") ELSE Ended(b, l, "timer"))
    /\ UNCHANGED <<app, home, sent, stream, cache, adding, subs, gone>>

\* delayed_call() after its sleep.
DelayElapses(l) ==
    /\ l \in bus.delayed
    /\ Becomes(Guarded([bus EXCEPT !.delayed = @ \ {l}], l, "late"))
    /\ UNCHANGED <<app, home, sent, stream, cache, adding, subs, gone>>

\* The time since throttled_call()'s last attempt reaches the interval.
WindowEnds(l) ==
    /\ l \in bus.shut
    /\ Becomes([bus EXCEPT !.shut = @ \ {l}])
    /\ UNCHANGED <<app, home, sent, stream, cache, adding, subs, gone>>

----------------------------------------------------------------------------
(* The app and its Bus *)

\* Bus._resolve_and_register() up to the database: the name is taken, and the
\* listener that had it removed.
Register(l) ==
    /\ l \in app.registered \ (gone \cup subs) /\ ~Contains(adding, l)
    /\ LET old == bus.keys[NameOf[l]]
       IN  /\ old = None \/ "replace" \in app.calls
           /\ LET b == IF old = None THEN bus ELSE Unsubscribed(bus, old)
              IN  Becomes([b EXCEPT !.keys[NameOf[l]] = l])
           /\ gone' = IF old = None THEN gone ELSE gone \cup {old}
    /\ adding' = Append(adding, l)
    /\ UNCHANGED <<app, home, sent, stream, cache, subs>>

\* BusService.add_listener() after the database write.
Registered ==
    /\ adding # <<>>
    /\ LET l == Head(adding)
           b == [bus EXCEPT !.routes = Append(@, Route("main", l))]
       IN  /\ Becomes(IF l \in app.immediate
                      THEN Enqueue([b EXCEPT !.pending = @ + 1], Task("immediate", l, None))
                      ELSE b)
           /\ subs' = subs \cup {l}
    /\ adding' = Tail(adding)
    /\ UNCHANGED <<app, home, sent, stream, cache, gone>>

\* Mutant: a failed registration keeps its name.
Refused_KeepsKey(b, l) == b

\* The reserved name is given back, unless another listener took it.
Refused(b, l) ==
    IF b.keys[NameOf[l]] = l THEN [b EXCEPT !.keys[NameOf[l]] = None] ELSE b

\* The database write raises.
RegisterFails ==
    /\ app.dbFails /\ adding # <<>>
    /\ Becomes(Refused(bus, Head(adding)))
    /\ gone' = gone \cup {Head(adding)}
    /\ adding' = Tail(adding)
    /\ UNCHANGED <<app, home, sent, stream, cache, subs>>

\* Subscription.cancel()
Cancel(l) ==
    /\ "cancel" \in app.calls /\ l \in subs \ gone
    /\ Becomes(Unsubscribed(bus, l))
    /\ gone' = gone \cup {l}
    /\ UNCHANGED <<app, home, sent, stream, cache, adding, subs>>

\* Bus.on_shutdown(): remove_all_listeners(); no call of the app follows.
Stop ==
    /\ "stop" \in app.calls /\ gone # Listeners
    /\ LET I == {i \in DOMAIN bus.routes : bus.routes[i].kind = "main"}
           mine == {bus.routes[i].l : i \in I}
           guards == Kept(bus.routes, {i \in I : bus.routes[i].l \notin app.parallel})
           timed == {l \in mine : bus.timer[l] = "sleeping"}
       IN  Becomes([bus EXCEPT
               !.keys = [n \in Names |-> None], !.routes = <<>>,
               !.cancelled = @ \cup mine, !.fired = @ \cup mine,
               !.timer = [l \in Listeners |-> IF l \in mine THEN "none" ELSE @[l]],
               !.holding = @ - Cardinality(timed),
               !.delayed = @ \ mine,
               !.running = [l \in Listeners |->
                   IF l \in mine \cap app.parallel THEN [@[l] EXCEPT !["late"] = 0] ELSE @[l]],
               !.ready = @ \o [i \in DOMAIN guards |-> Task("release", guards[i].l, None)]])
    /\ gone' = Listeners
    /\ UNCHANGED <<app, home, sent, stream, cache, adding, subs>>

\* The entity changes; the event reaches the bus's stream.
HomeChanges(s) ==
    /\ sent < app.events /\ s # home
    /\ home' = s /\ sent' = sent + 1
    /\ stream' = Append(stream, [old |-> home, new |-> s])
    /\ UNCHANGED <<app, cache, adding, subs, gone, bus, ran>>

Loop == Receive \/ RunLoop \/ RunMain \/ RunCancel \/ RunProxy \/ RunImmediate \/ RunRelease \/ RunDone

Next ==
    \/ Loop
    \/ \E l \in Listeners : \/ \E via \in Via : Finish(l, via)
                            \/ TimerFires(l)
                            \/ DelayElapses(l)
                            \/ WindowEnds(l)
                            \/ Register(l)
                            \/ Cancel(l)
    \/ Registered
    \/ RegisterFails
    \/ Stop
    \/ \E s \in States : HomeChanges(s)

Spec == Init /\ [][Next]_vars

\* The event loop runs what is ready, a debounce sleep ends, and so does a
\* handler: the executor gives every invocation a timeout.
FairSpec ==
    /\ Spec
    /\ WF_vars(Loop)
    /\ \A l \in Listeners : /\ WF_vars(DelayElapses(l))
                            /\ \A via \in Via : WF_vars(Finish(l, via))

----------------------------------------------------------------------------
(* Properties *)

Count(kinds) == Cardinality({i \in DOMAIN bus.ready : bus.ready[i].kind \in kinds})
Handlers(via) == Cardinality(UNION {{l} \X (1..bus.running[l][via]) : l \in Listeners})
FanOut == {"main", "cancel", "proxy", "done"}

\* Every dispatch slot is free, held by one unfinished fan-out task, or handed
\* to the waiting loop; the pending count await_dispatch_idle() relies on is the
\* number of unfinished fan-out and immediate tasks; and the active-timer count
\* is the sleeping timers and those whose handler runs.  Debounced handlers hold
\* no slot and no count; of one listener they never overlap, whatever its mode.
CountsAccounted ==
    /\ bus.slots + Count(FanOut) + Handlers("slot") + (IF bus.loop.at = "woken" THEN 1 ELSE 0)
          = app.slots
    /\ bus.pending = Count(FanOut \cup {"immediate", "settled"}) + Handlers("slot") + Handlers("now")
    /\ bus.loop.at = "blocked" => bus.slots = 0
    /\ bus.holding = Cardinality({l \in Listeners : bus.timer[l] = "sleeping"}) + Handlers("timer")
    /\ \A l \in Listeners : bus.running[l]["late"] <= 1

\* Every variable has its type, and the counters count what they are kept for.
TypeOK ==
    /\ home \in States /\ cache \in States /\ sent \in 0..app.events
    /\ ran \subseteq Listeners /\ subs \subseteq Listeners /\ gone \subseteq Listeners
    /\ bus.keys \in [Names -> Listeners \cup {None}]
    /\ bus.timer \in [Listeners -> {"none", "sleeping"}]
    /\ bus.running \in [Listeners -> [Via -> Nat]]
    /\ bus.slots \in 0..app.slots /\ bus.pending \in Nat /\ bus.holding \in Nat
    /\ bus.delayed \subseteq app.debounced /\ bus.owed \subseteq app.debounced
    /\ bus.shut \subseteq app.throttled
    /\ bus.loop.at \in {"waiting", "queued", "blocked", "woken"}
    /\ CountsAccounted

\* A sleeping timer of a live listener has exactly one routed cancel listener,
\* any other none: no state change is missed by a hold, and none is routed to
\* a timer that is over.
HoldGuarded ==
    \A l \in Listeners \ bus.cancelled :
        Cardinality({i \in DOMAIN bus.routes : bus.routes[i] = Route("cancel", l)})
            = IF bus.timer[l] = "sleeping" THEN 1 ELSE 0

\* A timer starts the handler of a live listener only if the entity, as
\* StateProxy was told, has held its state since the timer was started.
HeldThroughout ==
    [][\A l \in Listeners \ bus.cancelled :
          bus'.running[l]["timer"] > bus.running[l]["timer"] => l \notin bus.left]_vars

\* No debounced handler is started for a listener that was removed.
NeverLate ==
    [][\A l \in bus.cancelled : bus'.running[l]["late"] <= bus.running[l]["late"]]_vars

\* A once-listener's handler is started at most once, by whichever of event,
\* timer and immediate fire comes first, a hold's only after the hold, and a
\* debounced one not after the removal (duration_timer.py, rate_limiter.py:82,
\* bus_service.py:626).
StartsOnlyWhenDue ==
    /\ HeldThroughout
    /\ NeverLate
    /\ [][\A l \in app.once \cap ran : \A v \in Via : bus'.running[l][v] <= bus.running[l][v]]_vars

\* A name is held by a listener that is routed and live, or about to be: none
\* refuses a registration on behalf of a listener that is not there.
KeyHolderLives ==
    \A n \in Names : LET l == bus.keys[n]
                     IN  l # None => /\ l \notin bus.cancelled
                                     /\ \/ Contains(adding, l)
                                        \/ Contains(bus.routes, Route("main", l))

\* Every event reaches StateProxy and every dispatch ends: a blocked loop is
\* woken, and the bus becomes idle.  The last event of a burst is handled to the
\* end by a live debounced listener that no overlap guard may drop it for,
\* however often its handler was cut short for a newer event.
EventsServed ==
    <>[](/\ cache = home /\ stream = <<>> /\ bus.pending = 0
         /\ (app.debounced \cap app.parallel) \cap bus.owed \subseteq bus.cancelled)

\* Only the app's own removal cuts a once-listener's handler short: mode "has
\* no behavioral effect" on it (docs, execution-modes.md:197).
OnceNotCut ==
    [][\A l \in app.once \ gone : RunRelease /\ Current.l = l => bus'.running[l] = bus.running[l]]_vars
=============================================================================
