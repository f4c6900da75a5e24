------------------------ MODULE AppLifecycleService ------------------------
(***************************************************************************)
(* core/app_lifecycle_service.py with app_handler.py, app_registry.py and  *)
(* app_bootstrap_coordinator.py: apps are started, stopped and reloaded by *)
(* the bootstrap, by the handler of file changes and by requests of the    *)
(* web API, one at a time per app.  Until the bootstrap is released, a     *)
(* change of the configuration is only remembered; the bootstrap replays   *)
(* it.  The shutdown of the handler stops every registered app.            *)
(*                                                                         *)
(* One instance per app.  The task that start_apps() gathers for an app    *)
(* bears the app's name.                                                   *)
(***************************************************************************)
EXTENDS Naturals, Sequences, FiniteSets

CONSTANTS
    Apps,      \* app keys
    Requests,  \* start, stop and reload requests of the web API
    None,
    MaxEdits   \* bound: edits of the configuration

Sections == {"absent", "idle", "auto"}   \* idle: autostart = false

ASSUME AppsAssumption ==
    /\ Apps \cap Requests = {} /\ {"boot", "watcher"} \cap (Apps \cup Requests) = {}
    /\ None \notin Apps \cup Requests \cup {"boot", "watcher"}
    \* None is neither a snapshot of the sections nor a pair of them.
    /\ None \notin [Apps -> Sections]
    /\ None \notin [orig : [Apps -> Sections], current : [Apps -> Sections]]
    /\ MaxEdits \in Nat

VARIABLES
    disk,       \* each app's section of the configuration file
    manifests,  \* registry._manifests, as loaded
    entry,      \* the instance the registry has for an app, 0 for none
    failed,     \* apps with a failed entry in the registry
    instances,  \* every instance made, with the section it was made from
    holder,     \* who holds _app_key_locks[app]
    call,       \* the start, stop or reload every task is in
    changing,   \* who holds _change_event_lock
    orig,       \* the handler's snapshot, while it persists the new manifests
    work,       \* the changes it has still to apply
    pending,    \* _pending_reconciliation
    events,     \* file events not yet handled
    boot,       \* where bootstrap_apps() is
    released,   \* the coordinator's latch
    down,       \* where the shutdown is
    edits,      \* edits made
    asked,      \* requests made
    seen        \* see below; read by properties only

apps  == <<entry, failed, instances, holder, call>>
files == <<disk, manifests, orig, work, pending, events, edits, asked>>
vars  == <<apps, files, changing, boot, released, down, seen>>

Tasks == Apps \cup Requests \cup {"boot", "watcher"}
Quiet == [at |-> "off", op |-> "start", app |-> None, instance |-> 0]
Configured == {a \in Apps : manifests[a] # "absent"}

\* Where an instance is that no shutdown() has begun to stop.
Lives == {"init", "up", "cut"}

\* History: instances replaced by a start, apps stopped by request, whether start_apps()
\* had anything to wait for, in the manifests the process began with, the starts made from
\* a manifest newer than the postponed snapshot, those of them a further change was then
\* compared with that snapshot for, whether a request or a change met the shutdown, and
\* whether the last reload of the configuration has not read the file.
Nothing == [replaced |-> {}, off |-> {}, waited |-> FALSE, early |-> {}, misjudged |-> {},
            met |-> FALSE, unread |-> FALSE]

Init ==
    /\ disk \in [Apps -> Sections] /\ manifests = disk
    /\ entry = [a \in Apps |-> 0] /\ failed = {} /\ instances = <<>>
    /\ holder = [a \in Apps |-> None]
    /\ call = [t \in Tasks |-> Quiet]
    /\ changing = None /\ orig = None /\ work = {} /\ pending = None /\ events = 0 /\ edits = 0
    /\ boot = "new" /\ released = FALSE /\ asked = {}
    /\ down = [at |-> "up", keys |-> {}, instance |-> 0]
    /\ seen = Nothing

----------------------------------------------------------------------------
(* start_app(), stop_app() and reload_app() under the app's lock *)

Begin(t, op, a) == call' = [call EXCEPT ![t] = [at |-> "lock", op |-> op, app |-> a, instance |-> 0]]

\* Mutant: the lock is kept.
Ends_KeepsLock(t) == call' = [call EXCEPT ![t] = Quiet] /\ UNCHANGED holder

\* The call returns and the lock is released.
Ends(t) ==
    /\ call' = [call EXCEPT ![t] = Quiet]
    /\ holder' = [holder EXCEPT ![call[t].app] = None]

Goes(t, step, i) == call' = [call EXCEPT ![t].at = step, ![t].instance = i]
Becomes(i, s) == instances' = [instances EXCEPT ![i].at = s]

\* Mutant: nobody waits for the lock.
Free_Always(a) == TRUE

Free(a) == holder[a] = None

\* A start fetches the manifest again, a stop unregisters the app; shutdown() of an
\* instance that is being shut down returns at once.
Take(t) ==
    LET a == call[t].app  i == entry[a] IN
    /\ call[t].at = "lock" /\ Free(a)
    /\ holder' = [holder EXCEPT ![a] = t]
    /\ IF call[t].op = "start"
       THEN Goes(t, "make", 0) /\ UNCHANGED <<entry, failed, instances, seen>>
       ELSE /\ entry' = [entry EXCEPT ![a] = 0] /\ failed' = failed \ {a}
            /\ seen' = [seen EXCEPT !.off = IF t \in Requests THEN @ \cup {a} ELSE @]
            /\ IF i # 0 /\ instances[i].at \in Lives
               THEN Goes(t, "stop", i) /\ Becomes(i, "stopping")
               ELSE Goes(t, IF call[t].op = "stop" THEN "end" ELSE "make", 0) /\ UNCHANGED instances
    /\ UNCHANGED <<files, changing, boot, released, down>>

Stopped(t) ==
    /\ call[t].at = "stop"
    /\ Becomes(call[t].instance, "stopped")
    /\ Goes(t, IF call[t].op = "stop" THEN "end" ELSE "make", 0)
    /\ UNCHANGED <<entry, failed, holder, files, changing, boot, released, down, seen>>

\* create_instances() registers the instance, whatever entry the app has; or the class
\* or its configuration is at fault.
Makes(t) ==
    LET a == call[t].app  i == Len(instances) + 1
        replaced == IF entry[a] # 0 THEN {entry[a]} ELSE {}
        ahead == IF pending # None /\ pending.orig[a] # manifests[a]
                 THEN seen.early \cup {a} ELSE seen.early
    IN
    /\ call[t].at = "make"
    /\ \/ /\ manifests[a] = "absent"
          /\ Goes(t, "end", 0)
          /\ seen' = [seen EXCEPT !.early = ahead]
          /\ UNCHANGED <<entry, failed, instances>>
       \/ /\ manifests[a] # "absent"
          /\ instances' = Append(instances, [app |-> a, section |-> manifests[a], at |-> "init"])
          /\ entry' = [entry EXCEPT ![a] = i] /\ failed' = failed \ {a}
          /\ seen' = [seen EXCEPT !.replaced = @ \cup replaced, !.off = @ \ {a}, !.early = ahead]
          /\ Goes(t, "init", i)
       \/ /\ manifests[a] # "absent"
          /\ entry' = [entry EXCEPT ![a] = 0] /\ failed' = failed \cup {a}
          /\ seen' = [seen EXCEPT !.replaced = @ \cup replaced, !.early = ahead]
          /\ Goes(t, "end", 0)
          /\ UNCHANGED instances
    /\ UNCHANGED <<holder, files, changing, boot, released, down>>

\* initialize_instances(): running, or cleaned up and recorded as failed.
Initialized(t) ==
    LET a == call[t].app  i == call[t].instance IN
    /\ call[t].at = "init"
    /\ \/ Becomes(i, "up") /\ UNCHANGED <<entry, failed>>
       \/ /\ Becomes(i, "stopped")
          /\ entry' = [entry EXCEPT ![a] = 0] /\ failed' = failed \cup {a}
    /\ Goes(t, "end", 0)
    /\ UNCHANGED <<holder, files, changing, boot, released, down, seen>>

\* After reconcile_app_registrations().
Returns(t) ==
    /\ call[t].at = "end"
    /\ Ends(t)
    /\ UNCHANGED <<entry, failed, instances, files, changing, boot, released, down, seen>>

CallStep(t) == Take(t) \/ Stopped(t) \/ Makes(t) \/ Initialized(t) \/ Returns(t)

----------------------------------------------------------------------------
(* Requests of the web API *)

Asks(r) ==
    /\ down.at = "up" /\ r \notin asked
    /\ asked' = asked \cup {r}
    /\ \E a \in Configured, op \in {"start", "stop", "reload"} :
          (op = "stop" \/ released) /\ Begin(r, op, a)
    /\ UNCHANGED <<entry, failed, instances, holder, disk, manifests, orig, work, pending, events,
                   edits, changing, boot, released, down, seen>>

----------------------------------------------------------------------------
(* The change set and its application *)

Change(op, a, rank) == [op |-> op, app |-> a, rank |-> rank]

\* detect_changes()
Changes(old, new) ==
    {Change("stop", a, 1) : a \in {a \in Apps : old[a] # "absent" /\ new[a] = "absent"}}
    \cup {Change("reload", a, 2) :
            a \in {a \in Apps : "absent" \notin {old[a], new[a]} /\ old[a] # new[a]}}
    \cup {Change("start", a, 3) : a \in {a \in Apps : old[a] = "absent" /\ new[a] # "absent"}}

\* The next of apply_changes(), with should_autostart() and should_auto_reconcile().
Wanted(c) ==
    \/ c.op = "stop" \/ manifests[c.app] = "auto"
    \/ c.op = "reload" /\ entry[c.app] # 0

IsNext(c) == c \in work /\ \A d \in work : c.rank <= d.rank

Applies(t) ==
    /\ changing = t /\ call[t].at = "off"
    /\ \E c \in work :
          /\ IsNext(c) /\ work' = work \ {c}
          /\ IF Wanted(c) THEN (c.op = "stop" \/ released) /\ Begin(t, c.op, c.app)
                          ELSE UNCHANGED call
    /\ UNCHANGED <<entry, failed, instances, holder, disk, manifests, orig, pending, events, edits,
                   asked, changing, boot, released, down, seen>>

\* A replay before the release: the start or the reload is refused, which
\* bootstrap_apps() takes for a crash.
Refused ==
    /\ changing = "boot" /\ call["boot"].at = "off" /\ ~released
    /\ \E c \in work : IsNext(c) /\ Wanted(c) /\ c.op # "stop"
    /\ work' = {} /\ changing' = None /\ boot' = "crashed"
    /\ UNCHANGED <<apps, disk, manifests, orig, pending, events, edits, asked, released, down, seen>>

Applied(t) ==
    /\ changing = t /\ call[t].at = "off" /\ work = {} /\ orig = None
    /\ changing' = None
    /\ boot' = IF t = "boot" THEN "done" ELSE boot
    /\ UNCHANGED <<apps, files, released, down, seen>>

----------------------------------------------------------------------------
(* handle_change_event() *)

Edits ==
    /\ edits < MaxEdits /\ edits' = edits + 1
    /\ \E a \in Apps : \E s \in Sections \ {disk[a]} : disk' = [disk EXCEPT ![a] = s]
    /\ events' = events + 1
    /\ UNCHANGED <<apps, manifests, orig, work, pending, asked, changing, boot, released, down, seen>>

\* config.reload(): the file is read; or it is not valid, and the manifests stay as they
\* are; or one app's manifest is not valid, and there are none until the next reload.
Reloads == manifests' \in {disk, manifests, [a \in Apps |-> "absent"]}

\* refresh_config(), up to persist_manifests().
Refreshes ==
    /\ events > 0 /\ changing = None /\ down.at # "gone"
    /\ events' = events - 1 /\ changing' = "watcher"
    /\ orig' = manifests /\ Reloads
    /\ seen' = [seen EXCEPT !.met = @ \/ down.at # "up", !.unread = manifests' # disk]
    /\ UNCHANGED <<apps, disk, work, pending, edits, asked, boot, released, down>>

Postpone(base) == pending' = [orig |-> base, current |-> manifests]

Judges ==
    seen' = [seen EXCEPT !.misjudged = IF released /\ pending # None THEN @ \cup seen.early ELSE @]

\* Mutant: what was postponed is folded in and left to be replayed.
Detects_KeepsPending ==
    LET base == IF pending # None THEN pending.orig ELSE orig
        changes == Changes(IF released THEN base ELSE orig, manifests)
    IN
    /\ changing = "watcher" /\ orig # None /\ orig' = None
    /\ IF released \/ changes = {} THEN work' = changes /\ UNCHANGED pending
                                   ELSE Postpone(base) /\ UNCHANGED work
    /\ Judges
    /\ UNCHANGED <<apps, disk, manifests, events, edits, asked, changing, boot, released, down>>

\* After it: what was postponed is folded in, or the change is postponed.
Detects ==
    LET base == IF pending # None THEN pending.orig ELSE orig
        changes == Changes(IF released THEN base ELSE orig, manifests)
    IN
    /\ changing = "watcher" /\ orig # None /\ orig' = None
    /\ IF released \/ changes = {}
       THEN work' = changes /\ pending' = IF released THEN None ELSE pending
       ELSE Postpone(base) /\ UNCHANGED work
    /\ Judges
    /\ UNCHANGED <<apps, disk, manifests, events, edits, asked, changing, boot, released, down>>

----------------------------------------------------------------------------
(* bootstrap_apps() *)

\* No change has been postponed or is being handled.
Unchanged == pending = None /\ changing = None

\* Up to persist_manifests(); without manifests, up to the release.
Boots ==
    /\ boot = "new" /\ boot' = IF Configured = {} THEN "empty" ELSE "persist"
    /\ seen' = [seen EXCEPT !.waited = Configured = {} /\ Unchanged]
    /\ UNCHANGED <<apps, files, changing, released, down>>

\* start_apps() of the apps that start automatically.
StartsApps ==
    LET S == {a \in Apps : manifests[a] = "auto"} IN
    /\ boot = "persist" /\ boot' = "starting"
    /\ call' = [t \in Tasks |-> IF t \in S THEN [Quiet EXCEPT !.at = "admit", !.app = t] ELSE call[t]]
    /\ seen' = [seen EXCEPT !.waited = S # {} /\ Unchanged]
    /\ UNCHANGED <<entry, failed, instances, holder, files, changing, released, down>>

\* _admit_start() with WAIT_FOR_RELEASE.
Admitted(a) ==
    /\ call[a].at = "admit" /\ released
    /\ call' = [call EXCEPT ![a].at = "lock"]
    /\ UNCHANGED <<entry, failed, instances, holder, files, changing, boot, released, down, seen>>

\* _replay_pre_release_reconciliation_if_needed()
Replays ==
    /\ \/ boot = "empty" /\ released
       \/ boot = "starting" /\ \A a \in Apps : call[a].at = "off"
    /\ changing = None /\ changing' = "boot" /\ boot' = "replay"
    /\ work' = IF pending = None THEN {} ELSE Changes(pending.orig, pending.current)
    /\ pending' = None
    /\ UNCHANGED <<apps, disk, manifests, orig, events, edits, asked, released, down, seen>>

\* The initial state capability has been reached.
Releases ==
    /\ ~released /\ down.at = "up" /\ released' = TRUE
    /\ UNCHANGED <<apps, files, changing, boot, down, seen>>

----------------------------------------------------------------------------
(* AppHandler.on_shutdown(), and the end of the bus *)

\* Mutant: a cancelled call leaves its lock taken.
Cut_KeepsLocks(S) ==
    /\ call' = [t \in Tasks |-> IF t \in S THEN Quiet ELSE call[t]]
    /\ UNCHANGED <<holder, instances>>
    /\ changing' = IF changing \in S THEN None ELSE changing
    /\ work' = IF changing \in S THEN {} ELSE work
    /\ orig' = IF changing \in S THEN None ELSE orig

\* Tasks are cancelled: a lock is released.  A shutdown() of an instance goes on to its
\* end, unless it was in _finalize_shutdown() already, which is left where it is; an
\* initialize() goes no further.
Cut(S) ==
    /\ call' = [t \in Tasks |-> IF t \in S THEN Quiet ELSE call[t]]
    /\ holder' = [a \in Apps |-> IF holder[a] \in S THEN None ELSE holder[a]]
    /\ \E end \in {"stopped", "partly"} :
          instances' = [i \in DOMAIN instances |->
             IF \E t \in S : call[t].instance = i
             THEN [instances[i] EXCEPT !.at = IF @ = "stopping" THEN end ELSE "cut"]
             ELSE instances[i]]
    /\ changing' = IF changing \in S THEN None ELSE changing
    /\ work' = IF changing \in S THEN {} ELSE work
    /\ orig' = IF changing \in S THEN None ELSE orig

Running == {a \in Apps : entry[a] # 0}

\* Mutant: the bootstrap is not cancelled.
Closes_KeepsBoot ==
    /\ down.at = "up"
    /\ down' = [at |-> "stopping", keys |-> Running, instance |-> 0]
    /\ seen' = [seen EXCEPT !.met = changing = "watcher" \/ \E r \in Requests : call[r] # Quiet]
    /\ UNCHANGED <<apps, files, changing, boot, released>>

\* The bootstrap is cancelled, then shutdown_all() lists the apps.
Closes ==
    /\ down.at = "up"
    /\ Cut(Apps \cup {"boot"})
    /\ boot' = IF boot = "crashed" THEN boot ELSE "done"
    /\ down' = [at |-> "stopping", keys |-> Running, instance |-> 0]
    /\ seen' = [seen EXCEPT !.met = changing = "watcher" \/ \E r \in Requests : call[r] # Quiet]
    /\ UNCHANGED <<entry, failed, disk, manifests, pending, events, edits, asked, released>>

\* The running instance of the next app is shut down, without the app's lock.
ShutsDown(a) ==
    LET i == entry[a] IN
    /\ down.at = "stopping" /\ down.instance = 0 /\ a \in down.keys
    /\ IF i # 0 /\ instances[i].at \in Lives
       THEN Becomes(i, "stopping") /\ down' = [down EXCEPT !.keys = @ \ {a}, !.instance = i]
       ELSE UNCHANGED instances /\ down' = [down EXCEPT !.keys = @ \ {a}]
    /\ UNCHANGED <<entry, failed, holder, call, files, changing, boot, released, seen>>

IsDown ==
    /\ down.instance # 0
    /\ Becomes(down.instance, "stopped") /\ down' = [down EXCEPT !.instance = 0]
    /\ UNCHANGED <<entry, failed, holder, call, files, changing, boot, released, seen>>

\* registry.clear_all()
Clears ==
    /\ down.at = "stopping" /\ down.keys = {} /\ down.instance = 0
    /\ entry' = [a \in Apps |-> 0] /\ failed' = {}
    /\ down' = [down EXCEPT !.at = "done"]
    /\ UNCHANGED <<instances, holder, call, files, changing, boot, released, seen>>

\* The bus stops in a later wave, and with it the change handler.
BusStops ==
    /\ down.at = "done" /\ down' = [down EXCEPT !.at = "gone"]
    /\ Cut({"watcher"})
    /\ UNCHANGED <<entry, failed, disk, manifests, pending, events, edits, asked, boot, released, seen>>

----------------------------------------------------------------------------
TearsDown == (\E a \in Apps : ShutsDown(a)) \/ IsDown \/ Clears \/ BusStops

Boot == Boots \/ StartsApps \/ Replays \/ Refused

Handles == Refreshes \/ Detects

Next ==
    \/ \E t \in Tasks : CallStep(t)
    \/ \E t \in {"watcher", "boot"} : Applies(t) \/ Applied(t)
    \/ \E r \in Requests : Asks(r)
    \/ Edits \/ Handles \/ Boot \/ (\E a \in Apps : Admitted(a)) \/ Releases
    \/ Closes \/ TearsDown

Spec == Init /\ [][Next]_vars

\* Tasks of the event loop run, hooks of apps are bounded by timeouts; nothing makes
\* Home Assistant answer, a request arrive or a shutdown be asked for, unless the
\* bootstrap has crashed.
FairSpec ==
    /\ Spec
    /\ \A t \in Tasks : WF_vars(CallStep(t))
    /\ \A t \in {"watcher", "boot"} : WF_vars(Applies(t) \/ Applied(t))
    /\ \A a \in Apps : WF_vars(Admitted(a))
    /\ WF_vars(Handles) /\ WF_vars(Boot) /\ WF_vars(TearsDown)
    /\ WF_vars(boot = "crashed" /\ Closes)

----------------------------------------------------------------------------
(* Properties *)

Stages == {"off", "admit", "lock", "make", "stop", "init", "end"}

\* Every variable has its type, and a lock's holder is in a call that needs it.
TypeOK ==
    /\ disk \in [Apps -> Sections] /\ manifests \in [Apps -> Sections]
    /\ entry \in [Apps -> 0..Len(instances)] /\ failed \subseteq Apps
    /\ \A i \in DOMAIN instances : /\ instances[i].app \in Apps
                                   /\ instances[i].section \in {"idle", "auto"}
                                   /\ instances[i].at \in Lives \cup {"stopping", "stopped", "partly"}
    /\ holder \in [Apps -> Tasks \cup {None}]
    /\ \A t \in Tasks : call[t].at \in Stages /\ call[t].instance \in 0..Len(instances)
    /\ \A a \in Apps : holder[a] # None =>
          call[holder[a]].app = a /\ call[holder[a]].at \in {"make", "stop", "init", "end"}
    /\ changing \in {None, "watcher", "boot"} /\ (work # {} \/ orig # None => changing # None)
    /\ boot \in {"new", "empty", "persist", "starting", "replay", "done", "crashed"}
    /\ down.at \in {"up", "stopping", "done", "gone"}

AtRest ==
    /\ released /\ down.at = "up" /\ boot = "done" /\ changing = None /\ events = 0
    /\ \A t \in Tasks : call[t] = Quiet

\* When everything has been handled, no change waits to be replayed, every running app
\* was made from the section that is in the file now, none that was removed runs, and
\* one that starts automatically runs, has failed or was stopped by request.
Followed(S) ==
    /\ pending = None
    /\ \A a \in S : entry[a] # 0 => instances[entry[a]].section = disk[a]
    /\ \A a \in S : disk[a] = "auto" => entry[a] # 0 \/ a \in failed \/ a \in seen.off

\* However edits, the release, the bootstrap and requests are interleaved, the
\* configuration is followed in the end (app_lifecycle_service.py:403, :744), also after
\* reloads that failed, when the last one has not, the bootstrap has had an app to wait
\* for and the first change came after it had listed them.
ConfigFollowed == AtRest /\ seen.waited /\ ~seen.unread => Followed(Apps \ seen.misjudged)

\* An instance that lives can be reached through the registry, unless a start has replaced it
\* or a call met the shutdown; so nothing ever runs that stop_app() would not find
\* (app_registry.py:63).
LiveIsKnown ==
    \A i \in DOMAIN instances :
        instances[i].at \in Lives /\ i \notin seen.replaced /\ ~seen.met => entry[instances[i].app] = i

\* "AppRegistry.register_app() then overwrites without tearing down the loser's instance" is
\* what the locks are there to prevent (app_lifecycle_service.py:130).
NoneReplaced == \A i \in seen.replaced : instances[i].at \in Lives => seen.met

\* Every instance has had a shutdown() begun before the bus goes, when no request and no
\* change met the shutdown, also the one the bootstrap was starting (app_handler.py:119).
\* One the cancelled bootstrap was itself stopping may have got no further than its cleanup.
EveryAppStopped ==
    down.at = "gone" /\ ~seen.met =>
        \A i \in DOMAIN instances : instances[i].at \in Lives => i \in seen.replaced

\* The shutdown ends, also when the bootstrap still waits for Home Assistant, a crash of
\* the bootstrap leads to it, and every request returns (app_lifecycle_service.py:628).
CallsEnd ==
    /\ (down.at # "up" \/ boot = "crashed") ~> (down.at = "gone")
    /\ \A r \in Requests : (call[r] # Quiet) ~> (call[r] = Quiet)
=============================================================================
