--------------------- MODULE AppLifecycleServiceProofs ---------------------
(***************************************************************************)
(* Proofs about AppLifecycleService for any apps, requests and number of   *)
(* edits: what lives can be reached, the shutdown stops it, and the        *)
(* configuration is followed.                                              *)
(***************************************************************************)
EXTENDS AppLifecycleService, SequenceTheorems, TLAPS

----------------------------------------------------------------------------
(* The inductive invariant *)

Ops      == {"start", "stop", "reload"}
Inside   == {"make", "stop", "init", "end"}
Instance == [app : Apps, section : {"idle", "auto"},
             at : Lives \cup {"stopping", "stopped", "partly"}]
Calls    == [at : Stages, op : Ops, app : Apps \cup {None}, instance : Nat]
History  == [replaced : SUBSET Nat, off : SUBSET Apps, waited : BOOLEAN, early : SUBSET Apps,
             misjudged : SUBSET Apps, met : BOOLEAN, unread : BOOLEAN]
Shutdown == [at : {"up", "stopping", "done", "gone"}, keys : SUBSET Apps, instance : Nat]
Work     == SUBSET [op : Ops, app : Apps, rank : Nat]

AppTypes ==
    /\ entry \in [Apps -> Nat] /\ failed \subseteq Apps
    /\ instances \in Seq(Instance)
    /\ holder \in [Apps -> Tasks \cup {None}]
    /\ call \in [Tasks -> Calls]
    /\ \A a \in Apps : entry[a] \in 0..Len(instances)
    /\ \A t \in Tasks : call[t].instance \in 0..Len(instances)

FileTypes ==
    /\ disk \in [Apps -> Sections] /\ manifests \in [Apps -> Sections]
    /\ work \in Work
    /\ changing \in {None, "watcher", "boot"}
    /\ boot \in {"new", "empty", "persist", "starting", "replay", "done", "crashed"}
    /\ down \in Shutdown
    /\ seen \in History

\* A call is inside an app's lock exactly when it holds it.
Locks ==
    /\ \A t \in Tasks : call[t].at # "off" => call[t].app \in Apps
    /\ \A t \in Tasks : call[t].at \in Inside => holder[call[t].app] = t
    /\ \A a \in Apps : holder[a] # None => call[holder[a]].app = a /\ call[holder[a]].at \in Inside
    /\ \A t \in Tasks : call[t].at \notin {"stop", "init"} => call[t].instance = 0

\* Every task makes one call at a time.
Starters ==
    /\ \A r \in Requests \ asked : call[r].at = "off"
    /\ \A t \in {"watcher", "boot"} : call[t].at # "off" => changing = t
    /\ boot \in {"new", "empty", "persist"} => \A a \in Apps : call[a].at = "off"
    /\ changing = None => work = {}
    /\ orig # None => changing = "watcher"
    /\ seen.met => down.at # "up"
    /\ down.at = "up" => down.instance = 0

Live(i) == instances[i].at \in Lives /\ i \notin seen.replaced

Registered(a) == entry[a] # 0 => instances[entry[a]].app = a
Stops(t) ==
    call[t].at = "stop" =>
        /\ call[t].instance # 0
        /\ instances[call[t].instance].app = call[t].app
        /\ instances[call[t].instance].at = "stopping"
Inits(t) ==
    call[t].at = "init" =>
        /\ call[t].instance # 0
        /\ entry[call[t].app] = call[t].instance
        /\ instances[call[t].instance].at = "init"
Known(i) == Live(i) => entry[instances[i].app] = i

\* What the registry and the calls know of the instances.
Tracks ==
    /\ \A a \in Apps : Registered(a)
    /\ \A t \in Tasks : Stops(t) /\ Inits(t)
    /\ \A i \in 1..Len(instances) : Known(i)

\* Once the shutdown has begun, no call is left and it has all that lives on its list.
ShutdownAlone ==
    /\ down.at # "up" => /\ \A t \in Tasks : call[t].at = "off"
                         /\ changing = None /\ boot \in {"done", "crashed"}
    /\ down.at = "stopping" => \A i \in 1..Len(instances) : Live(i) => instances[i].app \in down.keys
    /\ down.at \in {"done", "gone"} => \A i \in 1..Len(instances) : ~Live(i)

AppsInv ==
    /\ AppTypes /\ FileTypes /\ Locks /\ Starters
    /\ ~seen.met => Tracks /\ ShutdownAlone

LEMMA TaskNames ==
  /\ Apps \subseteq Tasks /\ Requests \subseteq Tasks /\ {"boot", "watcher"} \subseteq Tasks
  /\ Apps \cap Requests = {} /\ {"boot", "watcher"} \cap (Apps \cup Requests) = {}
  /\ None \notin Tasks
BY AppsAssumption DEF Tasks

LEMMA InvImplies == AppsInv => TypeOK /\ LiveIsKnown /\ EveryAppStopped
<1>. SUFFICES ASSUME AppsInv PROVE TypeOK /\ LiveIsKnown /\ EveryAppStopped
  OBVIOUS
<1>1. DOMAIN instances = 1..Len(instances) /\ \A i \in 1..Len(instances) : instances[i] \in Instance
  BY DEF AppsInv, AppTypes
<1>2. TypeOK
  <2>1. \A i \in DOMAIN instances : /\ instances[i].app \in Apps
                                    /\ instances[i].section \in {"idle", "auto"}
                                    /\ instances[i].at \in Lives \cup {"stopping", "stopped", "partly"}
    BY <1>1 DEF Instance
  <2>2. \A t \in Tasks : call[t].at \in Stages /\ call[t].instance \in 0..Len(instances)
    BY DEF AppsInv, AppTypes, Calls
  <2>3. entry \in [Apps -> 0..Len(instances)] /\ failed \subseteq Apps
        /\ holder \in [Apps -> Tasks \cup {None}]
    BY DEF AppsInv, AppTypes
  <2>4. \A a \in Apps : holder[a] # None =>
          call[holder[a]].app = a /\ call[holder[a]].at \in {"make", "stop", "init", "end"}
    BY DEF AppsInv, Locks, Inside
  <2>5. /\ disk \in [Apps -> Sections] /\ manifests \in [Apps -> Sections]
        /\ changing \in {None, "watcher", "boot"} /\ (work # {} \/ orig # None => changing # None)
        /\ boot \in {"new", "empty", "persist", "starting", "replay", "done", "crashed"}
        /\ down.at \in {"up", "stopping", "done", "gone"}
    BY TaskNames DEF AppsInv, FileTypes, Starters, Shutdown
  <2>. QED BY <2>1, <2>2, <2>3, <2>4, <2>5 DEF TypeOK
<1>3. LiveIsKnown
  BY <1>1 DEF AppsInv, Tracks, Known, Live, LiveIsKnown
<1>4. EveryAppStopped
  BY <1>1 DEF AppsInv, ShutdownAlone, Live, EveryAppStopped
<1>. QED BY <1>2, <1>3, <1>4

LEMMA InvInit == Init => AppsInv
<1>. SUFFICES ASSUME Init PROVE AppsInv
  OBVIOUS
<1>1. AppTypes
  BY DEF Init, AppTypes, Quiet, Calls, Stages, Ops
<1>2. FileTypes
  BY DEF Init, FileTypes, Nothing, History, Shutdown, Work
<1>3. Locks /\ Starters
  BY TaskNames DEF Init, Locks, Starters, Quiet, Inside, Nothing
<1>4. Tracks /\ ShutdownAlone
  BY DEF Init, Tracks, ShutdownAlone, Registered, Stops, Inits, Known, Live, Quiet
<1>. QED BY <1>1, <1>2, <1>3, <1>4 DEF AppsInv

----------------------------------------------------------------------------
(* The pieces of a call *)

Instances == Lives \cup {"stopping", "stopped", "partly"}

LEMMA GoesFacts ==
  ASSUME call \in [Tasks -> Calls], NEW t \in Tasks, NEW STATE step, step \in Stages,
         NEW STATE i, i \in Nat, Goes(t, step, i)
  PROVE  /\ call' \in [Tasks -> Calls]
         /\ \A u \in Tasks : call'[u].app = call[u].app
         /\ \A u \in Tasks \ {t} : call'[u] = call[u]
         /\ call'[t].at = step /\ call'[t].instance = i
BY DEF Goes, Calls

LEMMA BeginFacts ==
  ASSUME call \in [Tasks -> Calls], NEW t \in Tasks, NEW op \in Ops, NEW a \in Apps, Begin(t, op, a)
  PROVE  /\ call' \in [Tasks -> Calls]
         /\ \A u \in Tasks \ {t} : call'[u] = call[u]
         /\ call'[t].at = "lock" /\ call'[t].instance = 0 /\ call'[t].app = a
BY DEF Begin, Calls, Stages

LEMMA EndsFacts ==
  ASSUME call \in [Tasks -> Calls], NEW t \in Tasks, Ends(t)
  PROVE  /\ call' \in [Tasks -> Calls]
         /\ \A u \in Tasks \ {t} : call'[u] = call[u]
         /\ call'[t].at = "off" /\ call'[t].instance = 0
BY DEF Ends, Calls, Quiet, Stages, Ops

LEMMA BecomesFacts ==
  ASSUME instances \in Seq(Instance), NEW STATE i, i \in Nat, NEW s \in Instances, Becomes(i, s)
  PROVE  /\ instances' \in Seq(Instance) /\ Len(instances') = Len(instances)
         /\ \A j \in 1..Len(instances) : instances'[j].app = instances[j].app
         /\ \A j \in 1..Len(instances) : instances'[j].at = IF j = i THEN s ELSE instances[j].at
<1>1. DOMAIN instances = 1..Len(instances) /\ \A j \in 1..Len(instances) : instances[j] \in Instance
  OBVIOUS
<1>2. CASE i \in 1..Len(instances)
  <2>1. [instances[i] EXCEPT !.at = s] \in Instance
    BY <1>1, <1>2 DEF Instance, Instances
  <2>2. instances' = [instances EXCEPT ![i] = [instances[i] EXCEPT !.at = s]]
    BY DEF Becomes
  <2>3. instances' \in Seq(Instance) /\ Len(instances') = Len(instances)
    BY <1>2, <2>1, <2>2, ExceptSeq
  <2>4. \A j \in 1..Len(instances) :
           instances'[j] = IF j = i THEN [instances[i] EXCEPT !.at = s] ELSE instances[j]
    BY <1>1, <2>2
  <2>. QED BY <1>1, <2>3, <2>4 DEF Instance
<1>3. CASE i \notin 1..Len(instances)
  <2>1. instances' = instances
    BY <1>1, <1>3 DEF Becomes
  <2>. QED BY <1>3, <2>1
<1>. QED BY <1>2, <1>3

\* A new instance at the end of the list.
LEMMA MadeFacts ==
  ASSUME instances \in Seq(Instance), NEW e \in Instance, instances' = Append(instances, e)
  PROVE  /\ instances' \in Seq(Instance) /\ Len(instances') = Len(instances) + 1
         /\ \A j \in 1..Len(instances) : instances'[j] = instances[j]
         /\ instances'[Len(instances) + 1] = e
BY AppendProperties

----------------------------------------------------------------------------
(* Under the lock of an app *)

\* Whoever is inside has the lock of its app to itself.
LEMMA AloneInside ==
  ASSUME Locks, NEW t \in Tasks, call[t].at \in Inside
  PROVE  \A u \in Tasks \ {t} : call[u].at \in Inside => call[u].app # call[t].app
BY DEF Locks

\* A call goes on under its lock.
LEMMA InsideLocks ==
  ASSUME Locks, NEW t \in Tasks, call[t].at \in Inside, call'[t].at \in Inside,
         call'[t].app = call[t].app, UNCHANGED holder,
         holder \in [Apps -> Tasks \cup {None}],
         \A u \in Tasks \ {t} : call'[u] = call[u],
         call'[t].at \notin {"stop", "init"} => call'[t].instance = 0
  PROVE  Locks'
<1>1. \A u \in Tasks : call'[u].app = call[u].app /\ (call'[u].at = "off" => call[u].at = "off")
                       /\ (call'[u].at \in Inside <=> call[u].at \in Inside)
  BY DEF Inside
<1>2. \A u \in Tasks : call[u].at = "off" => call'[u].at = "off"
  BY DEF Inside
<1>3. \A u \in Tasks : call'[u].at # "off" => call'[u].app \in Apps
  BY <1>1, <1>2 DEF Locks
<1>4. ASSUME NEW a \in Apps, holder[a] # None
      PROVE  call'[holder[a]].app = a /\ call'[holder[a]].at \in Inside
  <2>1. call[holder[a]].app = a /\ call[holder[a]].at \in Inside /\ holder[a] \in Tasks
    BY <1>4 DEF Locks
  <2>. QED BY <1>1, <2>1
<1>5. \A u \in Tasks : call'[u].at \in Inside => holder[call'[u].app] = u
  BY <1>1 DEF Locks
<1>6. \A u \in Tasks : call'[u].at \notin {"stop", "init"} => call'[u].instance = 0
  BY DEF Locks
<1>. QED BY <1>3, <1>4, <1>5, <1>6 DEF Locks

\* A call enters: its app's lock was free.
LEMMA EnterLocks ==
  ASSUME Locks, NEW t \in Tasks, call[t].at = "lock", call'[t].at \in Inside,
         holder \in [Apps -> Tasks \cup {None}], holder[call[t].app] = None,
         call'[t].app = call[t].app, holder' = [holder EXCEPT ![call[t].app] = t],
         \A u \in Tasks \ {t} : call'[u] = call[u],
         call'[t].at \notin {"stop", "init"} => call'[t].instance = 0
  PROVE  Locks'
<1>1. call[t].app \in Apps /\ t # None
  BY TaskNames DEF Locks
<1>2. \A u \in Tasks \ {t} : call[u].at \in Inside => call[u].app # call[t].app
  BY <1>1, TaskNames DEF Locks
<1>3. \A u \in Tasks : call'[u].at \in Inside => holder'[call'[u].app] = u
  BY <1>1, <1>2 DEF Locks, Inside
<1>4. \A a \in Apps : holder[a] # t
  BY <1>1 DEF Locks, Inside
<1>5. \A a \in Apps : holder'[a] # None => call'[holder'[a]].app = a /\ call'[holder'[a]].at \in Inside
  BY <1>1, <1>4 DEF Locks
<1>6. \A u \in Tasks : call'[u].at # "off" => call'[u].app \in Apps
  BY <1>1 DEF Locks
<1>7. \A u \in Tasks : call'[u].at \notin {"stop", "init"} => call'[u].instance = 0
  BY DEF Locks
<1>. QED BY <1>3, <1>5, <1>6, <1>7 DEF Locks

\* A call returns.
LEMMA LeaveLocks ==
  ASSUME Locks, NEW t \in Tasks, call[t].at \in Inside, call'[t].at = "off", call'[t].instance = 0,
         holder \in [Apps -> Tasks \cup {None}], holder' = [holder EXCEPT ![call[t].app] = None],
         \A u \in Tasks \ {t} : call'[u] = call[u]
  PROVE  Locks'
<1>1. call[t].app \in Apps /\ holder[call[t].app] = t
  BY DEF Locks, Inside
<1>2. \A u \in Tasks : call'[u].at \in Inside => holder'[call'[u].app] = u
  BY <1>1, AloneInside DEF Locks, Inside
<1>3. \A a \in Apps : holder[a] = t => a = call[t].app
  BY TaskNames DEF Locks
<1>4. \A a \in Apps : holder'[a] # None => call'[holder'[a]].app = a /\ call'[holder'[a]].at \in Inside
  BY <1>1, <1>3 DEF Locks
<1>5. \A u \in Tasks : call'[u].at # "off" => call'[u].app \in Apps
  BY DEF Locks
<1>6. \A u \in Tasks : call'[u].at \notin {"stop", "init"} => call'[u].instance = 0
  BY DEF Locks
<1>. QED BY <1>2, <1>4, <1>5, <1>6 DEF Locks

\* A call that has begun may go on.
LEMMA CallStarters ==
  ASSUME Starters, NEW t \in Tasks, call[t].at # "off", seen'.met = seen.met,
         \A u \in Tasks \ {t} : call'[u] = call[u], UNCHANGED <<files, changing, boot, down>>
  PROVE  Starters'
<1>1. \A u \in Tasks : call[u].at = "off" => call'[u].at = "off"
  OBVIOUS
<1>2. UNCHANGED <<asked, work, orig>>
  BY DEF files
<1>. QED BY <1>1, <1>2, TaskNames DEF Starters

LEMMA ReturnsInv ==
  ASSUME AppsInv, NEW t \in Tasks, Returns(t)
  PROVE  AppsInv'
<1>. USE DEF AppsInv
<1>0. /\ call[t].at = "end" /\ call[t].app \in Apps /\ holder[call[t].app] = t
      /\ holder' = [holder EXCEPT ![call[t].app] = None]
      /\ UNCHANGED <<entry, failed, instances, files, changing, boot, released, down, seen>>
  BY DEF Returns, Ends, Locks, Inside
<1>1. /\ call' \in [Tasks -> Calls]
      /\ \A u \in Tasks \ {t} : call'[u] = call[u]
      /\ call'[t].at = "off" /\ call'[t].instance = 0
  BY EndsFacts DEF Returns, AppTypes
<1>2. AppTypes'
  BY <1>0, <1>1 DEF AppTypes
<1>3. FileTypes'
  BY <1>0 DEF FileTypes, files
<1>4. Locks'
  BY <1>0, <1>1, LeaveLocks DEF AppTypes, Inside
<1>5. Starters'
  BY <1>0, <1>1, CallStarters
<1>6. ASSUME ~seen'.met PROVE Tracks' /\ ShutdownAlone'
  <2>1. Tracks'
    BY <1>0, <1>1, <1>6 DEF Tracks, Registered, Stops, Inits, Known, Live
  <2>2. ShutdownAlone'
    BY <1>0, <1>1, <1>6 DEF ShutdownAlone, Live
  <2>. QED BY <2>1, <2>2
<1>. QED BY <1>2, <1>3, <1>4, <1>5, <1>6

LEMMA StoppedInv ==
  ASSUME AppsInv, NEW t \in Tasks, Stopped(t)
  PROVE  AppsInv'
<1>. USE DEF AppsInv
<1>. DEFINE i == call[t].instance
            step == IF call[t].op = "stop" THEN "end" ELSE "make"
<1>0. /\ call[t].at = "stop" /\ i \in Nat /\ i \in 0..Len(instances) /\ step \in {"end", "make"}
      /\ Goes(t, step, 0) /\ Becomes(i, "stopped")
      /\ UNCHANGED <<entry, failed, holder, files, changing, boot, released, down, seen>>
  BY DEF Stopped, AppTypes, Calls
<1>. HIDE DEF i, step
<1>1. /\ call' \in [Tasks -> Calls]
      /\ \A u \in Tasks : call'[u].app = call[u].app
      /\ \A u \in Tasks \ {t} : call'[u] = call[u]
      /\ call'[t].at = step /\ call'[t].instance = 0
  <2>1. call \in [Tasks -> Calls] /\ step \in Stages /\ 0 \in Nat
    BY <1>0 DEF AppTypes, Stages
  <2>2. Goes(t, step, 0)
    BY <1>0
  <2>. HIDE DEF AppsInv
  <2>. QED BY <1>0, <2>1, <2>2, GoesFacts
<1>2. /\ instances' \in Seq(Instance) /\ Len(instances') = Len(instances)
      /\ \A j \in 1..Len(instances) : instances'[j].app = instances[j].app
      /\ \A j \in 1..Len(instances) : instances'[j].at = IF j = i THEN "stopped" ELSE instances[j].at
  BY <1>0, BecomesFacts DEF AppTypes, Instances
<1>3. AppTypes'
  <2>1. /\ \A u \in Tasks : call[u].instance \in 0..Len(instances)
        /\ 0 \in 0..Len(instances)
    BY DEF AppTypes
  <2>2. \A u \in Tasks : call'[u].instance \in 0..Len(instances)
    BY <1>1, <2>1
  <2>. QED BY <1>0, <1>1, <1>2, <2>2 DEF AppTypes
<1>4. FileTypes'
  BY <1>0 DEF FileTypes, files
<1>5. Locks'
  BY <1>0, <1>1, InsideLocks DEF AppTypes, Inside
<1>6. Starters'
  BY <1>0, <1>1, CallStarters
<1>7. ASSUME ~seen'.met PROVE Tracks' /\ ShutdownAlone'
  <2>1. Tracks /\ ShutdownAlone
    BY <1>0, <1>7
  <2>2. i \in 1..Len(instances) /\ instances[i].app = call[t].app /\ instances[i].at = "stopping"
    BY <1>0, <2>1 DEF Tracks, Stops, i
  <2>3. \A j \in 1..Len(instances) : /\ instances'[j].app = instances[j].app
                                     /\ Live(j)' <=> Live(j)
    BY <1>0, <1>2, <2>2 DEF Live, Lives
  <2>4. \A a \in Apps : Registered(a)'
    BY <1>0, <2>1, <2>3 DEF Tracks, Registered, AppTypes
  <2>5. \A j \in 1..Len(instances') : Known(j)'
    BY <1>0, <1>2, <2>1, <2>3 DEF Tracks, Known
  <2>6. \A u \in Tasks \ {t} : call[u].at \in Inside => call[u].app # call[t].app
    BY <1>0, AloneInside DEF Inside
  <2>7. ASSUME NEW u \in Tasks \ {t} PROVE Stops(u)' /\ Inits(u)'
    <3>1. Stops(u) /\ Inits(u) /\ call'[u] = call[u] /\ call[u].instance \in 0..Len(instances)
      BY <1>1, <2>1 DEF Tracks, AppTypes
    <3>2. Locks /\ \A a \in Apps : Registered(a)
      BY <2>1 DEF Tracks
    <3>3. call[u].at \in {"stop", "init"} => call[u].instance # i
      BY <2>2, <2>6, <3>1, <3>2 DEF Stops, Inits, Inside, Registered, Locks
    <3>. QED BY <1>0, <1>2, <3>1, <3>3 DEF Stops, Inits
  <2>8. Stops(t)' /\ Inits(t)'
    BY <1>0, <1>1 DEF Stops, Inits
  <2>9. Tracks'
    BY <2>4, <2>5, <2>7, <2>8 DEF Tracks
  <2>10. ShutdownAlone'
    BY <1>0, <1>1, <1>2, <2>1, <2>3 DEF ShutdownAlone
  <2>. QED BY <2>9, <2>10
<1>. QED BY <1>3, <1>4, <1>5, <1>6, <1>7

LEMMA InitializedInv ==
  ASSUME AppsInv, NEW t \in Tasks, Initialized(t)
  PROVE  AppsInv'
<1>. USE DEF AppsInv
<1>. DEFINE i == call[t].instance
            a == call[t].app
<1>0. /\ call[t].at = "init" /\ i \in Nat /\ i \in 0..Len(instances) /\ a \in Apps
      /\ Goes(t, "end", 0)
      /\ UNCHANGED <<holder, files, changing, boot, released, down, seen>>
  BY DEF Initialized, AppTypes, Calls, Locks
<1>. HIDE DEF i, a
<1>1. /\ call' \in [Tasks -> Calls]
      /\ \A u \in Tasks : call'[u].app = call[u].app
      /\ \A u \in Tasks \ {t} : call'[u] = call[u]
      /\ call'[t].at = "end" /\ call'[t].instance = 0
  <2>1. call \in [Tasks -> Calls] /\ "end" \in Stages /\ 0 \in Nat
    BY DEF AppTypes, Stages
  <2>. HIDE DEF AppsInv
  <2>. QED BY <1>0, <2>1, GoesFacts
<1>2. PICK s \in {"up", "stopped"} :
        /\ Becomes(i, s)
        /\ s = "up" => UNCHANGED <<entry, failed>>
        /\ s = "stopped" => entry' = [entry EXCEPT ![a] = 0] /\ failed' = failed \cup {a}
  BY DEF Initialized, i, a
<1>3. /\ instances' \in Seq(Instance) /\ Len(instances') = Len(instances)
      /\ \A j \in 1..Len(instances) : instances'[j].app = instances[j].app
      /\ \A j \in 1..Len(instances) : instances'[j].at = IF j = i THEN s ELSE instances[j].at
  <2>1. instances \in Seq(Instance) /\ s \in Instances
    BY DEF AppTypes, Instances, Lives
  <2>. HIDE DEF AppsInv
  <2>. QED BY <1>0, <1>2, <2>1, BecomesFacts
<1>4. AppTypes'
  <2>1. /\ entry' \in [Apps -> Nat] /\ failed' \subseteq Apps
        /\ holder' \in [Apps -> Tasks \cup {None}]
    BY <1>0, <1>2 DEF AppTypes
  <2>2. \A b \in Apps : entry'[b] = 0 \/ entry'[b] = entry[b]
    BY <1>2 DEF AppTypes
  <2>3. /\ \A b \in Apps : entry[b] \in 0..Len(instances)
        /\ \A u \in Tasks : call[u].instance \in 0..Len(instances)
        /\ 0 \in 0..Len(instances)
    BY DEF AppTypes
  <2>4. /\ \A b \in Apps : entry'[b] \in 0..Len(instances')
        /\ \A u \in Tasks : call'[u].instance \in 0..Len(instances')
    BY <1>1, <1>3, <2>2, <2>3
  <2>. QED BY <1>1, <1>3, <2>1, <2>4 DEF AppTypes
<1>5. FileTypes'
  BY <1>0 DEF FileTypes, files
<1>6. Locks'
  BY <1>0, <1>1, InsideLocks DEF AppTypes, Inside
<1>7. Starters'
  BY <1>0, <1>1, CallStarters
<1>8. ASSUME ~seen'.met PROVE Tracks' /\ ShutdownAlone'
  <2>1. Tracks /\ ShutdownAlone /\ Locks
    BY <1>0, <1>8
  <2>2. i \in 1..Len(instances) /\ instances[i].app = a /\ instances[i].at = "init" /\ entry[a] = i
    BY <1>0, <2>1 DEF Tracks, Inits, Registered, i, a
  <2>3. \A j \in 1..Len(instances) : /\ instances'[j].app = instances[j].app
                                     /\ Live(j)' => Live(j)
    BY <1>0, <1>3, <2>2 DEF Live, Lives
  <2>4. \A b \in Apps : entry'[b] = entry[b] \/ (b = a /\ entry'[b] = 0)
    BY <1>0, <1>2 DEF AppTypes
  <2>5. \A b \in Apps : Registered(b)'
    BY <1>0, <2>1, <2>3, <2>4 DEF Tracks, Registered, AppTypes
  <2>6. ASSUME NEW j \in 1..Len(instances'), Live(j)' PROVE Known(j)'
    <3>1. Live(j) /\ entry[instances[j].app] = j /\ instances'[j].app = instances[j].app
          /\ instances[j].app \in Apps
      <4>1. j \in 1..Len(instances) /\ Live(j) /\ instances'[j].app = instances[j].app
        BY <1>3, <2>3, <2>6
      <4>2. instances[j] \in Instance
        BY <4>1 DEF AppTypes
      <4>. QED BY <2>1, <4>1, <4>2 DEF Tracks, Known, Instance
    <3>2. CASE s = "up"
      BY <1>2, <3>1, <3>2 DEF Known
    <3>3. CASE s = "stopped"
      <4>1. j # i
        BY <1>3, <2>2, <2>6, <3>3 DEF Live, Lives
      <4>2. instances[j].app # a
        BY <2>2, <3>1, <4>1
      <4>. QED BY <2>4, <3>1, <4>2 DEF Known
    <3>. QED BY <3>2, <3>3
  <2>7. \A u \in Tasks \ {t} : call[u].at \in Inside => call[u].app # a
    BY <1>0, AloneInside DEF Inside, a
  <2>8. ASSUME NEW u \in Tasks \ {t} PROVE Stops(u)' /\ Inits(u)'
    <3>1. Stops(u) /\ Inits(u) /\ call'[u] = call[u] /\ call[u].instance \in 0..Len(instances)
      BY <1>1, <2>1 DEF Tracks, AppTypes
    <3>2. call[u].at \in {"stop", "init"} => call[u].instance # i /\ call[u].app # a /\ call[u].app \in Apps
      BY <2>1, <2>2, <2>7, <3>1 DEF Stops, Inits, Inside, Registered, Locks, Tracks
    <3>. QED BY <1>0, <1>3, <2>4, <3>1, <3>2 DEF Stops, Inits
  <2>9. Stops(t)' /\ Inits(t)'
    BY <1>0, <1>1 DEF Stops, Inits
  <2>10. Tracks'
    BY <2>5, <2>6, <2>8, <2>9 DEF Tracks, Known
  <2>11. ShutdownAlone'
    BY <1>0, <1>1, <1>3, <2>1, <2>3 DEF ShutdownAlone
  <2>. QED BY <2>10, <2>11
<1>. QED BY <1>4, <1>5, <1>6, <1>7, <1>8

LEMMA TakeInv ==
  ASSUME AppsInv, NEW t \in Tasks, Take(t)
  PROVE  AppsInv'
<1>. USE DEF AppsInv
<1>. DEFINE a == call[t].app
            i == entry[a]
<1>0. /\ call[t].at = "lock" /\ a \in Apps /\ holder[a] = None
      /\ holder' = [holder EXCEPT ![a] = t]
      /\ UNCHANGED <<files, changing, boot, released, down>>
  BY DEF Take, Free, Locks
<1>. HIDE DEF i, a
<1>1. CASE call[t].op = "start"
  <2>0. Goes(t, "make", 0) /\ UNCHANGED <<entry, failed, instances, seen>>
    BY <1>1 DEF Take
  <2>1. /\ call' \in [Tasks -> Calls]
        /\ \A u \in Tasks : call'[u].app = call[u].app
        /\ \A u \in Tasks \ {t} : call'[u] = call[u]
        /\ call'[t].at = "make" /\ call'[t].instance = 0
    <3>1. call \in [Tasks -> Calls] /\ "make" \in Stages /\ 0 \in Nat
      BY DEF AppTypes, Stages
    <3>. HIDE DEF AppsInv
    <3>. QED BY <2>0, <3>1, GoesFacts
  <2>2. AppTypes'
    <3>1. /\ \A u \in Tasks : call[u].instance \in 0..Len(instances)
          /\ 0 \in 0..Len(instances)
          /\ holder' \in [Apps -> Tasks \cup {None}]
      BY <1>0 DEF AppTypes
    <3>2. \A u \in Tasks : call'[u].instance \in 0..Len(instances)
      BY <2>1, <3>1
    <3>. QED BY <1>0, <2>0, <2>1, <3>1, <3>2 DEF AppTypes
  <2>3. FileTypes'
    BY <1>0, <2>0 DEF FileTypes, files
  <2>4. Locks'
    BY <1>0, <2>1, EnterLocks DEF AppTypes, Inside, a
  <2>5. Starters'
    BY <1>0, <2>0, <2>1, CallStarters
  <2>6. ASSUME ~seen'.met PROVE Tracks' /\ ShutdownAlone'
    BY <1>0, <2>0, <2>1, <2>6 DEF Tracks, ShutdownAlone, Registered, Stops, Inits, Known, Live
  <2>. QED BY <2>2, <2>3, <2>4, <2>5, <2>6
<1>2. CASE call[t].op # "start"
  <2>0. /\ entry' = [entry EXCEPT ![a] = 0] /\ failed' = failed \ {a}
        /\ seen' = [seen EXCEPT !.off = IF t \in Requests THEN @ \cup {a} ELSE @]
    BY <1>2 DEF Take, a
  <2>. DEFINE stops == i # 0 /\ instances[i].at \in Lives
              step  == IF stops THEN "stop" ELSE IF call[t].op = "stop" THEN "end" ELSE "make"
              n     == IF stops THEN i ELSE 0
  <2>1. /\ Goes(t, step, n) /\ step \in Inside /\ step # "init" /\ (step = "stop" <=> stops)
        /\ stops => Becomes(i, "stopping")
        /\ ~stops => UNCHANGED instances
    BY <1>2 DEF Take, a, i, Inside
  <2>2. i \in Nat /\ i \in 0..Len(instances) /\ n \in Nat
    BY <1>0 DEF AppTypes, i
  <2>. HIDE DEF step, n
  <2>3. /\ call' \in [Tasks -> Calls]
        /\ \A u \in Tasks : call'[u].app = call[u].app
        /\ \A u \in Tasks \ {t} : call'[u] = call[u]
        /\ call'[t].at = step /\ call'[t].instance = n
    <3>1. call \in [Tasks -> Calls] /\ step \in Stages
      BY <2>1 DEF AppTypes, Stages, Inside
    <3>. HIDE DEF AppsInv
    <3>. QED BY <2>1, <2>2, <3>1, GoesFacts
  <2>4. /\ instances' \in Seq(Instance) /\ Len(instances') = Len(instances)
        /\ \A j \in 1..Len(instances) : instances'[j].app = instances[j].app
        /\ \A j \in 1..Len(instances) :
              instances'[j].at = IF stops /\ j = i THEN "stopping" ELSE instances[j].at
    <3>1. instances \in Seq(Instance) /\ "stopping" \in Instances
      BY DEF AppTypes, Instances
    <3>. HIDE DEF AppsInv
    <3>2. CASE stops
      BY <2>1, <2>2, <3>1, <3>2, BecomesFacts
    <3>3. CASE ~stops
      BY <2>1, <3>1, <3>3
    <3>. QED BY <3>2, <3>3
  <2>5. AppTypes'
    <3>1. n \in 0..Len(instances)
      BY <2>2 DEF n
    <3>2. /\ entry' \in [Apps -> Nat] /\ failed' \subseteq Apps
          /\ holder' \in [Apps -> Tasks \cup {None}]
      BY <1>0, <2>0 DEF AppTypes
    <3>3. \A b \in Apps : entry'[b] = 0 \/ entry'[b] = entry[b]
      BY <2>0 DEF AppTypes
    <3>4. /\ \A b \in Apps : entry[b] \in 0..Len(instances)
          /\ \A u \in Tasks : call[u].instance \in 0..Len(instances)
          /\ 0 \in 0..Len(instances)
      BY DEF AppTypes
    <3>5. /\ \A b \in Apps : entry'[b] \in 0..Len(instances')
          /\ \A u \in Tasks : call'[u].instance \in 0..Len(instances')
      BY <2>3, <2>4, <3>1, <3>3, <3>4
    <3>. QED BY <2>3, <2>4, <3>2, <3>5 DEF AppTypes
  <2>6. seen' \in History /\ seen'.met = seen.met /\ seen'.replaced = seen.replaced
    BY <1>0, <2>0 DEF FileTypes, History
  <2>7. FileTypes'
    BY <1>0, <2>6 DEF FileTypes, files
  <2>8. Locks'
    <3>1. call'[t].at \notin {"stop", "init"} => call'[t].instance = 0
      BY <2>1, <2>3 DEF n
    <3>. QED BY <1>0, <2>1, <2>3, <3>1, EnterLocks DEF AppTypes, a
  <2>9. Starters'
    BY <1>0, <2>3, <2>6, CallStarters
  <2>10. ASSUME ~seen'.met PROVE Tracks' /\ ShutdownAlone'
    <3>1. Tracks /\ ShutdownAlone /\ Locks
      BY <2>6, <2>10
    <3>2. i # 0 => i \in 1..Len(instances) /\ instances[i].app = a
      BY <1>0, <2>2, <3>1 DEF Tracks, Registered, i
    <3>3. \A j \in 1..Len(instances) : Live(j)' => Live(j) /\ ~(j = i)
      BY <2>4, <2>6 DEF Live, Lives
    <3>4. /\ \A b \in Apps \ {a} : entry'[b] = entry[b]
          /\ entry'[a] = 0
      BY <1>0, <2>0 DEF AppTypes
    <3>5. \A b \in Apps : Registered(b)'
      BY <2>4, <3>1, <3>4 DEF Tracks, Registered, AppTypes
    <3>6. ASSUME NEW j \in 1..Len(instances'), Live(j)' PROVE Known(j)'
      <4>1. Live(j) /\ j # i /\ entry[instances[j].app] = j /\ instances'[j].app = instances[j].app
            /\ instances[j].app \in Apps
        <5>1. j \in 1..Len(instances) /\ Live(j) /\ j # i
          BY <2>4, <3>3, <3>6
        <5>2. instances[j] \in Instance
          BY <5>1 DEF AppTypes
        <5>. QED BY <2>4, <3>1, <5>1, <5>2 DEF Tracks, Known, Instance
      <4>2. instances[j].app # a
        BY <4>1 DEF i
      <4>. QED BY <3>4, <4>1, <4>2 DEF Known
    <3>7. \A u \in Tasks : call[u].at \in Inside => call[u].app # a
      BY <1>0, <3>1, TaskNames DEF Locks
    <3>8. ASSUME NEW u \in Tasks \ {t} PROVE Stops(u)' /\ Inits(u)'
      <4>1. Stops(u) /\ Inits(u) /\ call'[u] = call[u] /\ call[u].instance \in 0..Len(instances)
        BY <2>3, <3>1 DEF Tracks, AppTypes
      <4>2. call[u].at \in {"stop", "init"} =>
              /\ call[u].app # a /\ call[u].app \in Apps
              /\ call[u].instance \in 1..Len(instances) /\ instances[call[u].instance].app = call[u].app
        BY <3>1, <3>7, <4>1 DEF Stops, Inits, Inside, Registered, Locks, Tracks
      <4>3. call[u].at \in {"stop", "init"} => ~(stops /\ call[u].instance = i)
        BY <3>2, <4>2
      <4>. QED BY <2>4, <3>4, <4>1, <4>2, <4>3 DEF Stops, Inits
    <3>9. Stops(t)' /\ Inits(t)'
      <4>1. stops => n = i /\ i # 0
        BY DEF n
      <4>. QED BY <2>1, <2>3, <2>4, <3>2, <4>1 DEF Stops, Inits, a
    <3>10. Tracks'
      BY <3>5, <3>6, <3>8, <3>9 DEF Tracks, Known
    <3>11. down.at = "up"
      BY <1>0, <3>1 DEF ShutdownAlone
    <3>12. ShutdownAlone'
      BY <1>0, <3>11 DEF ShutdownAlone
    <3>. QED BY <3>10, <3>12
  <2>. QED BY <2>5, <2>7, <2>8, <2>9, <2>10
<1>. QED BY <1>1, <1>2

LEMMA MakesInv ==
  ASSUME AppsInv, NEW t \in Tasks, Makes(t)
  PROVE  AppsInv'
<1>. USE DEF AppsInv
<1>. DEFINE a == call[t].app
            i == Len(instances) + 1
            replaced == IF entry[a] # 0 THEN {entry[a]} ELSE {}
            made == [app |-> a, section |-> manifests[a], at |-> "init"]
<1>0. /\ call[t].at = "make" /\ a \in Apps
      /\ UNCHANGED <<holder, files, changing, boot, released, down>>
      /\ i \in Nat \ {0} /\ replaced \subseteq Nat
  BY DEF Makes, Locks, AppTypes
<1>. HIDE DEF a, i, replaced
\* The manifest has gone.
<1>1. ASSUME Goes(t, "end", 0), UNCHANGED <<entry, failed, instances>>,
             seen' \in History, seen'.met = seen.met, seen'.replaced = seen.replaced
      PROVE  AppsInv'
  <2>1. /\ call' \in [Tasks -> Calls]
        /\ \A u \in Tasks : call'[u].app = call[u].app
        /\ \A u \in Tasks \ {t} : call'[u] = call[u]
        /\ call'[t].at = "end" /\ call'[t].instance = 0
    <3>1. call \in [Tasks -> Calls] /\ "end" \in Stages /\ 0 \in Nat
      BY DEF AppTypes, Stages
    <3>. HIDE DEF AppsInv
    <3>. QED BY <1>1, <3>1, GoesFacts
  <2>2. AppTypes'
    <3>1. /\ \A u \in Tasks : call[u].instance \in 0..Len(instances)
          /\ 0 \in 0..Len(instances)
      BY DEF AppTypes
    <3>2. \A u \in Tasks : call'[u].instance \in 0..Len(instances)
      BY <2>1, <3>1
    <3>. QED BY <1>0, <1>1, <2>1, <3>2 DEF AppTypes
  <2>3. FileTypes'
    BY <1>0, <1>1 DEF FileTypes, files
  <2>4. Locks'
    BY <1>0, <2>1, InsideLocks DEF AppTypes, Inside
  <2>5. Starters'
    BY <1>0, <1>1, <2>1, CallStarters
  <2>6. ASSUME ~seen'.met PROVE Tracks' /\ ShutdownAlone'
    BY <1>0, <1>1, <2>1, <2>6 DEF Tracks, ShutdownAlone, Registered, Stops, Inits, Known, Live
  <2>. QED BY <2>2, <2>3, <2>4, <2>5, <2>6
\* The class or its configuration is at fault.
<1>2. ASSUME Goes(t, "end", 0), UNCHANGED instances,
             entry' = [entry EXCEPT ![a] = 0], failed' = failed \cup {a},
             seen' \in History, seen'.met = seen.met, seen'.replaced = seen.replaced \cup replaced
      PROVE  AppsInv'
  <2>1. /\ call' \in [Tasks -> Calls]
        /\ \A u \in Tasks : call'[u].app = call[u].app
        /\ \A u \in Tasks \ {t} : call'[u] = call[u]
        /\ call'[t].at = "end" /\ call'[t].instance = 0
    <3>1. call \in [Tasks -> Calls] /\ "end" \in Stages /\ 0 \in Nat
      BY DEF AppTypes, Stages
    <3>. HIDE DEF AppsInv
    <3>. QED BY <1>2, <3>1, GoesFacts
  <2>2. AppTypes'
    <3>1. entry' \in [Apps -> Nat] /\ failed' \subseteq Apps /\ holder' \in [Apps -> Tasks \cup {None}]
      BY <1>0, <1>2 DEF AppTypes
    <3>2. \A b \in Apps : entry'[b] = 0 \/ entry'[b] = entry[b]
      BY <1>2 DEF AppTypes
    <3>3. /\ \A b \in Apps : entry[b] \in 0..Len(instances)
          /\ \A u \in Tasks : call[u].instance \in 0..Len(instances)
          /\ instances \in Seq(Instance) /\ 0 \in 0..Len(instances)
      BY DEF AppTypes
    <3>. QED BY <1>2, <2>1, <3>1, <3>2, <3>3 DEF AppTypes
  <2>3. FileTypes'
    BY <1>0, <1>2 DEF FileTypes, files
  <2>4. Locks'
    BY <1>0, <2>1, InsideLocks DEF AppTypes, Inside
  <2>5. Starters'
    BY <1>0, <1>2, <2>1, CallStarters
  <2>6. ASSUME ~seen'.met PROVE Tracks' /\ ShutdownAlone'
    <3>1. Tracks /\ ShutdownAlone
      BY <1>2, <2>6
    <3>2. \A b \in Apps : entry'[b] = IF b = a THEN 0 ELSE entry[b]
      BY <1>2 DEF AppTypes
    <3>3. \A u \in Tasks \ {t} : call[u].at \in Inside => call[u].app # a
      BY <1>0, AloneInside DEF Inside, a
    <3>4. ASSUME NEW u \in Tasks PROVE Stops(u)' /\ Inits(u)'
      BY <1>2, <2>1, <3>1, <3>2, <3>3 DEF Tracks, Stops, Inits, Inside, Locks
    <3>5. ASSUME NEW j \in 1..Len(instances'), Live(j)' PROVE Known(j)'
      <4>1. Live(j) /\ j \notin replaced /\ j \in 1..Len(instances)
        BY <1>2, <3>5 DEF Live
      <4>2. entry[instances[j].app] = j /\ j # 0
        BY <3>1, <4>1 DEF Tracks, Known
      <4>3. instances[j].app # a
        BY <4>1, <4>2 DEF replaced
      <4>4. instances[j] \in Instance
        BY <4>1 DEF AppTypes
      <4>. QED BY <1>2, <3>2, <4>2, <4>3, <4>4 DEF Known, Instance
    <3>6. \A b \in Apps : Registered(b)'
      BY <1>2, <3>1, <3>2 DEF Tracks, Registered
    <3>7. down.at = "up"
      BY <1>0, <3>1 DEF ShutdownAlone
    <3>. QED BY <1>0, <3>4, <3>5, <3>6, <3>7 DEF Tracks, Known, ShutdownAlone
  <2>. QED BY <2>2, <2>3, <2>4, <2>5, <2>6
\* The instance is made and registered.
<1>3. ASSUME Goes(t, "init", i), instances' = Append(instances, made),
             entry' = [entry EXCEPT ![a] = i], failed' = failed \ {a}, manifests[a] # "absent",
             seen' \in History, seen'.met = seen.met, seen'.replaced = seen.replaced \cup replaced
      PROVE  AppsInv'
  <2>1. /\ call' \in [Tasks -> Calls]
        /\ \A u \in Tasks : call'[u].app = call[u].app
        /\ \A u \in Tasks \ {t} : call'[u] = call[u]
        /\ call'[t].at = "init" /\ call'[t].instance = i
    <3>1. call \in [Tasks -> Calls] /\ "init" \in Stages
      BY DEF AppTypes, Stages
    <3>. HIDE DEF AppsInv
    <3>. QED BY <1>0, <1>3, <3>1, GoesFacts
  <2>0. made \in Instance
    BY <1>0, <1>3 DEF FileTypes, Sections, Instance, Lives
  <2>2. /\ instances' \in Seq(Instance) /\ Len(instances') = Len(instances) + 1
        /\ \A j \in 1..Len(instances) : instances'[j] = instances[j]
        /\ instances'[i] = made
        /\ Len(instances) \in Nat
    <3>1. instances \in Seq(Instance)
      BY DEF AppTypes
    <3>. HIDE DEF AppsInv, made
    <3>. QED BY <1>3, <2>0, <3>1, MadeFacts DEF i
  <2>a. i = Len(instances) + 1
    BY DEF i
  <2>3. AppTypes'
    <3>1. entry' \in [Apps -> Nat] /\ failed' \subseteq Apps /\ holder' \in [Apps -> Tasks \cup {None}]
      BY <1>0, <1>3 DEF AppTypes
    <3>2. \A b \in Apps : entry'[b] = i \/ entry'[b] = entry[b]
      BY <1>3 DEF AppTypes
    <3>3. /\ \A b \in Apps : entry[b] \in 0..Len(instances)
          /\ \A u \in Tasks : call[u].instance \in 0..Len(instances)
      BY DEF AppTypes
    <3>4. \A n \in 0..Len(instances) : n \in 0..Len(instances')
      BY <2>2
    <3>5. i \in 0..Len(instances')
      BY <2>2, <2>a
    <3>6. \A b \in Apps : entry'[b] \in 0..Len(instances')
      BY <3>2, <3>3, <3>4, <3>5
    <3>7. \A u \in Tasks : call'[u].instance \in 0..Len(instances')
      BY <2>1, <3>3, <3>4, <3>5
    <3>. QED BY <2>1, <2>2, <3>1, <3>6, <3>7 DEF AppTypes
  <2>4. FileTypes'
    BY <1>0, <1>3 DEF FileTypes, files
  <2>5. Locks'
    BY <1>0, <2>1, InsideLocks DEF AppTypes, Inside
  <2>6. Starters'
    BY <1>0, <1>3, <2>1, CallStarters
  <2>7. ASSUME ~seen'.met PROVE Tracks' /\ ShutdownAlone'
    <3>1. Tracks /\ ShutdownAlone
      BY <1>3, <2>7
    <3>2. \A b \in Apps : entry'[b] = IF b = a THEN i ELSE entry[b]
      BY <1>3 DEF AppTypes
    <3>3. \A u \in Tasks \ {t} : call[u].at \in Inside => call[u].app # a
      BY <1>0, AloneInside DEF Inside, a
    <3>4. ASSUME NEW u \in Tasks \ {t} PROVE Stops(u)' /\ Inits(u)'
      <4>1. Stops(u) /\ Inits(u) /\ call'[u] = call[u] /\ call[u].instance \in 0..Len(instances)
        BY <2>1, <3>1 DEF Tracks, AppTypes
      <4>2. call[u].at \in {"stop", "init"} =>
              /\ call[u].app # a /\ call[u].app \in Apps
              /\ call[u].instance \in 1..Len(instances)
        BY <3>3, <4>1 DEF Stops, Inits, Inside, Locks
      <4>. QED BY <2>2, <3>2, <4>1, <4>2 DEF Stops, Inits
    <3>5. Stops(t)' /\ Inits(t)'
      BY <1>0, <2>1, <2>2, <3>2 DEF Stops, Inits, a
    <3>6. ASSUME NEW j \in 1..Len(instances'), Live(j)' PROVE Known(j)'
      <4>1. CASE j = i
        BY <1>0, <2>2, <3>2, <4>1 DEF Known
      <4>2. CASE j # i
        <5>1. Live(j) /\ j \notin replaced /\ j \in 1..Len(instances)
          BY <1>3, <2>2, <2>a, <3>6, <4>2 DEF Live
        <5>2. entry[instances[j].app] = j /\ j # 0
          BY <3>1, <5>1 DEF Tracks, Known
        <5>3. instances[j].app # a
          BY <5>1, <5>2 DEF replaced
        <5>4. instances[j] \in Instance
          BY <5>1 DEF AppTypes
        <5>. QED BY <2>2, <3>2, <5>1, <5>2, <5>3, <5>4 DEF Known, Instance
      <4>. QED BY <4>1, <4>2
    <3>7. ASSUME NEW b \in Apps PROVE Registered(b)'
      <4>1. Registered(b) /\ entry[b] \in 0..Len(instances)
        BY <3>1 DEF Tracks, AppTypes
      <4>. QED BY <1>0, <2>2, <3>2, <4>1 DEF Registered
    <3>8. down.at = "up"
      BY <1>0, <3>1 DEF ShutdownAlone
    <3>. QED BY <1>0, <3>4, <3>5, <3>6, <3>7, <3>8 DEF Tracks, Known, ShutdownAlone
  <2>. QED BY <2>3, <2>4, <2>5, <2>6, <2>7
<1>5. PICK ahead \in SUBSET Apps :
        \/ /\ Goes(t, "end", 0) /\ seen' = [seen EXCEPT !.early = ahead]
           /\ UNCHANGED <<entry, failed, instances>>
        \/ /\ manifests[a] # "absent" /\ instances' = Append(instances, made)
           /\ entry' = [entry EXCEPT ![a] = i] /\ failed' = failed \ {a}
           /\ seen' = [seen EXCEPT !.replaced = @ \cup replaced, !.off = @ \ {a}, !.early = ahead]
           /\ Goes(t, "init", i)
        \/ /\ entry' = [entry EXCEPT ![a] = 0] /\ failed' = failed \cup {a}
           /\ seen' = [seen EXCEPT !.replaced = @ \cup replaced, !.early = ahead]
           /\ Goes(t, "end", 0) /\ UNCHANGED instances
  <2>1. (IF pending # None /\ pending.orig[a] # manifests[a]
         THEN seen.early \cup {a} ELSE seen.early) \in SUBSET Apps
    BY <1>0 DEF FileTypes, History
  <2>. QED BY <2>1 DEF Makes, a, i, replaced
<1>6. seen.replaced \cup replaced \in SUBSET Nat /\ seen.off \ {a} \in SUBSET Apps /\ seen \in History
  BY <1>0 DEF FileTypes, History
<1>7. CASE /\ Goes(t, "end", 0) /\ seen' = [seen EXCEPT !.early = ahead]
           /\ UNCHANGED <<entry, failed, instances>>
  <2>1. seen' \in History /\ seen'.met = seen.met /\ seen'.replaced = seen.replaced
    BY <1>6, <1>7 DEF History
  <2>. QED BY <1>1, <1>7, <2>1
<1>8. CASE /\ manifests[a] # "absent" /\ instances' = Append(instances, made)
           /\ entry' = [entry EXCEPT ![a] = i] /\ failed' = failed \ {a}
           /\ seen' = [seen EXCEPT !.replaced = @ \cup replaced, !.off = @ \ {a}, !.early = ahead]
           /\ Goes(t, "init", i)
  <2>1. seen' \in History /\ seen'.met = seen.met /\ seen'.replaced = seen.replaced \cup replaced
    BY <1>6, <1>8 DEF History
  <2>. HIDE DEF made
  <2>. QED BY <1>3, <1>8, <2>1
<1>9. CASE /\ entry' = [entry EXCEPT ![a] = 0] /\ failed' = failed \cup {a}
           /\ seen' = [seen EXCEPT !.replaced = @ \cup replaced, !.early = ahead]
           /\ Goes(t, "end", 0) /\ UNCHANGED instances
  <2>1. seen' \in History /\ seen'.met = seen.met /\ seen'.replaced = seen.replaced \cup replaced
    BY <1>6, <1>9 DEF History
  <2>. QED BY <1>2, <1>9, <2>1
<1>. QED BY <1>5, <1>7, <1>8, <1>9

----------------------------------------------------------------------------
(* The handler of changes and the bootstrap *)

\* A step that leaves the apps alone.
LEMMA AppsAlone ==
  ASSUME AppsInv, UNCHANGED <<apps, down>>, FileTypes', Starters',
         seen'.replaced = seen.replaced, ~seen'.met => ~seen.met,
         ~seen'.met /\ down.at # "up" => UNCHANGED <<changing, boot>>
  PROVE  AppsInv'
<1>1. AppTypes' /\ Locks'
  BY DEF AppsInv, AppTypes, Locks, apps
<1>2. ~seen'.met => Tracks'
  BY DEF AppsInv, Tracks, Registered, Stops, Inits, Known, Live, apps
<1>3. ~seen'.met => ShutdownAlone'
  BY DEF AppsInv, ShutdownAlone, Live, apps
<1>. QED BY <1>1, <1>2, <1>3 DEF AppsInv

\* A task begins a call.
LEMMA BeginInv ==
  ASSUME AppsInv, NEW t \in Tasks, NEW op \in Ops, NEW a \in Apps, Begin(t, op, a),
         call[t].at = "off", UNCHANGED <<entry, failed, instances, holder, seen, down>>,
         FileTypes', Starters', ~seen.met => down.at = "up"
  PROVE  AppsInv'
<1>1. /\ call' \in [Tasks -> Calls]
      /\ \A u \in Tasks \ {t} : call'[u] = call[u]
      /\ call'[t].at = "lock" /\ call'[t].instance = 0 /\ call'[t].app = a
  BY BeginFacts DEF AppsInv, AppTypes
<1>2. AppTypes'
  <2>1. 0 \in 0..Len(instances) /\ \A u \in Tasks : call[u].instance \in 0..Len(instances)
    BY DEF AppsInv, AppTypes
  <2>2. \A u \in Tasks : call'[u].instance \in 0..Len(instances)
    BY <1>1, <2>1
  <2>. QED BY <1>1, <2>2 DEF AppsInv, AppTypes
<1>3. Locks'
  <2>1. \A b \in Apps : holder[b] # t
    BY TaskNames DEF AppsInv, Locks, Inside
  <2>2. Locks /\ (\A b \in Apps : holder[b] \in Tasks \cup {None}) /\ holder' = holder
    BY DEF AppsInv, AppTypes
  <2>3. \A u \in Tasks : call'[u].at # "off" => call'[u].app \in Apps
    BY <1>1, <2>2 DEF Locks
  <2>4. \A u \in Tasks : call'[u].at \in Inside => u # t /\ call'[u] = call[u]
    BY <1>1 DEF Inside
  <2>5. \A u \in Tasks : call'[u].at \in Inside => holder'[call'[u].app] = u
    BY <2>2, <2>4 DEF Locks
  <2>6. \A b \in Apps : holder'[b] # None => call'[holder'[b]].app = b /\ call'[holder'[b]].at \in Inside
    BY <1>1, <2>1, <2>2 DEF Locks
  <2>7. \A u \in Tasks : call'[u].at \notin {"stop", "init"} => call'[u].instance = 0
    BY <1>1, <2>2 DEF Locks
  <2>. QED BY <2>3, <2>5, <2>6, <2>7 DEF Locks
<1>4. ~seen'.met => Tracks'
  BY <1>1 DEF AppsInv, Tracks, Registered, Stops, Inits, Known, Live
<1>5. ~seen'.met => ShutdownAlone'
  BY DEF ShutdownAlone
<1>. QED BY <1>2, <1>3, <1>4, <1>5 DEF AppsInv

LEMMA AsksInv ==
  ASSUME AppsInv, NEW r \in Requests, Asks(r)
  PROVE  AppsInv'
<1>1. PICK a \in Configured, op \in {"start", "stop", "reload"} : Begin(r, op, a)
  BY DEF Asks
<1>2. /\ a \in Apps /\ op \in Ops /\ r \in Tasks /\ call[r].at = "off" /\ down.at = "up"
      /\ asked' = asked \cup {r}
      /\ UNCHANGED <<entry, failed, instances, holder, disk, manifests, orig, work,
                     changing, boot, down, seen>>
  BY TaskNames DEF Asks, Configured, Ops, AppsInv, Starters
<1>3. \A u \in Tasks \ {r} : call'[u] = call[u]
  BY <1>1, <1>2, BeginFacts DEF AppsInv, AppTypes
<1>4. FileTypes'
  BY <1>2 DEF AppsInv, FileTypes
<1>5. Starters'
  BY <1>2, <1>3, TaskNames DEF AppsInv, Starters
<1>. QED BY <1>1, <1>2, <1>4, <1>5, BeginInv

LEMMA AppliesInv ==
  ASSUME AppsInv, NEW t \in {"watcher", "boot"}, Applies(t)
  PROVE  AppsInv'
<1>1. PICK c \in work :
        /\ work' = work \ {c}
        /\ (IF Wanted(c) THEN (c.op = "stop" \/ released) /\ Begin(t, c.op, c.app) ELSE UNCHANGED call)
  BY DEF Applies
<1>2. /\ t \in Tasks /\ changing = t /\ call[t].at = "off" /\ t # None
      /\ UNCHANGED <<entry, failed, instances, holder, disk, manifests, orig, asked,
                     changing, boot, down, seen>>
  BY TaskNames DEF Applies
<1>3. c.op \in Ops /\ c.app \in Apps /\ work' \in Work
  BY <1>1 DEF AppsInv, FileTypes, Work
<1>4. FileTypes'
  BY <1>2, <1>3 DEF AppsInv, FileTypes
<1>5. \A u \in Tasks \ {t} : call'[u] = call[u]
  BY <1>1, <1>2, <1>3, BeginFacts DEF AppsInv, AppTypes
<1>6. Starters'
  BY <1>2, <1>5, TaskNames DEF AppsInv, Starters
<1>7. ~seen.met => down.at = "up"
  BY <1>2 DEF AppsInv, ShutdownAlone
<1>8. CASE UNCHANGED call
  BY <1>2, <1>4, <1>6, <1>8, AppsAlone DEF apps
<1>9. CASE Begin(t, c.op, c.app)
  BY <1>2, <1>3, <1>4, <1>6, <1>7, <1>9, BeginInv
<1>. QED BY <1>1, <1>8, <1>9

LEMMA AppliedInv ==
  ASSUME AppsInv, NEW t \in {"watcher", "boot"}, Refused \/ Applied(t)
  PROVE  AppsInv'
<1>1. /\ UNCHANGED <<apps, disk, manifests, asked, down, seen>>
      /\ work' = {} /\ changing' = None /\ call[changing].at = "off" /\ changing \in {"watcher", "boot"}
      /\ boot' \in {boot, "done", "crashed"} /\ orig' = orig
  BY DEF Refused, Applied, files
<1>2. orig' = None
  BY <1>1 DEF Refused, Applied, AppsInv, Starters
<1>3. FileTypes'
  BY <1>1 DEF AppsInv, FileTypes, Work
<1>4. \A u \in {"watcher", "boot"} : call[u].at = "off"
  BY <1>1 DEF AppsInv, Starters
<1>5. Starters'
  BY <1>1, <1>2, <1>4 DEF AppsInv, Starters, apps
<1>6. ~seen.met => down.at = "up"
  BY <1>1, TaskNames DEF AppsInv, ShutdownAlone
<1>. QED BY <1>1, <1>3, <1>5, <1>6, AppsAlone

LEMMA ChangesAreWork ==
  ASSUME NEW old, NEW new
  PROVE  Changes(old, new) \in Work
BY DEF Changes, Change, Work, Ops

LEMMA HandlesInv ==
  ASSUME AppsInv, Edits \/ Refreshes \/ Detects \/ Releases
  PROVE  AppsInv'
<1>1. CASE Edits
  <2>1. /\ disk' \in [Apps -> Sections]
        /\ UNCHANGED <<apps, manifests, orig, work, asked, changing, boot, down, seen>>
    BY <1>1 DEF Edits, AppsInv, FileTypes
  <2>2. FileTypes' /\ Starters'
    BY <2>1 DEF AppsInv, FileTypes, Starters, apps
  <2>. QED BY <2>1, <2>2, AppsAlone
<1>2. CASE Refreshes
  <2>1. /\ changing = None /\ changing' = "watcher" /\ manifests' \in [Apps -> Sections]
        /\ seen' = [seen EXCEPT !.met = @ \/ down.at # "up", !.unread = manifests' # disk]
        /\ UNCHANGED <<apps, disk, work, asked, boot, down>>
    BY <1>2 DEF Refreshes, Reloads, AppsInv, FileTypes, Sections
  <2>2. /\ seen' \in History /\ seen'.replaced = seen.replaced
        /\ seen'.met = (seen.met \/ down.at # "up")
    BY <2>1 DEF AppsInv, FileTypes, History
  <2>3. FileTypes'
    BY <2>1, <2>2 DEF AppsInv, FileTypes
  <2>4. Starters'
    BY <2>1, <2>2, TaskNames DEF AppsInv, Starters, apps
  <2>. QED BY <2>1, <2>2, <2>3, <2>4, AppsAlone
<1>3. CASE Detects
  <2>1. /\ changing = "watcher" /\ orig' = None
        /\ \/ \E old, new : work' = Changes(old, new)
           \/ work' = work
        /\ seen' = [seen EXCEPT !.misjudged = IF released /\ pending # None THEN @ \cup seen.early ELSE @]
        /\ UNCHANGED <<apps, disk, manifests, asked, changing, boot, down>>
    BY <1>3 DEF Detects, Judges
  <2>2. /\ seen' \in History /\ seen'.replaced = seen.replaced
        /\ seen'.met = seen.met
    BY <2>1 DEF AppsInv, FileTypes, History
  <2>3. work' \in Work
    BY <2>1, ChangesAreWork DEF AppsInv, FileTypes
  <2>4. FileTypes'
    BY <2>1, <2>2, <2>3 DEF AppsInv, FileTypes
  <2>5. Starters'
    BY <2>1, <2>2, TaskNames DEF AppsInv, Starters, apps
  <2>. QED BY <2>1, <2>2, <2>4, <2>5, AppsAlone
<1>4. CASE Releases
  <2>1. FileTypes' /\ Starters'
    BY <1>4 DEF Releases, AppsInv, FileTypes, Starters, apps, files
  <2>. QED BY <1>4, <2>1, AppsAlone DEF Releases
<1>. QED BY <1>1, <1>2, <1>3, <1>4

LEMMA BootInv ==
  ASSUME AppsInv, Boots \/ StartsApps \/ Replays
  PROVE  AppsInv'
<1>1. CASE Boots
  <2>1. /\ boot = "new" /\ boot' \in {"empty", "persist"} /\ UNCHANGED <<apps, files, changing, down>>
        /\ seen' = [seen EXCEPT !.waited = Configured = {} /\ Unchanged]
    BY <1>1 DEF Boots
  <2>2. seen' \in History /\ seen'.replaced = seen.replaced /\ seen'.met = seen.met
    BY <2>1 DEF AppsInv, FileTypes, History
  <2>3. FileTypes'
    BY <2>1, <2>2 DEF AppsInv, FileTypes, files
  <2>4. Starters'
    BY <2>1, <2>2, TaskNames DEF AppsInv, Starters, apps, files
  <2>5. ~seen.met => down.at = "up"
    BY <2>1 DEF AppsInv, ShutdownAlone
  <2>. QED BY <2>1, <2>2, <2>3, <2>4, <2>5, AppsAlone
<1>2. CASE Replays
  <2>1. /\ boot \in {"empty", "starting"} /\ boot' = "replay"
        /\ changing = None /\ changing' = "boot" /\ orig' = orig
        /\ \/ \E old, new : work' = Changes(old, new)
           \/ work' = {}
        /\ UNCHANGED <<apps, disk, manifests, asked, down, seen>>
    BY <1>2 DEF Replays
  <2>2. work' \in Work
    BY <2>1, ChangesAreWork DEF Work
  <2>3. FileTypes'
    BY <2>1, <2>2 DEF AppsInv, FileTypes
  <2>4. Starters'
    BY <2>1, TaskNames DEF AppsInv, Starters, apps
  <2>5. ~seen.met => down.at = "up"
    BY <2>1 DEF AppsInv, ShutdownAlone
  <2>. QED BY <2>1, <2>3, <2>4, <2>5, AppsAlone
<1>3. CASE StartsApps
  <2>. DEFINE S == {a \in Apps : manifests[a] = "auto"}
  <2>1. /\ boot = "persist" /\ boot' = "starting"
        /\ UNCHANGED <<entry, failed, instances, holder, files, changing, down>>
        /\ call' = [t \in Tasks |-> IF t \in S THEN [Quiet EXCEPT !.at = "admit", !.app = t] ELSE call[t]]
        /\ seen' = [seen EXCEPT !.waited = S # {} /\ Unchanged]
    BY <1>3 DEF StartsApps
  <2>2. seen' \in History /\ seen'.replaced = seen.replaced /\ seen'.met = seen.met
    BY <2>1 DEF AppsInv, FileTypes, History
  <2>3. /\ call' \in [Tasks -> Calls]
        /\ \A t \in Tasks : \/ call'[t] = call[t]
                            \/ /\ t \in Apps /\ call[t].at = "off"
                               /\ call'[t].at = "admit" /\ call'[t].app = t /\ call'[t].instance = 0
    BY <2>1, TaskNames DEF AppsInv, AppTypes, Starters, Calls, Quiet, Stages, Ops
  <2>. HIDE DEF S
  <2>4. AppTypes'
    <3>1. 0 \in 0..Len(instances) /\ \A u \in Tasks : call[u].instance \in 0..Len(instances)
      BY DEF AppsInv, AppTypes
    <3>2. \A u \in Tasks : call'[u].instance \in 0..Len(instances)
      BY <2>3, <3>1
    <3>. QED BY <2>1, <2>3, <3>2 DEF AppsInv, AppTypes
  <2>5. FileTypes'
    BY <2>1, <2>2 DEF AppsInv, FileTypes, files
  <2>6. Locks'
    <3>1. /\ \A t \in Tasks : call'[t].at \in Inside => call'[t] = call[t]
          /\ \A t \in Tasks : call[t].at \in Inside => call'[t] = call[t]
      BY <2>3 DEF Inside
    <3>2. \A a \in Apps : holder[a] # None => holder[a] \in Tasks
      BY DEF AppsInv, AppTypes
    <3>3. \A a \in Apps : holder[a] # None => call'[holder[a]].app = a /\ call'[holder[a]].at \in Inside
      BY <3>1, <3>2 DEF AppsInv, Locks
    <3>4. \A t \in Tasks : call'[t].at \in Inside => holder[call'[t].app] = t
      BY <3>1 DEF AppsInv, Locks
    <3>5. /\ \A t \in Tasks : call'[t].at # "off" => call'[t].app \in Apps
          /\ \A t \in Tasks : call'[t].at \notin {"stop", "init"} => call'[t].instance = 0
      BY <2>3 DEF AppsInv, Locks
    <3>6. holder' = holder
      BY <2>1
    <3>. QED BY <3>3, <3>4, <3>5, <3>6 DEF Locks
  <2>7. Starters'
    <3>1. \A t \in Requests \cup {"watcher", "boot"} : call'[t] = call[t]
      BY <2>3, TaskNames
    <3>2. Starters /\ boot' = "starting" /\ UNCHANGED <<work, orig, asked, changing, down>>
      BY <2>1 DEF AppsInv, files
    <3>. QED BY <2>2, <3>1, <3>2 DEF Starters
  <2>8. ASSUME ~seen'.met PROVE Tracks'
    <3>1. Tracks
      BY <2>2, <2>8 DEF AppsInv
    <3>2. \A t \in Tasks : call'[t].at \in {"stop", "init"} => call'[t] = call[t]
      BY <2>3
    <3>3. ASSUME NEW t \in Tasks PROVE Stops(t)' /\ Inits(t)'
      <4>1. Stops(t) /\ Inits(t) /\ UNCHANGED <<entry, instances>>
        BY <2>1, <3>1 DEF Tracks
      <4>2. call'[t].at \in {"stop", "init"} => call'[t] = call[t]
        BY <3>2
      <4>. QED BY <4>1, <4>2 DEF Stops, Inits
    <3>4. (\A a \in Apps : Registered(a)') /\ \A i \in 1..Len(instances') : Known(i)'
      BY <2>1, <2>2, <3>1 DEF Tracks, Registered, Known, Live
    <3>. QED BY <3>3, <3>4 DEF Tracks
  <2>9. ~seen'.met => ShutdownAlone'
    BY <2>1, <2>2 DEF AppsInv, ShutdownAlone
  <2>. QED BY <2>4, <2>5, <2>6, <2>7, <2>8, <2>9 DEF AppsInv
<1>. QED BY <1>1, <1>2, <1>3

LEMMA AdmittedInv ==
  ASSUME AppsInv, NEW a \in Apps, Admitted(a)
  PROVE  AppsInv'
<1>1. /\ call[a].at = "admit" /\ a \in Tasks
      /\ call' = [call EXCEPT ![a].at = "lock"]
      /\ UNCHANGED <<entry, failed, instances, holder, files, changing, boot, down, seen>>
  BY TaskNames DEF Admitted
<1>2. /\ call' \in [Tasks -> Calls]
      /\ \A u \in Tasks \ {a} : call'[u] = call[u]
      /\ call'[a].at = "lock" /\ call'[a].app = call[a].app /\ call'[a].instance = call[a].instance
  BY <1>1 DEF AppsInv, AppTypes, Calls, Stages
<1>3. AppTypes'
  <2>1. \A u \in Tasks : call[u].instance \in 0..Len(instances)
    BY DEF AppsInv, AppTypes
  <2>2. \A u \in Tasks : call'[u].instance \in 0..Len(instances)
    BY <1>2, <2>1
  <2>. QED BY <1>1, <1>2, <2>2 DEF AppsInv, AppTypes
<1>4. FileTypes'
  BY <1>1 DEF AppsInv, FileTypes, files
<1>5. Locks'
  <2>1. \A b \in Apps : holder[b] # a
    BY <1>1, TaskNames DEF AppsInv, Locks, Inside
  <2>2. call'[a].instance = 0 /\ call'[a].app \in Apps
    BY <1>1, <1>2 DEF AppsInv, Locks
  <2>. QED BY <1>1, <1>2, <2>1, <2>2 DEF AppsInv, AppTypes, Locks, Inside
<1>6. Starters'
  BY <1>1, <1>2, CallStarters DEF AppsInv
<1>7. ~seen'.met => Tracks'
  BY <1>1, <1>2 DEF AppsInv, Tracks, Registered, Stops, Inits, Known, Live
<1>8. ~seen'.met => ShutdownAlone'
  BY <1>1 DEF AppsInv, ShutdownAlone
<1>. QED BY <1>3, <1>4, <1>5, <1>6, <1>7, <1>8 DEF AppsInv

----------------------------------------------------------------------------
(* The shutdown *)

\* Cancelled calls are gone, their locks are free, and what they had in their hands does
\* not run.
LEMMA CutFacts ==
  ASSUME AppsInv, NEW S \in SUBSET Tasks, Cut(S)
  PROVE  /\ call' \in [Tasks -> Calls]
         /\ \A t \in Tasks \ S : call'[t] = call[t]
         /\ \A t \in S : call'[t] = Quiet
         /\ instances' \in Seq(Instance) /\ Len(instances') = Len(instances)
         /\ \A j \in 1..Len(instances) : instances'[j].app = instances[j].app
         /\ \A j \in 1..Len(instances) :
               IF \E t \in S : call[t].instance = j
               THEN instances'[j].at \in IF instances[j].at = "stopping" THEN {"stopped", "partly"}
                                                                        ELSE {"cut"}
               ELSE instances'[j].at = instances[j].at
         /\ holder' \in [Apps -> Tasks \cup {None}]
         /\ Locks'
<1>0. /\ instances \in Seq(Instance) /\ call \in [Tasks -> Calls]
      /\ holder \in [Apps -> Tasks \cup {None}]
  BY DEF AppsInv, AppTypes
<1>1. /\ call' \in [Tasks -> Calls]
      /\ \A t \in Tasks \ S : call'[t] = call[t]
      /\ \A t \in S : call'[t] = Quiet
  BY <1>0 DEF Cut, Quiet, Calls, Stages, Ops
<1>2. /\ DOMAIN instances = 1..Len(instances) /\ Len(instances) \in Nat
      /\ \A j \in 1..Len(instances) : instances[j] \in Instance
  BY <1>0
<1>3. PICK end \in {"stopped", "partly"} :
         instances' = [j \in DOMAIN instances |->
             IF \E t \in S : call[t].instance = j
             THEN [instances[j] EXCEPT !.at = IF @ = "stopping" THEN end ELSE "cut"]
             ELSE instances[j]]
  BY DEF Cut
<1>. DEFINE after(j) ==
       IF \E t \in S : call[t].instance = j
       THEN [instances[j] EXCEPT !.at = IF @ = "stopping" THEN end ELSE "cut"]
       ELSE instances[j]
<1>4. ASSUME NEW j \in 1..Len(instances)
      PROVE  /\ after(j) \in Instance /\ after(j).app = instances[j].app
             /\ after(j).at = IF \E t \in S : call[t].instance = j
                              THEN IF instances[j].at = "stopping" THEN end ELSE "cut"
                              ELSE instances[j].at
  <2>. DEFINE new == IF instances[j].at = "stopping" THEN end ELSE "cut"
  <2>1. instances[j] \in Instance /\ new \in Lives \cup {"stopping", "stopped", "partly"}
    BY <1>2 DEF Lives
  <2>2. [instances[j] EXCEPT !.at = new] \in Instance /\ [instances[j] EXCEPT !.at = new].at = new
        /\ [instances[j] EXCEPT !.at = new].app = instances[j].app
    BY <2>1 DEF Instance
  <2>. QED BY <2>1, <2>2
<1>5. instances' = [j \in 1..Len(instances) |-> after(j)]
  BY <1>2, <1>3
<1>. HIDE DEF after
<1>6. instances' \in Seq(Instance) /\ Len(instances') = Len(instances)
  BY <1>2, <1>4, <1>5
<1>7. holder' = [a \in Apps |-> IF holder[a] \in S THEN None ELSE holder[a]]
  BY DEF Cut
<1>8. Locks'
  <2>1. Locks
    BY DEF AppsInv
  <2>2. \A t \in Tasks : call'[t].at # "off" => t \notin S /\ call'[t] = call[t]
    BY <1>1 DEF Quiet
  <2>3. \A t \in Tasks : call'[t].at # "off" => call'[t].app \in Apps
    BY <2>1, <2>2 DEF Locks
  <2>4. \A t \in Tasks : call'[t].at \in Inside => holder'[call'[t].app] = t
    BY <1>7, <2>1, <2>2, <2>3 DEF Locks, Inside
  <2>5. \A a \in Apps : holder'[a] # None => holder'[a] = holder[a] /\ holder[a] \in Tasks \ S
    BY <1>0, <1>7
  <2>6. \A a \in Apps : holder'[a] # None => call'[holder'[a]].app = a /\ call'[holder'[a]].at \in Inside
    BY <1>1, <2>1, <2>5 DEF Locks
  <2>7. \A t \in Tasks : call'[t].at \notin {"stop", "init"} => call'[t].instance = 0
    BY <1>1, <2>1 DEF Locks, Quiet
  <2>. QED BY <2>3, <2>4, <2>6, <2>7 DEF Locks
<1>9. holder' \in [Apps -> Tasks \cup {None}]
  BY <1>0, <1>7
<1>10. ASSUME NEW j \in 1..Len(instances)
       PROVE  /\ instances'[j].app = instances[j].app
              /\ IF \E t \in S : call[t].instance = j
                 THEN instances'[j].at \in IF instances[j].at = "stopping" THEN {"stopped", "partly"}
                                                                          ELSE {"cut"}
                 ELSE instances'[j].at = instances[j].at
  <2>1. instances'[j] = after(j)
    BY <1>5
  <2>. QED BY <1>4, <2>1
<1>. QED BY <1>1, <1>6, <1>8, <1>9, <1>10

LEMMA CutTypes ==
  ASSUME AppsInv, NEW S \in SUBSET Tasks, Cut(S), UNCHANGED <<entry, failed>>
  PROVE  AppTypes'
<1>1. 0 \in 0..Len(instances) /\ \A t \in Tasks : call[t].instance \in 0..Len(instances)
  BY DEF AppsInv, AppTypes
<1>2. \A t \in Tasks : call'[t].instance \in 0..Len(instances)
  BY <1>1, CutFacts DEF Quiet
<1>. QED BY <1>2, CutFacts DEF AppsInv, AppTypes

\* Nothing comes to life that a cancelled call had in its hands.
LEMMA CutLive ==
  ASSUME AppsInv, Tracks, NEW S \in SUBSET Tasks, Cut(S), seen'.replaced = seen.replaced
  PROVE  \A j \in 1..Len(instances) : instances'[j].app = instances[j].app /\ (Live(j)' => Live(j))
<1>. SUFFICES ASSUME NEW j \in 1..Len(instances), Live(j)' PROVE Live(j)
  BY CutFacts
<1>1. CASE \E t \in S : call[t].instance = j
  <2>1. PICK t \in S : call[t].instance = j
    BY <1>1
  <2>2. call[t].at \in {"stop", "init"} /\ t \in Tasks
    BY <2>1 DEF AppsInv, Locks
  <2>3. instances[j].at \in {"stopping", "init"}
    BY <2>1, <2>2 DEF Tracks, Stops, Inits
  <2>. QED BY <1>1, <2>3, CutFacts DEF Live, Lives
<1>2. CASE ~ \E t \in S : call[t].instance = j
  BY <1>2, CutFacts DEF Live
<1>. QED BY <1>1, <1>2

\* What is known of the instances when no call is left.
LEMMA TracksAfter ==
  ASSUME AppTypes, Tracks, AppTypes', \A t \in Tasks : call'[t].at = "off",
         Len(instances') = Len(instances), UNCHANGED entry,
         \A j \in 1..Len(instances) : instances'[j].app = instances[j].app /\ (Live(j)' => Live(j))
  PROVE  Tracks'
<1>1. \A a \in Apps : Registered(a)'
  BY DEF AppTypes, Tracks, Registered
<1>2. \A t \in Tasks : Stops(t)' /\ Inits(t)'
  BY DEF Stops, Inits
<1>3. \A j \in 1..Len(instances') : Known(j)'
  BY DEF Tracks, Known
<1>. QED BY <1>1, <1>2, <1>3 DEF Tracks

LEMMA ClosesInv ==
  ASSUME AppsInv, Closes
  PROVE  AppsInv'
<1>. DEFINE S == Apps \cup {"boot"}
<1>1. /\ S \in SUBSET Tasks /\ Cut(S) /\ down.at = "up"
      /\ boot' = (IF boot = "crashed" THEN boot ELSE "done")
      /\ down' = [at |-> "stopping", keys |-> Running, instance |-> 0]
      /\ seen' = [seen EXCEPT !.met = changing = "watcher" \/ \E r \in Requests : call[r] # Quiet]
      /\ UNCHANGED <<entry, failed, disk, manifests, asked>>
      /\ changing' = (IF changing \in S THEN None ELSE changing)
      /\ work' = (IF changing \in S THEN {} ELSE work)
      /\ orig' = (IF changing \in S THEN None ELSE orig)
  BY TaskNames DEF Closes, Cut
<1>2. /\ ~seen.met /\ Tracks
      /\ seen' \in History /\ seen'.replaced = seen.replaced
      /\ seen'.met <=> changing = "watcher" \/ \E r \in Requests : call[r] # Quiet
  BY <1>1 DEF AppsInv, Starters, FileTypes, History
<1>3. /\ changing' \in {None, "watcher"} /\ work' \in Work
      /\ down' \in Shutdown /\ down'.at = "stopping" /\ down'.keys = Running
  BY <1>1 DEF AppsInv, FileTypes, Work, Shutdown, Running
<1>. HIDE DEF S
<1>4. AppTypes' /\ Locks'
  BY <1>1, CutTypes, CutFacts
<1>5. FileTypes'
  BY <1>1, <1>2, <1>3 DEF AppsInv, FileTypes
<1>6. \A t \in Tasks : call[t].at = "off" => call'[t].at = "off"
  BY <1>1, CutFacts DEF Quiet
<1>7. \A t \in S : call'[t].at = "off"
  BY <1>1, CutFacts DEF Quiet
<1>8. Starters'
  BY <1>1, <1>3, <1>6, <1>7, TaskNames DEF AppsInv, Starters, S
<1>9. ASSUME ~seen'.met PROVE Tracks' /\ ShutdownAlone'
  <2>1. changing # "watcher" /\ \A r \in Requests : call[r].at = "off"
    BY <1>2, <1>9 DEF Quiet
  <2>2. call["watcher"].at = "off"
    BY <2>1 DEF AppsInv, Starters
  <2>3. \A t \in Tasks : call'[t].at = "off"
    BY <1>6, <1>7, <2>1, <2>2 DEF Tasks, S
  <2>4. \A j \in 1..Len(instances) : instances'[j].app = instances[j].app /\ (Live(j)' => Live(j))
    BY <1>1, <1>2, CutLive
  <2>5. Len(instances') = Len(instances) /\ instances \in Seq(Instance)
    BY <1>1, CutFacts DEF AppsInv, AppTypes
  <2>6. Tracks'
    BY <1>1, <1>2, <1>4, <2>3, <2>4, <2>5, TracksAfter DEF AppsInv
  <2>7. changing' = None /\ boot' \in {"done", "crashed"}
    BY <1>1, <1>3, <2>1
  <2>8. ASSUME NEW j \in 1..Len(instances'), Live(j)' PROVE instances'[j].app \in down'.keys
    <3>1. j \in 1..Len(instances) /\ Live(j) /\ instances[j] \in Instance
      BY <2>4, <2>5, <2>8
    <3>2. entry[instances[j].app] = j /\ j # 0
      BY <1>2, <3>1 DEF Tracks, Known
    <3>. QED BY <1>3, <2>4, <3>1, <3>2 DEF Running, Instance
  <2>. QED BY <1>3, <2>3, <2>6, <2>7, <2>8 DEF ShutdownAlone
<1>. QED BY <1>4, <1>5, <1>8, <1>9 DEF AppsInv

\* A step of shutdown_all(): some instance is stopped or being stopped.
LEMMA ShutdownStep ==
  ASSUME AppsInv, UNCHANGED <<failed, holder, call, files, changing, boot, seen>>,
         entry' \in [Apps -> Nat], \A a \in Apps : entry'[a] \in {0, entry[a]},
         instances' \in Seq(Instance), Len(instances') = Len(instances),
         \A j \in 1..Len(instances) : instances'[j].app = instances[j].app /\ (Live(j)' => Live(j)),
         down' \in Shutdown, down.at # "up", down'.at # "up",
         ~seen.met => \A j \in 1..Len(instances) : Live(j)' =>
            entry' = entry /\ down'.at = "stopping" /\ instances[j].app \in down'.keys
  PROVE  AppsInv'
<1>1. AppTypes'
  <2>1. /\ \A a \in Apps : entry[a] \in 0..Len(instances)
        /\ 0 \in 0..Len(instances)
    BY DEF AppsInv, AppTypes
  <2>2. \A a \in Apps : entry'[a] \in 0..Len(instances')
    BY <2>1
  <2>. QED BY <2>2 DEF AppsInv, AppTypes
<1>2. FileTypes' /\ Locks' /\ Starters'
  BY DEF AppsInv, FileTypes, Locks, Starters, files
<1>3. ASSUME ~seen'.met PROVE Tracks' /\ ShutdownAlone'
  <2>1. Tracks /\ ShutdownAlone
    BY <1>3 DEF AppsInv
  <2>2. \A t \in Tasks : call[t].at = "off"
    BY <2>1 DEF ShutdownAlone
  <2>3. \A t \in Tasks : Stops(t)' /\ Inits(t)'
    BY <2>2 DEF Stops, Inits
  <2>4. ASSUME NEW a \in Apps PROVE Registered(a)'
    <3>1. Registered(a) /\ entry[a] \in 0..Len(instances) /\ entry'[a] \in {0, entry[a]}
      BY <2>1 DEF Tracks, AppsInv, AppTypes
    <3>. QED BY <3>1 DEF Registered
  <2>5. ASSUME NEW j \in 1..Len(instances'), Live(j)' PROVE Known(j)'
    <3>1. Live(j) /\ entry' = entry /\ instances'[j].app = instances[j].app
      BY <1>3, <2>5
    <3>. QED BY <2>1, <3>1 DEF Tracks, Known
  <2>6. Tracks'
    BY <2>3, <2>4, <2>5 DEF Tracks, Known
  <2>7. ShutdownAlone'
    BY <1>3, <2>1 DEF ShutdownAlone
  <2>. QED BY <2>6, <2>7
<1>. QED BY <1>1, <1>2, <1>3 DEF AppsInv

LEMMA ShutsDownInv ==
  ASSUME AppsInv, NEW a \in Apps, ShutsDown(a)
  PROVE  AppsInv'
<1>. DEFINE i == entry[a]
            stops == i # 0 /\ instances[i].at \in Lives
<1>1. /\ down.at = "stopping" /\ a \in down.keys /\ i \in Nat /\ instances \in Seq(Instance)
      /\ UNCHANGED <<entry, failed, holder, call, files, changing, boot, seen>>
      /\ stops => Becomes(i, "stopping") /\ down' = [down EXCEPT !.keys = @ \ {a}, !.instance = i]
      /\ ~stops => UNCHANGED instances /\ down' = [down EXCEPT !.keys = @ \ {a}]
      /\ down \in Shutdown /\ entry \in [Apps -> Nat]
  BY DEF ShutsDown, AppsInv, AppTypes, FileTypes
<1>2. down' \in Shutdown /\ down'.at = "stopping" /\ down'.keys = down.keys \ {a}
  BY <1>1 DEF Shutdown
<1>. HIDE DEF i
<1>3. /\ instances' \in Seq(Instance) /\ Len(instances') = Len(instances)
      /\ \A j \in 1..Len(instances) : instances'[j].app = instances[j].app
      /\ \A j \in 1..Len(instances) :
            instances'[j].at = IF stops /\ j = i THEN "stopping" ELSE instances[j].at
  <2>1. "stopping" \in Instances
    BY DEF Instances
  <2>2. CASE stops
    BY <1>1, <2>1, <2>2, BecomesFacts
  <2>3. CASE ~stops
    BY <1>1, <2>3
  <2>. QED BY <2>2, <2>3
<1>4. \A j \in 1..Len(instances) : Live(j)' => Live(j) /\ ~(stops /\ j = i)
  BY <1>1, <1>3 DEF Live, Lives
<1>5. ASSUME ~seen.met, NEW j \in 1..Len(instances), Live(j)'
      PROVE  instances[j].app \in down'.keys
  <2>1. Live(j) /\ ~(stops /\ j = i) /\ instances[j].app \in down.keys /\ entry[instances[j].app] = j
    BY <1>1, <1>4, <1>5 DEF AppsInv, ShutdownAlone, Tracks, Known
  <2>2. instances[j].at \in Lives /\ j # 0
    BY <2>1 DEF Live
  <2>3. instances[j].app # a
    BY <2>1, <2>2 DEF i
  <2>. QED BY <1>2, <2>1, <2>3
<1>. QED BY <1>1, <1>2, <1>3, <1>4, <1>5, ShutdownStep

LEMMA TearsDownInv ==
  ASSUME AppsInv, TearsDown
  PROVE  AppsInv'
<1>0. /\ down \in Shutdown /\ instances \in Seq(Instance) /\ entry \in [Apps -> Nat]
  BY DEF AppsInv, AppTypes, FileTypes
<1>1. CASE IsDown
  <2>1. /\ Becomes(down.instance, "stopped") /\ down' = [down EXCEPT !.instance = 0]
        /\ UNCHANGED <<entry, failed, holder, call, files, changing, boot, seen>>
        /\ down.instance # 0
    BY <1>1 DEF IsDown
  <2>2. down' \in Shutdown /\ down'.at = down.at /\ down'.keys = down.keys /\ down.instance \in Nat
    BY <1>0, <2>1 DEF Shutdown
  <2>3. /\ instances' \in Seq(Instance) /\ Len(instances') = Len(instances)
        /\ \A j \in 1..Len(instances) : instances'[j].app = instances[j].app
        /\ \A j \in 1..Len(instances) :
              instances'[j].at = IF j = down.instance THEN "stopped" ELSE instances[j].at
    <3>1. "stopped" \in Instances
      BY DEF Instances
    <3>. QED BY <1>0, <2>1, <2>2, <3>1, BecomesFacts
  <2>4. \A j \in 1..Len(instances) : Live(j)' => Live(j)
    BY <2>1, <2>3 DEF Live, Lives
  <2>5. down.at # "up"
    BY <2>1 DEF AppsInv, Starters
  <2>6. ASSUME ~seen.met, NEW j \in 1..Len(instances), Live(j)'
        PROVE  down'.at = "stopping" /\ instances[j].app \in down'.keys
    BY <1>0, <2>2, <2>4, <2>5, <2>6 DEF AppsInv, ShutdownAlone, Shutdown
  <2>. QED BY <1>0, <2>1, <2>2, <2>3, <2>4, <2>5, <2>6, ShutdownStep
<1>2. CASE Clears
  <2>1. /\ down.at = "stopping" /\ down.keys = {} /\ down' = [down EXCEPT !.at = "done"]
        /\ entry' = [a \in Apps |-> 0] /\ failed' = {}
        /\ UNCHANGED <<instances, holder, call, files, changing, boot, seen>>
    BY <1>2 DEF Clears
  <2>2. down' \in Shutdown /\ down'.at = "done"
    BY <1>0, <2>1 DEF Shutdown
  <2>3. \A j \in 1..Len(instances) : Live(j)' = Live(j)
    BY <2>1 DEF Live
  <2>4. ~seen.met => \A j \in 1..Len(instances) : ~Live(j)
    BY <2>1 DEF AppsInv, ShutdownAlone
  <2>5. AppTypes'
    BY <1>0, <2>1 DEF AppsInv, AppTypes
  <2>6. FileTypes' /\ Locks' /\ Starters'
    BY <2>1, <2>2 DEF AppsInv, FileTypes, Locks, Starters, files
  <2>7. ASSUME ~seen'.met PROVE Tracks' /\ ShutdownAlone'
    <3>1. Tracks /\ ShutdownAlone /\ \A t \in Tasks : call[t].at = "off"
      BY <2>1, <2>7 DEF AppsInv, ShutdownAlone
    <3>2. Tracks'
      BY <2>1, <2>3, <2>4, <2>7, <3>1 DEF Tracks, Registered, Stops, Inits, Known
    <3>. QED BY <2>1, <2>2, <2>3, <2>4, <2>7, <3>1, <3>2 DEF ShutdownAlone
  <2>. QED BY <2>5, <2>6, <2>7 DEF AppsInv
<1>3. CASE BusStops
  <2>. DEFINE S == {"watcher"}
  <2>1. /\ S \in SUBSET Tasks /\ Cut(S) /\ down.at = "done" /\ down' = [down EXCEPT !.at = "gone"]
        /\ UNCHANGED <<entry, failed, disk, manifests, asked, boot, seen>>
        /\ changing' = (IF changing \in S THEN None ELSE changing)
        /\ work' = (IF changing \in S THEN {} ELSE work)
        /\ orig' = (IF changing \in S THEN None ELSE orig)
    BY <1>3, TaskNames DEF BusStops, Cut
  <2>2. down' \in Shutdown /\ down'.at = "gone" /\ down'.keys = down.keys
        /\ changing' \in {None, "watcher", "boot"} /\ work' \in Work
    BY <1>0, <2>1 DEF Shutdown, AppsInv, FileTypes, Work
  <2>. HIDE DEF S
  <2>3. AppTypes' /\ Locks'
    BY <2>1, CutTypes, CutFacts
  <2>4. FileTypes'
    BY <2>1, <2>2 DEF AppsInv, FileTypes
  <2>5. \A t \in Tasks : call[t].at = "off" => call'[t].at = "off"
    BY <2>1, CutFacts DEF Quiet
  <2>6. \A t \in S : call'[t].at = "off"
    BY <2>1, CutFacts DEF Quiet
  <2>7. Starters'
    BY <2>1, <2>2, <2>5, <2>6, TaskNames DEF AppsInv, Starters, S
  <2>8. ASSUME ~seen'.met PROVE Tracks' /\ ShutdownAlone'
    <3>1. Tracks /\ ShutdownAlone /\ (\A t \in Tasks : call[t].at = "off") /\ changing = None
      BY <2>1, <2>8 DEF AppsInv, ShutdownAlone
    <3>2. \A j \in 1..Len(instances) : instances'[j].app = instances[j].app /\ (Live(j)' => Live(j))
      BY <2>1, <3>1, CutLive
    <3>3. Len(instances') = Len(instances)
      BY <2>1, CutFacts
    <3>4. Tracks'
      BY <2>1, <2>3, <2>5, <3>1, <3>2, <3>3, TracksAfter DEF AppsInv
    <3>5. boot \in {"done", "crashed"} /\ \A j \in 1..Len(instances) : ~Live(j)
      BY <2>1, <3>1 DEF ShutdownAlone
    <3>6. ShutdownAlone'
      BY <2>1, <2>2, <2>5, <3>1, <3>2, <3>3, <3>5 DEF ShutdownAlone
    <3>. QED BY <3>4, <3>6
  <2>. QED BY <2>3, <2>4, <2>7, <2>8 DEF AppsInv
<1>. QED BY <1>1, <1>2, <1>3, ShutsDownInv DEF TearsDown

----------------------------------------------------------------------------
(* The theorems *)

LEMMA NextInv ==
  ASSUME AppsInv, [Next]_vars
  PROVE  AppsInv'
<1>1. ASSUME NEW t \in Tasks, CallStep(t) PROVE AppsInv'
  BY <1>1, TakeInv, StoppedInv, MakesInv, InitializedInv, ReturnsInv DEF CallStep
<1>2. ASSUME NEW t \in {"watcher", "boot"}, Applies(t) \/ Applied(t) PROVE AppsInv'
  BY <1>2, AppliesInv, AppliedInv
<1>3. CASE Handles
  BY <1>3, HandlesInv DEF Handles
<1>4. CASE Boot
  <2>1. CASE Refused
    BY <2>1, AppliedInv
  <2>. QED BY <1>4, <2>1, BootInv DEF Boot
<1>5. CASE UNCHANGED vars
  <2>1. UNCHANGED <<apps, down>> /\ UNCHANGED <<files, changing, boot, seen>>
    BY <1>5 DEF vars
  <2>2. FileTypes' /\ Starters'
    BY <2>1 DEF AppsInv, FileTypes, Starters, files, apps
  <2>. QED BY <2>1, <2>2, AppsAlone
<1>. QED BY <1>1, <1>2, <1>3, <1>4, <1>5, AsksInv, HandlesInv, AdmittedInv, ClosesInv, TearsDownInv
     DEF Next

LEMMA InvAlways == Spec => []AppsInv
<1>. QED BY InvInit, NextInv, PTL DEF Spec

\* Every variable has its type, and whoever holds an app's lock is in the part of a start,
\* stop or reload that runs under it (app_lifecycle_service.py:480, :496).
THEOREM AppsTypeCorrect == Spec => []TypeOK
<1>. QED BY InvAlways, InvImplies, PTL

\* However many apps, requests and edits: as long as no request and no change meets the
\* shutdown, an instance that lives and was not replaced is the one the registry has for
\* its app (app_registry.py:63).
THEOREM LiveInstancesKnown == Spec => []LiveIsKnown
<1>. QED BY InvAlways, InvImplies, PTL

\* shutdown_all() leaves nothing alive that it could reach, although it takes no app's lock
\* and the bootstrap may have been in the middle of a start (app_handler.py:119).
THEOREM ShutdownStopsApps == Spec => []EveryAppStopped
<1>. QED BY InvAlways, InvImplies, PTL

----------------------------------------------------------------------------
(* The configuration is followed *)

Sectioned == [Apps -> Sections]

FollowTypes ==
    /\ orig \in Sectioned \cup {None}
    /\ pending \in [orig : Sectioned, current : Sectioned] \cup {None}
    /\ events \in Nat /\ released \in BOOLEAN

\* What the running apps were made from, as far as the handler knows.
Base == IF pending # None THEN pending.orig ELSE IF orig # None THEN orig ELSE manifests

\* A change of the app is still to be applied, or is being applied.
Owed(a) == \E c \in work : c.app = a /\ (c.op = "start" => manifests[a] = "auto")
Coming(a) ==
    \E t \in {"watcher", "boot"} :
        /\ call[t].app = a
        /\ call[t].at = "lock" \/ (call[t].op = "start" /\ call[t].at = "make")
        /\ call[t].op = "start" => manifests[a] = "auto"

\* A running app was made from the section the handler takes it for, unless it is owed a change.
Right(a) ==
    entry[a] # 0 =>
        \/ instances[entry[a]].section = Base[a]
        \/ pending = None /\ instances[entry[a]].section = manifests[a]
        \/ pending # None /\ a \in seen.early
             /\ (orig = None => instances[entry[a]].section = manifests[a])
        \/ Owed(a) \/ Coming(a)

Starting(a) ==
    \E t \in Tasks : /\ call[t].app = a /\ call[t].op # "stop"
                    /\ call[t].at \in {"admit", "lock", "stop", "make"}

\* An app that starts automatically runs, unless it has yet to be started.
Started(a) ==
    Base[a] = "auto" /\ (pending = None /\ released => manifests[a] = "auto") =>
        \/ entry[a] # 0 \/ a \in failed \/ a \in seen.off
        \/ pending # None /\ a \in seen.early
        \/ \E c \in work : c.app = a /\ c.op # "stop"
        \/ Starting(a)

\* What the handler's snapshots and change set say of the manifests.
Books ==
    /\ pending # None => pending.current = IF orig # None THEN orig ELSE manifests
    /\ work # {} => orig = None /\ pending = None
    /\ changing = "boot" => boot = "replay" /\ pending = None
    /\ changing = "watcher" /\ work # {} => released
    /\ \A c \in work : c.op = "stop" <=> manifests[c.app] = "absent"
    /\ \A t \in {"watcher", "boot"} : call[t].at # "off" =>
           /\ pending = None /\ orig = None
           /\ call[t].op = "stop" <=> manifests[call[t].app] = "absent"

\* Nothing is made before the release.
Gate ==
    /\ ~released => \A a \in Apps : entry[a] = 0
    /\ \A t \in Tasks : call[t].at \in {"lock", "stop", "make", "init"} /\ call[t].op # "stop" => released
    /\ \A t \in Tasks : call[t].at \in {"make", "init"} => call[t].op # "stop"
    /\ \A a \in Apps : call[a].at # "off" => call[a].app = a /\ call[a].op = "start"
    /\ seen.early # {} => released

Early == pending # None /\ orig = None => \A a \in seen.early : pending.orig[a] # manifests[a]

\* The bootstrap replays after the release, when it has an app to wait for.
Bootstrap ==
    seen.waited =>
    /\ boot \notin {"new", "persist", "crashed"}
    /\ boot = "starting" /\ ~released => \E a \in Apps : call[a].at = "admit"
    /\ boot \in {"replay", "done"} => released /\ pending = None

\* When no change waits, the manifests are the file's, unless the last reload has not read it.
UpToDate == events = 0 => manifests = disk \/ seen.unread

Follows(a) == Right(a) /\ (seen.waited => Started(a))

FollowsAll == \A a \in Apps \ seen.misjudged : Follows(a)

FollowsInv ==
    /\ FollowTypes /\ UpToDate
    /\ down.at = "up" => Books /\ Gate /\ Early /\ Bootstrap /\ FollowsAll

LEMMA FollowsImplies == AppsInv /\ FollowsInv => ConfigFollowed
<1>. SUFFICES ASSUME AppsInv, FollowsInv, AtRest, seen.waited, ~seen.unread
             PROVE  Followed(Apps \ seen.misjudged)
  BY DEF ConfigFollowed
<1>1. /\ released /\ boot = "done" /\ changing = None /\ events = 0
      /\ \A t \in Tasks : call[t] = Quiet
      /\ UpToDate /\ Books /\ Bootstrap /\ FollowsAll
  BY DEF AtRest, FollowsInv
<1>2. work = {} /\ orig = None /\ pending = None /\ manifests = disk /\ Base = disk
  BY <1>1, TaskNames DEF AppsInv, Starters, Bootstrap, Books, UpToDate, Base
<1>3. \A a \in Apps : ~Owed(a) /\ ~Coming(a) /\ ~Starting(a)
  BY <1>1, <1>2, TaskNames DEF Owed, Coming, Starting, Quiet
<1>. QED BY <1>1, <1>2, <1>3 DEF Followed, FollowsAll, Follows, Right, Started

LEMMA FollowsInit == Init => FollowsInv
<1>. SUFFICES ASSUME Init PROVE FollowsInv
  OBVIOUS
<1>1. FollowTypes /\ UpToDate /\ Books /\ Gate /\ Early /\ Bootstrap
  BY TaskNames DEF Init, FollowTypes, UpToDate, Books, Gate, Early, Bootstrap, Nothing, Quiet
<1>2. FollowsAll
  BY DEF Init, FollowsAll, Follows, Right, Nothing
<1>. QED BY <1>1, <1>2 DEF FollowsInv

\* detect_changes() has a change for every app whose section differs, a stop for those without.
LEMMA ChangeFacts ==
  ASSUME NEW STATE old, old \in Sectioned, NEW STATE new, new \in Sectioned
  PROVE  /\ \A c \in Changes(old, new) : c.op = "stop" <=> new[c.app] = "absent"
         /\ \A a \in Apps : old[a] # new[a] =>
               \E c \in Changes(old, new) : /\ c.app = a
                                            /\ c.op = "start" <=> old[a] = "absent"
                                            /\ c.op = "stop" <=> new[a] = "absent"
<1>1. \A c \in Changes(old, new) : c.op = "stop" <=> new[c.app] = "absent"
  BY DEF Changes, Change
<1>2. ASSUME NEW a \in Apps, old[a] # new[a]
      PROVE  \E c \in Changes(old, new) : /\ c.app = a
                                          /\ c.op = "start" <=> old[a] = "absent"
                                          /\ c.op = "stop" <=> new[a] = "absent"
  <2>1. CASE new[a] = "absent"
    <3>1. Change("stop", a, 1) \in Changes(old, new)
      BY <1>2, <2>1 DEF Changes
    <3>. QED BY <1>2, <2>1, <3>1 DEF Change
  <2>2. CASE old[a] = "absent"
    <3>1. Change("start", a, 3) \in Changes(old, new)
      BY <1>2, <2>2 DEF Changes
    <3>. QED BY <1>2, <2>2, <3>1 DEF Change
  <2>3. CASE "absent" \notin {old[a], new[a]}
    <3>1. Change("reload", a, 2) \in Changes(old, new)
      BY <1>2, <2>3 DEF Changes
    <3>. QED BY <2>3, <3>1 DEF Change
  <2>. QED BY <2>1, <2>2, <2>3
<1>. QED BY <1>1, <1>2

----------------------------------------------------------------------------
(* What keeps an app right *)

LEMMA RightKept ==
  ASSUME NEW b \in Apps, Right(b), entry'[b] = entry[b],
         entry[b] # 0 => instances'[entry[b]].section = instances[entry[b]].section,
         UNCHANGED <<manifests, orig, pending>>, Owed(b) => Owed(b)' \/ Coming(b)',
         b \in seen.early => b \in seen'.early, Coming(b) => Coming(b)'
  PROVE  Right(b)'
BY DEF Right, Base

LEMMA StartedKept ==
  ASSUME NEW b \in Apps, Started(b), entry[b] # 0 => entry'[b] # 0, b \in failed => b \in failed',
         UNCHANGED <<manifests, orig, pending>>, released => released',
         \A c \in work : c.app = b /\ c.op # "stop" /\ manifests[b] = "auto" => c \in work' \/ Starting(b)',
         work # {} => orig = None /\ pending = None,
         b \in seen.early => b \in seen'.early, b \in seen.off => b \in seen'.off,
         Starting(b) => Starting(b)'
  PROVE  Started(b)'
BY DEF Started, Base

\* A call goes on: what is left to show is what it does to its own app.
LEMMA CallFollows ==
  ASSUME AppsInv, FollowsInv, down.at = "up", NEW t \in Tasks, NEW a \in Apps, call[t].app = a,
         call[t].at \notin {"off", "admit"},
         \A u \in Tasks \ {t} : call'[u] = call[u],
         call'[t].at # "off" => call'[t].app = a /\ call'[t].op = call[t].op,
         call'[t].at \notin {"admit", "lock"}, call[t].at = "end" => call'[t].at = "off",
         call'[t].at \in {"make", "init"} => call[t].op # "stop",
         UNCHANGED <<files, changing, boot, released, down>>,
         seen'.waited = seen.waited, seen'.misjudged = seen.misjudged,
         \A b \in Apps \ {a} : /\ entry'[b] = entry[b] /\ (b \in failed => b \in failed')
                               /\ entry[b] # 0 => instances'[entry[b]].section = instances[entry[b]].section
                               /\ b \in seen.off => b \in seen'.off
                               /\ b \in seen.early <=> b \in seen'.early,
         released \/ (entry'[a] = 0 /\ seen'.early = seen.early),
         seen'.early \in SUBSET Apps,
         pending # None /\ a \in seen'.early => a \in seen.early \/ pending.orig[a] # manifests[a],
         a \notin seen.misjudged => Right(a)' /\ (seen.waited => Started(a)')
  PROVE  (Books /\ Gate /\ Early /\ Bootstrap /\ FollowsAll)'
<1>1. /\ UNCHANGED <<disk, manifests, orig, work, pending, events>>
      /\ Books /\ Gate /\ Early /\ Bootstrap /\ FollowsAll
      /\ seen.early \in SUBSET Apps
  BY DEF files, FollowsInv, AppsInv, FileTypes, History
<1>2. Books'
  BY <1>1, TaskNames DEF Books
<1>3. Gate'
  <2>1. (~released => \A b \in Apps : entry[b] = 0)'
    BY <1>1 DEF Gate
  <2>2. (\A u \in Tasks : call[u].at \in {"lock", "stop", "make", "init"} /\ call[u].op # "stop" => released)'
    <3>1. call[t].at \in {"lock", "stop", "make", "init", "end"}
      BY DEF AppsInv, AppTypes, Calls, Stages
    <3>. QED BY <1>1, <3>1 DEF Gate
  <2>3. (\A u \in Tasks : call[u].at \in {"make", "init"} => call[u].op # "stop")'
    BY <1>1 DEF Gate
  <2>4. (\A b \in Apps : call[b].at # "off" => call[b].app = b /\ call[b].op = "start")'
    BY <1>1, TaskNames DEF Gate
  <2>5. (seen.early # {} => released)'
    BY <1>1 DEF Gate
  <2>. QED BY <2>1, <2>2, <2>3, <2>4, <2>5 DEF Gate
<1>4. Early'
  BY <1>1 DEF Early
<1>5. Bootstrap'
  BY <1>1, TaskNames DEF Bootstrap
<1>6. ASSUME NEW b \in Apps \ seen.misjudged, b # a PROVE Follows(b)'
  <2>1. Coming(b) => Coming(b)'
    BY <1>1, <1>6, TaskNames DEF Coming
  <2>2. Owed(b) => Owed(b)'
    BY <1>1 DEF Owed
  <2>3. Starting(b) => Starting(b)'
    BY <1>6 DEF Starting
  <2>4. Right(b)'
    BY <1>1, <1>6, <2>1, <2>2, RightKept DEF FollowsAll, Follows
  <2>5. ASSUME seen.waited PROVE Started(b)'
    BY <1>1, <1>6, <2>3, <2>5, StartedKept DEF FollowsAll, Follows, Books
  <2>. QED BY <2>4, <2>5 DEF Follows
<1>7. FollowsAll'
  BY <1>6 DEF FollowsAll, Follows
<1>. QED BY <1>2, <1>3, <1>4, <1>5, <1>7

LEMMA BecomesSection ==
  ASSUME instances \in Seq(Instance), NEW STATE i, NEW STATE s, Becomes(i, s)
  PROVE  \A j \in 1..Len(instances) : instances'[j].section = instances[j].section
<1>1. DOMAIN instances = 1..Len(instances) /\ \A j \in 1..Len(instances) : instances[j] \in Instance
  OBVIOUS
<1>. QED BY <1>1 DEF Becomes, Instance

\* A call that goes on is still the same call of the same app.
LEMMA GoesKeeps ==
  ASSUME call \in [Tasks -> Calls], NEW t \in Tasks, NEW STATE step, NEW STATE i, Goes(t, step, i)
  PROVE  \A u \in Tasks : call'[u].app = call[u].app /\ call'[u].op = call[u].op
BY DEF Goes, Calls

LEMMA EntriesMade ==
  ASSUME AppsInv, NEW a \in Apps, entry[a] # 0
  PROVE  entry[a] \in 1..Len(instances)
BY DEF AppsInv, AppTypes

LEMMA ReturnsFollow ==
  ASSUME AppsInv, FollowsInv, down.at = "up", NEW t \in Tasks, NEW a \in Apps, call[t].app = a, Returns(t)
  PROVE  (Books /\ Gate /\ Early /\ Bootstrap /\ FollowsAll)'
<1>1. /\ call[t].at = "end"
      /\ UNCHANGED <<entry, failed, instances, files, changing, boot, released, down, seen>>
      /\ call \in [Tasks -> Calls] /\ Ends(t)
  BY DEF Returns, AppsInv, AppTypes, Locks, Inside
<1>2. (\A u \in Tasks \ {t} : call'[u] = call[u]) /\ call'[t].at = "off"
  BY <1>1, EndsFacts
<1>3. UNCHANGED <<manifests, orig, pending, work>> /\ FollowsAll /\ Books /\ Gate
      /\ seen.early \in SUBSET Apps
  BY <1>1 DEF files, FollowsInv, AppsInv, FileTypes, History
<1>4. ASSUME a \notin seen.misjudged PROVE Right(a)' /\ (seen.waited => Started(a)')
  <2>1. Coming(a) => Coming(a)'
    BY <1>1, <1>2, <1>3, TaskNames DEF Coming
  <2>2. Starting(a) => Starting(a)'
    BY <1>1, <1>2 DEF Starting
  <2>3. Owed(a) => Owed(a)'
    BY <1>3 DEF Owed
  <2>4. Right(a)'
    BY <1>1, <1>3, <1>4, <2>1, <2>3, RightKept DEF FollowsAll, Follows
  <2>5. ASSUME seen.waited PROVE Started(a)'
    BY <1>1, <1>3, <1>4, <2>2, <2>5, StartedKept DEF FollowsAll, Follows, Books
  <2>. QED BY <2>4, <2>5
<1>5. released \/ (entry'[a] = 0 /\ seen'.early = seen.early)
  BY <1>1, <1>3 DEF Gate
<1>. QED BY <1>1, <1>2, <1>3, <1>4, <1>5, CallFollows

LEMMA StoppedFollow ==
  ASSUME AppsInv, FollowsInv, down.at = "up", NEW t \in Tasks, NEW a \in Apps, call[t].app = a, Stopped(t)
  PROVE  (Books /\ Gate /\ Early /\ Bootstrap /\ FollowsAll)'
<1>. DEFINE step == IF call[t].op = "stop" THEN "end" ELSE "make"
<1>1. /\ call[t].at = "stop"
      /\ UNCHANGED <<entry, failed, files, changing, boot, released, down, seen>>
      /\ call \in [Tasks -> Calls] /\ Goes(t, step, 0) /\ Becomes(call[t].instance, "stopped")
      /\ instances \in Seq(Instance) /\ step \in Stages /\ call[t].op \in Ops
  BY DEF Stopped, AppsInv, AppTypes, Locks, Inside, Stages, Calls
<1>2. /\ \A u \in Tasks \ {t} : call'[u] = call[u]
      /\ call'[t].at = step
      /\ \A u \in Tasks : call'[u].app = call[u].app /\ call'[u].op = call[u].op
  <2>. HIDE DEF step
  <2>1. 0 \in Nat
    OBVIOUS
  <2>. QED BY <1>1, <2>1, GoesFacts, GoesKeeps
<1>3. UNCHANGED <<manifests, orig, pending, work>> /\ FollowsAll /\ Books /\ Gate
      /\ seen.early \in SUBSET Apps
  BY <1>1 DEF files, FollowsInv, AppsInv, FileTypes, History
<1>4. \A b \in Apps : entry[b] # 0 => instances'[entry[b]].section = instances[entry[b]].section
  BY <1>1, BecomesSection, EntriesMade
<1>5. ASSUME a \notin seen.misjudged PROVE Right(a)' /\ (seen.waited => Started(a)')
  <2>1. Coming(a) => Coming(a)'
    BY <1>1, <1>2, <1>3, TaskNames DEF Coming
  <2>2. Starting(a) => Starting(a)'
    BY <1>1, <1>2 DEF Starting
  <2>3. Owed(a) => Owed(a)'
    BY <1>3 DEF Owed
  <2>4. Right(a)'
    BY <1>1, <1>3, <1>4, <1>5, <2>1, <2>3, RightKept DEF FollowsAll, Follows
  <2>5. ASSUME seen.waited PROVE Started(a)'
    BY <1>1, <1>3, <1>5, <2>2, <2>5, StartedKept DEF FollowsAll, Follows, Books
  <2>. QED BY <2>4, <2>5
<1>6. released \/ (entry'[a] = 0 /\ seen'.early = seen.early)
  BY <1>1, <1>3 DEF Gate
<1>7. call'[t].at \notin {"admit", "lock"} /\ (call'[t].at \in {"make", "init"} => call[t].op # "stop")
  BY <1>2
<1>. HIDE DEF step
<1>. QED BY <1>1, <1>2, <1>3, <1>4, <1>5, <1>6, <1>7, CallFollows

LEMMA InitializedFollow ==
  ASSUME AppsInv, FollowsInv, down.at = "up", NEW t \in Tasks, NEW a \in Apps, call[t].app = a,
         Initialized(t)
  PROVE  (Books /\ Gate /\ Early /\ Bootstrap /\ FollowsAll)'
<1>1. /\ call[t].at = "init"
      /\ UNCHANGED <<files, changing, boot, released, down, seen>>
      /\ call \in [Tasks -> Calls] /\ Goes(t, "end", 0)
      /\ \E s \in {"up", "stopped"} : Becomes(call[t].instance, s)
      /\ \/ UNCHANGED <<entry, failed>>
         \/ entry' = [entry EXCEPT ![a] = 0] /\ failed' = failed \cup {a}
      /\ instances \in Seq(Instance) /\ call[t].op \in Ops /\ entry \in [Apps -> Nat]
  BY DEF Initialized, AppsInv, AppTypes, Locks, Inside, Stages, Calls
<1>2. /\ \A u \in Tasks \ {t} : call'[u] = call[u]
      /\ call'[t].at = "end"
      /\ \A u \in Tasks : call'[u].app = call[u].app /\ call'[u].op = call[u].op
  <2>1. 0 \in Nat /\ "end" \in Stages
    BY DEF Stages
  <2>. QED BY <1>1, <2>1, GoesFacts, GoesKeeps
<1>3. UNCHANGED <<manifests, orig, pending, work>> /\ FollowsAll /\ Books /\ Gate
      /\ seen.early \in SUBSET Apps
  BY <1>1 DEF files, FollowsInv, AppsInv, FileTypes, History
<1>4. \A b \in Apps : entry[b] # 0 => instances'[entry[b]].section = instances[entry[b]].section
  BY <1>1, BecomesSection, EntriesMade
<1>5. ASSUME a \notin seen.misjudged PROVE Right(a)' /\ (seen.waited => Started(a)')
  <2>1. CASE UNCHANGED <<entry, failed>>
    <3>1. Coming(a) => Coming(a)'
      BY <1>1, <1>2, <1>3, TaskNames DEF Coming
    <3>2. Starting(a) => Starting(a)'
      BY <1>1, <1>2 DEF Starting
    <3>3. Owed(a) => Owed(a)'
      BY <1>3 DEF Owed
    <3>4. Right(a)'
      BY <1>1, <1>3, <1>4, <1>5, <2>1, <3>1, <3>3, RightKept DEF FollowsAll, Follows
    <3>5. ASSUME seen.waited PROVE Started(a)'
      BY <1>1, <1>3, <1>5, <2>1, <3>2, <3>5, StartedKept DEF FollowsAll, Follows, Books
    <3>. QED BY <3>4, <3>5
  <2>2. CASE entry' = [entry EXCEPT ![a] = 0] /\ failed' = failed \cup {a}
    BY <1>1, <2>2 DEF Right, Started
  <2>. QED BY <1>1, <2>1, <2>2
<1>6. released
  BY <1>1, <1>3 DEF Gate
<1>7. \A b \in Apps \ {a} : entry'[b] = entry[b] /\ (b \in failed => b \in failed')
  BY <1>1
<1>. QED BY <1>1, <1>2, <1>3, <1>4, <1>5, <1>6, <1>7, CallFollows

LEMMA TakeFollow ==
  ASSUME AppsInv, FollowsInv, down.at = "up", NEW t \in Tasks, NEW a \in Apps, call[t].app = a, Take(t)
  PROVE  (Books /\ Gate /\ Early /\ Bootstrap /\ FollowsAll)'
<1>. DEFINE starts == call[t].op = "start"
            i == entry[a]
            stops == i # 0 /\ instances[i].at \in Lives
            rest == IF call[t].op = "stop" THEN "end" ELSE "make"
<1>1. /\ call[t].at = "lock"
      /\ UNCHANGED <<files, changing, boot, released, down>>
      /\ call \in [Tasks -> Calls] /\ instances \in Seq(Instance) /\ call[t].op \in Ops
      /\ entry \in [Apps -> Nat] /\ seen \in History /\ i \in Nat /\ 0 \in Nat
      /\ starts => Goes(t, "make", 0) /\ UNCHANGED <<entry, failed, instances, seen>>
      /\ ~starts => /\ entry' = [entry EXCEPT ![a] = 0] /\ failed' = failed \ {a}
                    /\ seen' = [seen EXCEPT !.off = IF t \in Requests THEN @ \cup {a} ELSE @]
                    /\ stops => Goes(t, "stop", i) /\ Becomes(i, "stopping")
                    /\ ~stops => Goes(t, rest, 0) /\ UNCHANGED instances
  BY DEF Take, AppsInv, AppTypes, FileTypes, Calls
<1>2. {"make", "stop", "end"} \subseteq Stages /\ rest \in Stages
  BY DEF Stages
<1>. HIDE DEF rest
<1>3. /\ \A u \in Tasks \ {t} : call'[u] = call[u]
      /\ \A u \in Tasks : call'[u].app = call[u].app /\ call'[u].op = call[u].op
      /\ call'[t].at = IF starts THEN "make" ELSE IF stops THEN "stop" ELSE rest
  <2>1. CASE starts
    BY <1>1, <1>2, <2>1, GoesFacts, GoesKeeps
  <2>2. CASE ~starts /\ stops
    BY <1>1, <1>2, <2>2, GoesFacts, GoesKeeps
  <2>3. CASE ~starts /\ ~stops
    BY <1>1, <1>2, <2>3, GoesFacts, GoesKeeps
  <2>. QED BY <2>1, <2>2, <2>3
<1>. USE DEF rest
<1>4. UNCHANGED <<manifests, orig, pending, work>> /\ FollowsAll /\ Books /\ Gate
      /\ seen.early \in SUBSET Apps
  BY <1>1 DEF files, FollowsInv, History
<1>5. \A b \in Apps : entry[b] # 0 => instances'[entry[b]].section = instances[entry[b]].section
  <2>1. CASE starts \/ ~stops
    BY <1>1, <2>1
  <2>2. CASE ~starts /\ stops
    BY <1>1, <2>2, BecomesSection, EntriesMade
  <2>. QED BY <2>1, <2>2
<1>6. /\ seen'.waited = seen.waited /\ seen'.misjudged = seen.misjudged /\ seen'.early = seen.early
      /\ seen.off \subseteq seen'.off /\ (~starts /\ t \in Requests => a \in seen'.off)
  BY <1>1 DEF History
<1>7. ASSUME a \notin seen.misjudged PROVE Right(a)' /\ (seen.waited => Started(a)')
  <2>1. CASE starts
    <3>1. Coming(a) => Coming(a)'
      BY <1>1, <1>3, <1>4, <2>1, TaskNames DEF Coming
    <3>2. Starting(a) => Starting(a)'
      BY <1>1, <1>3, <2>1 DEF Starting
    <3>3. Owed(a) => Owed(a)'
      BY <1>4 DEF Owed
    <3>4. Right(a)'
      BY <1>1, <1>4, <1>5, <1>7, <2>1, <3>1, <3>3, RightKept DEF FollowsAll, Follows
    <3>5. ASSUME seen.waited PROVE Started(a)'
      BY <1>1, <1>4, <1>7, <2>1, <3>2, <3>5, StartedKept DEF FollowsAll, Follows, Books
    <3>. QED BY <3>4, <3>5
  <2>2. CASE call[t].op = "reload"
    <3>1. entry'[a] = 0 /\ call'[t].at \in {"stop", "make"}
      BY <1>1, <1>3, <2>2
    <3>2. Starting(a)'
      BY <1>3, <2>2, <3>1 DEF Starting
    <3>. QED BY <3>1, <3>2 DEF Right, Started
  <2>3. CASE call[t].op = "stop"
    <3>1. entry'[a] = 0
      BY <1>1, <2>3
    <3>2. CASE t \in Requests
      BY <1>6, <2>3, <3>1, <3>2 DEF Right, Started
    <3>3. CASE t \in {"watcher", "boot"}
      <4>1. pending = None /\ orig = None /\ manifests[a] = "absent"
        BY <1>1, <1>4, <2>3, <3>3 DEF Books
      <4>. QED BY <1>4, <3>1, <4>1 DEF Right, Started, Base
    <3>4. CASE t \in Apps
      BY <1>1, <1>4, <2>3, <3>4 DEF Gate
    <3>. QED BY <3>2, <3>3, <3>4 DEF Tasks
  <2>. QED BY <1>1, <2>1, <2>2, <2>3 DEF Ops
<1>8. released \/ (entry'[a] = 0 /\ seen'.early = seen.early)
  BY <1>1, <1>4, <1>6 DEF Gate
<1>9. \A b \in Apps \ {a} : /\ entry'[b] = entry[b] /\ (b \in failed => b \in failed')
                            /\ b \in seen.off => b \in seen'.off
                            /\ b \in seen.early <=> b \in seen'.early
  BY <1>1, <1>6
<1>10. /\ call'[t].at \in {"make", "stop", "end"}
       /\ call'[t].at \in {"make", "init"} => call[t].op # "stop"
  BY <1>3
<1>. HIDE DEF starts, stops, rest, i
<1>. QED BY <1>1, <1>3, <1>4, <1>5, <1>6, <1>7, <1>8, <1>9, <1>10, CallFollows

LEMMA MakesFollow ==
  ASSUME AppsInv, FollowsInv, down.at = "up", NEW t \in Tasks, NEW a \in Apps, call[t].app = a, Makes(t)
  PROVE  (Books /\ Gate /\ Early /\ Bootstrap /\ FollowsAll)'
<1>. DEFINE n == Len(instances) + 1
            ahead == IF pending # None /\ pending.orig[a] # manifests[a]
                     THEN seen.early \cup {a} ELSE seen.early
            absent == manifests[a] = "absent" /\ UNCHANGED <<entry, failed, instances>>
            made == /\ instances' = Append(instances, [app |-> a, section |-> manifests[a], at |-> "init"])
                    /\ entry' = [entry EXCEPT ![a] = n] /\ failed' = failed \ {a}
            fails == /\ entry' = [entry EXCEPT ![a] = 0] /\ failed' = failed \cup {a}
                     /\ UNCHANGED instances
<1>1. /\ call[t].at = "make"
      /\ UNCHANGED <<files, changing, boot, released, down>>
      /\ call \in [Tasks -> Calls] /\ instances \in Seq(Instance) /\ n \in Nat /\ n # 0 /\ 0 \in Nat
      /\ entry \in [Apps -> Nat] /\ seen \in History /\ manifests \in Sectioned
      /\ \/ Goes(t, "end", 0) /\ (absent \/ (manifests[a] # "absent" /\ fails))
         \/ Goes(t, "init", n) /\ manifests[a] # "absent" /\ made
      /\ seen'.waited = seen.waited /\ seen'.misjudged = seen.misjudged /\ seen'.early = ahead
      /\ \A b \in Apps \ {a} : b \in seen.off => b \in seen'.off
  <2>1. /\ call[t].at = "make"
        /\ UNCHANGED <<files, changing, boot, released, down>>
        /\ \/ Goes(t, "end", 0) /\ (absent \/ (manifests[a] # "absent" /\ fails))
           \/ Goes(t, "init", n) /\ manifests[a] # "absent" /\ made
    BY DEF Makes
  <2>2. /\ call \in [Tasks -> Calls] /\ instances \in Seq(Instance)
        /\ entry \in [Apps -> Nat] /\ seen \in History /\ manifests \in Sectioned
    BY DEF AppsInv, AppTypes, FileTypes, Sectioned
  <2>3. n \in Nat /\ n # 0 /\ 0 \in Nat
    BY <2>2
  <2>4. /\ seen'.waited = seen.waited /\ seen'.misjudged = seen.misjudged /\ seen'.early = ahead
        /\ \A b \in Apps \ {a} : b \in seen.off => b \in seen'.off
    <3>. DEFINE r == seen.replaced \cup (IF entry[a] # 0 THEN {entry[a]} ELSE {})
    <3>1. \/ seen' = [seen EXCEPT !.early = ahead]
          \/ seen' = [seen EXCEPT !.replaced = r, !.off = @ \ {a}, !.early = ahead]
          \/ seen' = [seen EXCEPT !.replaced = r, !.early = ahead]
      BY DEF Makes
    <3>. HIDE DEF r, ahead
    <3>2. CASE seen' = [seen EXCEPT !.early = ahead]
      BY <2>2, <3>2 DEF History
    <3>3. CASE seen' = [seen EXCEPT !.replaced = r, !.off = @ \ {a}, !.early = ahead]
      BY <2>2, <3>3 DEF History
    <3>4. CASE seen' = [seen EXCEPT !.replaced = r, !.early = ahead]
      BY <2>2, <3>4 DEF History
    <3>. QED BY <3>1, <3>2, <3>3, <3>4
  <2>. QED BY <2>1, <2>2, <2>3, <2>4
<1>2. /\ \A u \in Tasks \ {t} : call'[u] = call[u]
      /\ call'[t].at \in {"end", "init"}
      /\ \A u \in Tasks : call'[u].app = call[u].app /\ call'[u].op = call[u].op
  <2>1. "end" \in Stages /\ "init" \in Stages
    BY DEF Stages
  <2>. HIDE DEF n, absent, made, fails
  <2>. QED BY <1>1, <2>1, GoesFacts, GoesKeeps
<1>3. UNCHANGED <<manifests, orig, pending, work>> /\ FollowsAll /\ Books /\ Gate
      /\ seen.early \in SUBSET Apps
  BY <1>1 DEF files, FollowsInv, History
<1>4. released /\ call[t].op # "stop"
  BY <1>1, <1>3 DEF Gate
<1>5. \A b \in Apps : entry[b] # 0 => instances'[entry[b]].section = instances[entry[b]].section
  <2>1. CASE made
    <3>1. \A b \in Apps : entry[b] # 0 => entry[b] \in 1..Len(instances)
      BY EntriesMade
    <3>2. \A j \in 1..Len(instances) : instances'[j] = instances[j]
      BY <1>1, <2>1
    <3>. QED BY <3>1, <3>2
  <2>. QED BY <1>1, <2>1
<1>6. ASSUME a \notin seen.misjudged PROVE Right(a)' /\ (seen.waited => Started(a)')
  <2>1. CASE absent
    <3>1. Coming(a) => Coming(a)'
      BY <1>1, <1>2, <1>3, <2>1, TaskNames DEF Coming
    <3>2. Owed(a) => Owed(a)'
      BY <1>3 DEF Owed
    <3>3. a \in seen.early => a \in seen'.early
      BY <1>1
    <3>4. Right(a)'
      BY <1>1, <1>3, <1>5, <1>6, <2>1, <3>1, <3>2, <3>3, RightKept DEF FollowsAll, Follows
    <3>5. ASSUME Base[a]' = "auto", (pending = None => manifests[a] = "auto")'
          PROVE  (pending # None /\ a \in seen.early)'
      BY <1>1, <1>3, <2>1, <3>5 DEF Base
    <3>6. Started(a)'
      BY <1>1, <1>4, <3>5 DEF Started
    <3>. QED BY <3>4, <3>6
  <2>2. CASE made
    <3>1. entry'[a] = n /\ instances'[n].section = manifests[a]
      BY <1>1, <2>2
    <3>2. \/ instances'[n].section = Base[a]'
          \/ pending = None
          \/ pending # None /\ a \in seen'.early
      BY <1>1, <1>3, <3>1 DEF Base
    <3>3. Right(a)'
      BY <1>3, <3>1, <3>2 DEF Right
    <3>. QED BY <1>1, <3>1, <3>3 DEF Started
  <2>3. CASE fails
    BY <1>1, <2>3 DEF Right, Started
  <2>. QED BY <1>1, <2>1, <2>2, <2>3
<1>7. \A b \in Apps \ {a} : /\ entry'[b] = entry[b] /\ (b \in failed => b \in failed')
                            /\ b \in seen.early <=> b \in seen'.early
  BY <1>1
<1>8. /\ seen'.early \in SUBSET Apps
      /\ pending # None /\ a \in seen'.early => a \in seen.early \/ pending.orig[a] # manifests[a]
  BY <1>1, <1>3
<1>. HIDE DEF n, absent, made, fails, ahead
<1>. QED BY <1>1, <1>2, <1>3, <1>4, <1>5, <1>6, <1>7, <1>8, CallFollows

\* A task that was idle, or waited to be admitted, gets as far as the lock of its app.
LEMMA QueueFollows ==
  ASSUME AppsInv, FollowsInv, down.at = "up", NEW t \in Tasks,
         call[t].at = "off" \/ t \in Apps,
         \A u \in Tasks \ {t} : call'[u] = call[u],
         call'[t].at = "lock", call'[t].op # "stop" => released,
         t \in Apps => call[t].at = "admit" /\ call'[t] = [call[t] EXCEPT !.at = "lock"] /\ released,
         t \in {"watcher", "boot"} => /\ pending = None /\ orig = None
                                      /\ call'[t].op = "stop" <=> manifests[call'[t].app] = "absent",
         work' \subseteq work,
         \A b \in Apps, c \in work :
            c.app = b /\ manifests[b] = "auto" /\ c.op # "stop" => c \in work' \/ Starting(b)',
         \A b \in Apps : Owed(b) /\ entry[b] # 0 => Owed(b)' \/ Coming(b)',
         UNCHANGED <<entry, failed, instances, disk, manifests, orig, pending, events>>,
         UNCHANGED <<changing, boot, released, down, seen>>
  PROVE  (Books /\ Gate /\ Early /\ Bootstrap /\ FollowsAll)'
<1>1. Books /\ Gate /\ Early /\ Bootstrap /\ FollowsAll
  BY DEF FollowsInv
<1>2. Books'
  BY <1>1, TaskNames DEF Books
<1>3. Gate'
  <2>1. t \in Apps => call'[t].app = call[t].app /\ call'[t].op = call[t].op
    BY DEF AppsInv, AppTypes, Calls
  <2>. QED BY <1>1, <2>1, TaskNames DEF Gate
<1>4. Early'
  BY <1>1 DEF Early
<1>5. Bootstrap'
  BY <1>1, TaskNames DEF Bootstrap
<1>6. ASSUME NEW b \in Apps \ seen.misjudged PROVE Follows(b)'
  <2>1. Coming(b) => Coming(b)'
    BY TaskNames DEF Coming
  <2>2. Starting(b) => Starting(b)'
    <3>1. t \in Apps => call'[t].app = call[t].app /\ call'[t].op = call[t].op
      BY DEF AppsInv, AppTypes, Calls
    <3>. QED BY <3>1 DEF Starting
  <2>3. Right(b)'
    BY <1>1, <1>6, <2>1, RightKept DEF FollowsAll, Follows, Right
  <2>4. ASSUME seen.waited PROVE Started(b)'
    BY <1>1, <1>6, <2>2, <2>4, StartedKept DEF FollowsAll, Follows, Books
  <2>. QED BY <2>3, <2>4 DEF Follows
<1>7. FollowsAll'
  BY <1>6 DEF FollowsAll, Follows
<1>. QED BY <1>2, <1>3, <1>4, <1>5, <1>7

LEMMA AsksFollow ==
  ASSUME AppsInv, FollowsInv, down.at = "up", NEW r \in Requests, Asks(r)
  PROVE  (Books /\ Gate /\ Early /\ Bootstrap /\ FollowsAll)'
<1>1. /\ r \notin asked
      /\ UNCHANGED <<entry, failed, instances, disk, manifests, orig, work, pending, events>>
      /\ UNCHANGED <<changing, boot, released, down, seen>>
  BY DEF Asks
<1>2. PICK a \in Configured, op \in {"start", "stop", "reload"} : (op = "stop" \/ released) /\ Begin(r, op, a)
  BY DEF Asks
<1>3. /\ \A u \in Tasks \ {r} : call'[u] = call[u]
      /\ call'[r].at = "lock" /\ call'[r].op = op
  BY <1>2, TaskNames DEF Begin, AppsInv, AppTypes
<1>4. r \in Tasks /\ r \notin Apps /\ r \notin {"watcher", "boot"} /\ call[r].at = "off"
  BY <1>1, TaskNames DEF AppsInv, Starters
<1>5. \A b \in Apps : Owed(b) => Owed(b)'
  BY <1>1 DEF Owed
<1>. QED BY <1>1, <1>2, <1>3, <1>4, <1>5, QueueFollows

LEMMA AdmittedFollow ==
  ASSUME AppsInv, FollowsInv, down.at = "up", NEW a \in Apps, Admitted(a)
  PROVE  (Books /\ Gate /\ Early /\ Bootstrap /\ FollowsAll)'
<1>1. /\ call[a].at = "admit" /\ released
      /\ UNCHANGED <<entry, failed, instances, disk, manifests, orig, work, pending, events>>
      /\ UNCHANGED <<changing, boot, released, down, seen>>
  BY DEF Admitted, files
<1>2. /\ \A u \in Tasks \ {a} : call'[u] = call[u]
      /\ call'[a] = [call[a] EXCEPT !.at = "lock"] /\ call'[a].at = "lock"
  BY TaskNames DEF Admitted, AppsInv, AppTypes, Calls
<1>3. a \in Tasks /\ a \notin {"watcher", "boot"}
  BY TaskNames
<1>4. \A b \in Apps : Owed(b) => Owed(b)'
  BY <1>1 DEF Owed
<1>. QED BY <1>1, <1>2, <1>3, <1>4, QueueFollows

LEMMA AppliesFollow ==
  ASSUME AppsInv, FollowsInv, down.at = "up", NEW t \in {"watcher", "boot"}, Applies(t)
  PROVE  (Books /\ Gate /\ Early /\ Bootstrap /\ FollowsAll)'
<1>1. /\ changing = t /\ call[t].at = "off"
      /\ UNCHANGED <<entry, failed, instances, disk, manifests, orig, pending, events>>
      /\ UNCHANGED <<changing, boot, released, down, seen>>
  BY DEF Applies
<1>2. PICK c \in work : /\ work' = work \ {c}
                        /\ IF Wanted(c) THEN (c.op = "stop" \/ released) /\ Begin(t, c.op, c.app)
                                        ELSE UNCHANGED call
  BY DEF Applies
<1>3. /\ Books /\ Gate /\ Early /\ Bootstrap /\ FollowsAll
      /\ t \in Tasks /\ t \notin Apps /\ call \in [Tasks -> Calls]
      /\ c.op \in Ops
  BY <1>2, TaskNames DEF FollowsInv, AppsInv, AppTypes, FileTypes, Work
<1>4. /\ orig = None /\ pending = None
      /\ c.op = "stop" <=> manifests[c.app] = "absent"
  BY <1>2, <1>3 DEF Books
<1>5. CASE Wanted(c)
  <2>1. /\ \A u \in Tasks \ {t} : call'[u] = call[u]
        /\ call'[t].at = "lock" /\ call'[t].op = c.op /\ call'[t].app = c.app
    BY <1>2, <1>3, <1>5 DEF Begin
  <2>2. \A b \in Apps : Owed(b) => Owed(b)' \/ Coming(b)'
    BY <1>1, <1>2, <2>1 DEF Owed, Coming
  <2>3. \A b \in Apps, d \in work : d.app = b /\ d.op # "stop" => d \in work' \/ Starting(b)'
    BY <1>2, <1>3, <2>1 DEF Starting
  <2>. QED BY <1>1, <1>2, <1>3, <1>4, <1>5, <2>1, <2>2, <2>3, QueueFollows
<1>6. CASE ~Wanted(c)
  <2>1. call' = call /\ c.op # "stop" /\ manifests[c.app] # "auto" /\ (c.op = "start" \/ entry[c.app] = 0)
    BY <1>2, <1>3, <1>6 DEF Wanted, Ops
  <2>2. Books' /\ Gate' /\ Early' /\ Bootstrap'
    BY <1>1, <1>2, <1>3, <2>1 DEF Books, Gate, Early, Bootstrap
  <2>3. ASSUME NEW b \in Apps \ seen.misjudged PROVE Follows(b)'
    <3>1. entry[b] # 0 /\ Owed(b) => Owed(b)'
      BY <1>1, <1>2, <2>1 DEF Owed
    <3>2. Coming(b) => Coming(b)'
      BY <1>1, <2>1 DEF Coming
    <3>3. Starting(b) => Starting(b)'
      BY <2>1 DEF Starting
    <3>4. Right(b)'
      BY <1>1, <1>3, <2>3, <3>1, <3>2, RightKept DEF FollowsAll, Follows, Right
    <3>5. \A d \in work : d.app = b /\ manifests[b] = "auto" => d \in work'
      BY <1>2, <2>1
    <3>6. ASSUME seen.waited PROVE Started(b)'
      BY <1>1, <1>3, <1>4, <2>1, <2>3, <3>3, <3>5, <3>6, StartedKept DEF FollowsAll, Follows
    <3>. QED BY <1>1, <3>4, <3>6 DEF Follows
  <2>. QED BY <1>1, <2>2, <2>3 DEF FollowsAll, Follows
<1>. QED BY <1>5, <1>6

LEMMA AppliedFollow ==
  ASSUME AppsInv, FollowsInv, down.at = "up", (\E t \in {"watcher", "boot"} : Applied(t)) \/ Refused
  PROVE  (Books /\ Gate /\ Early /\ Bootstrap /\ FollowsAll)'
<1>1. Books /\ Gate /\ Early /\ Bootstrap /\ FollowsAll
  BY DEF FollowsInv
<1>2. CASE \E t \in {"watcher", "boot"} : Applied(t)
  <2>1. /\ work = {} /\ changing' = None /\ UNCHANGED <<apps, files, released, down, seen>>
        /\ (changing = "boot" /\ boot' = "done") \/ boot' = boot
    BY <1>2 DEF Applied
  <2>2. Books' /\ Gate' /\ Early' /\ Bootstrap'
    BY <1>1, <2>1, TaskNames DEF Books, Gate, Early, Bootstrap, apps, files
  <2>3. FollowsAll'
    BY <1>1, <2>1 DEF FollowsAll, Follows, Right, Started, Base, Owed, Coming, Starting, apps, files
  <2>. QED BY <2>2, <2>3
<1>3. CASE Refused
  <2>1. /\ changing = "boot" /\ ~released /\ work' = {} /\ changing' = None /\ boot' = "crashed"
        /\ UNCHANGED <<apps, disk, manifests, orig, pending, events, released, down, seen>>
    BY <1>3 DEF Refused
  <2>2. ~seen.waited
    BY <1>1, <2>1 DEF Books, Bootstrap
  <2>3. Books' /\ Gate' /\ Early' /\ Bootstrap'
    BY <1>1, <2>1, <2>2, TaskNames DEF Books, Gate, Early, Bootstrap, apps
  <2>4. FollowsAll'
    BY <1>1, <2>1, <2>2 DEF FollowsAll, Follows, Right, Gate, apps
  <2>. QED BY <2>3, <2>4
<1>. QED BY <1>2, <1>3

LEMMA EditsFollow ==
  ASSUME AppsInv, FollowsInv, down.at = "up", Edits \/ Releases
  PROVE  (Books /\ Gate /\ Early /\ Bootstrap /\ FollowsAll)'
<1>1. /\ Books /\ Gate /\ Early /\ Bootstrap /\ FollowsAll /\ events \in Nat
      /\ UNCHANGED <<apps, manifests, orig, work, pending, changing, boot, down, seen>>
      /\ \/ events' = events + 1 /\ UNCHANGED released
         \/ released' = TRUE /\ UNCHANGED <<disk, events>>
  BY DEF Edits, Releases, FollowsInv, FollowTypes, files
<1>2. Books' /\ Early' /\ Bootstrap'
  BY <1>1 DEF Books, Early, Bootstrap, apps
<1>3. Gate'
  BY <1>1 DEF Gate, apps
<1>4. ASSUME NEW b \in Apps \ seen.misjudged PROVE Follows(b)'
  <2>1. UNCHANGED <<entry, failed, instances, call, seen>> /\ (released => released')
    BY <1>1 DEF apps
  <2>2. (Owed(b) => Owed(b)') /\ (Coming(b) => Coming(b)') /\ (Starting(b) => Starting(b)')
    BY <1>1, <2>1 DEF Owed, Coming, Starting
  <2>3. Right(b)'
    BY <1>1, <1>4, <2>1, <2>2, RightKept DEF FollowsAll, Follows
  <2>4. ASSUME seen.waited PROVE Started(b)'
    BY <1>1, <1>4, <2>1, <2>2, <2>4, StartedKept DEF FollowsAll, Follows, Books
  <2>. QED BY <2>1, <2>3, <2>4 DEF Follows
<1>. QED BY <1>1, <1>2, <1>3, <1>4 DEF FollowsAll, Follows

\* refresh_config() takes a snapshot of the manifests it replaces.
LEMMA RefreshesFollow ==
  ASSUME AppsInv, FollowsInv, down.at = "up", Refreshes
  PROVE  (Books /\ Gate /\ Early /\ Bootstrap /\ FollowsAll)'
<1>1. /\ Books /\ Gate /\ Early /\ Bootstrap /\ FollowsAll /\ events \in Nat
      /\ events > 0 /\ changing = None /\ events' = events - 1 /\ changing' = "watcher"
      /\ orig' = manifests /\ manifests' \in Sectioned
      /\ UNCHANGED <<entry, failed, instances, call, disk, work, pending, boot, released, down>>
      /\ seen' = [seen EXCEPT !.met = @ \/ down.at # "up", !.unread = manifests' # disk]
      /\ seen \in History /\ manifests \in Sectioned
  BY DEF Refreshes, Reloads, FollowsInv, FollowTypes, AppsInv, FileTypes, Sectioned, Sections, apps
<1>2. /\ orig' # None /\ orig = None /\ work = {}
      /\ \A t \in {"watcher", "boot"} : call[t].at = "off"
  BY <1>1, TaskNames, AppsAssumption DEF AppsInv, Starters, Sectioned
<1>3. /\ seen'.waited = seen.waited /\ seen'.misjudged = seen.misjudged /\ seen'.early = seen.early
      /\ seen'.off = seen.off
  BY <1>1 DEF History
<1>4. Books'
  BY <1>1, <1>2, TaskNames DEF Books
<1>5. Gate' /\ Early' /\ Bootstrap'
  BY <1>1, <1>2, <1>3 DEF Gate, Early, Bootstrap
<1>6. Base' = Base
  BY <1>1, <1>2 DEF Base
<1>7. ASSUME NEW b \in Apps \ seen.misjudged PROVE Follows(b)'
  <2>1. ~Owed(b) /\ ~Coming(b) /\ (Starting(b) => Starting(b)')
    BY <1>1, <1>2 DEF Owed, Coming, Starting
  <2>2. Right(b)'
    BY <1>1, <1>2, <1>3, <1>6, <1>7, <2>1 DEF FollowsAll, Follows, Right, Base
  <2>3. ASSUME seen.waited, Base[b]' = "auto" PROVE pending = None => manifests[b] = "auto"
    BY <1>2, <1>6, <2>3 DEF Base
  <2>4. ASSUME seen.waited PROVE Started(b)'
    BY <1>1, <1>2, <1>3, <1>6, <1>7, <2>1, <2>3, <2>4 DEF FollowsAll, Follows, Started
  <2>. QED BY <1>3, <2>2, <2>4 DEF Follows
<1>. QED BY <1>3, <1>4, <1>5, <1>7 DEF FollowsAll

\* The change set makes up for what the manifests differ in from the snapshot.
LEMMA ChangesFollow ==
  ASSUME AppsInv, NEW b \in Apps, Right(b), seen.waited => Started(b),
         Base \in Sectioned, manifests \in Sectioned, work' = Changes(Base, manifests),
         pending' = None, orig' = None, work = {}, \A t \in {"watcher", "boot"} : call[t].at = "off",
         UNCHANGED <<entry, failed, instances, call, manifests, released>>,
         seen'.waited = seen.waited, seen'.off = seen.off,
         pending # None /\ b \in seen.early =>
            /\ entry[b] # 0 => instances[entry[b]].section \in {Base[b], manifests[b]}
            /\ Base[b] # manifests[b]
  PROVE  Follows(b)'
<1>1. Base[b] # manifests[b] =>
         \E c \in work' : /\ c.app = b
                          /\ c.op = "start" <=> Base[b] = "absent"
                          /\ c.op = "stop" <=> manifests[b] = "absent"
  BY ChangeFacts
<1>2. ~Owed(b) /\ ~Coming(b) /\ (Starting(b) => Starting(b)')
  BY DEF Owed, Coming, Starting
<1>3. Right(b)'
  <2>1. SUFFICES ASSUME entry[b] # 0, instances[entry[b]].section = Base[b], Base[b] # manifests[b]
                 PROVE  Owed(b)'
    BY <1>2 DEF Right
  <2>2. instances[entry[b]] \in Instance
    BY <2>1, EntriesMade DEF AppsInv, AppTypes
  <2>3. Base[b] # "absent"
    BY <2>1, <2>2 DEF Instance
  <2>. QED BY <1>1, <2>1, <2>3 DEF Owed
<1>4. ASSUME seen.waited PROVE Started(b)'
  <2>1. SUFFICES ASSUME manifests[b] = "auto", entry[b] = 0, b \notin failed, b \notin seen.off, ~Starting(b)
                 PROVE  \E c \in work' : c.app = b /\ c.op # "stop"
    BY <1>2 DEF Started, Base
  <2>2. Base[b] # "auto"
    BY <1>4, <2>1 DEF Started
  <2>. QED BY <1>1, <2>1, <2>2
<1>. QED BY <1>3, <1>4 DEF Follows

LEMMA DetectsFollow ==
  ASSUME AppsInv, FollowsInv, down.at = "up", Detects
  PROVE  (Books /\ Gate /\ Early /\ Bootstrap /\ FollowsAll)'
<1>1. /\ Books /\ Gate /\ Early /\ Bootstrap /\ FollowsAll
      /\ changing = "watcher" /\ orig # None /\ orig' = None
      /\ UNCHANGED <<entry, failed, instances, call, disk, manifests, events, changing, boot, released, down>>
      /\ seen' = [seen EXCEPT !.misjudged = IF released /\ pending # None THEN @ \cup seen.early ELSE @]
      /\ seen \in History /\ manifests \in Sectioned
      /\ orig \in Sectioned /\ pending \in [orig : Sectioned, current : Sectioned] \cup {None}
  BY DEF Detects, Judges, FollowsInv, FollowTypes, AppsInv, FileTypes, Sectioned, apps
<1>2. /\ released => work' = Changes(Base, manifests) /\ pending' = None
      /\ ~released => \/ Changes(orig, manifests) = {} /\ work' = {} /\ pending' = pending
                      \/ pending' = [orig |-> Base, current |-> manifests] /\ work' = work
  BY <1>1 DEF Detects, Postpone, Base
<1>3. /\ work = {} /\ \A t \in {"watcher", "boot"} : call[t].at = "off"
      /\ Base \in Sectioned
  BY <1>1 DEF Books, Base
<1>4. /\ seen'.waited = seen.waited /\ seen'.early = seen.early /\ seen'.off = seen.off
      /\ seen'.misjudged = IF released /\ pending # None
                           THEN seen.misjudged \cup seen.early ELSE seen.misjudged
  BY <1>1 DEF History
<1>5. CASE released
  <2>1. Books'
    BY <1>1, <1>2, <1>3, <1>5, ChangeFacts, TaskNames DEF Books
  <2>2. Gate' /\ Early' /\ Bootstrap'
    BY <1>1, <1>2, <1>4, <1>5 DEF Gate, Early, Bootstrap
  <2>3. ASSUME NEW b \in Apps \ seen'.misjudged PROVE Follows(b)'
    BY <1>1, <1>2, <1>3, <1>4, <1>5, <2>3, ChangesFollow DEF FollowsAll, Follows
  <2>. QED BY <2>1, <2>2, <2>3 DEF FollowsAll
<1>6. CASE ~released
  <2>1. Changes(orig, manifests) = {} => orig = manifests
    <3>1. Changes(orig, manifests) = {} => \A a \in Apps : orig[a] = manifests[a]
      BY <1>1, ChangeFacts
    <3>. QED BY <1>1, <3>1 DEF Sectioned
  <2>2. [orig |-> Base, current |-> manifests] # None
    BY <1>1, <1>3, AppsAssumption DEF Sectioned
  <2>3. Base' = Base
    BY <1>1, <1>2, <1>6, <2>1, <2>2 DEF Base
  <2>4. /\ work' = {} /\ seen.early = {}
        /\ pending' # None => pending'.current = manifests
        /\ pending' = None => pending = None
    BY <1>1, <1>2, <1>3, <1>6, <2>1, <2>2 DEF Books, Gate
  <2>5. Books'
    BY <1>1, <1>3, <2>4 DEF Books
  <2>6. Gate' /\ Early' /\ Bootstrap'
    BY <1>1, <1>4, <1>6, <2>4 DEF Gate, Early, Bootstrap
  <2>7. ASSUME NEW b \in Apps \ seen.misjudged PROVE Follows(b)'
    <3>1. Starting(b) => Starting(b)'
      BY <1>1 DEF Starting
    <3>2. Right(b)'
      BY <1>1, <1>6 DEF Gate, Right
    <3>3. ASSUME seen.waited PROVE Started(b)'
      BY <1>1, <1>3, <1>4, <1>6, <2>3, <2>4, <2>7, <3>1, <3>3 DEF FollowsAll, Follows, Started
    <3>. QED BY <1>4, <3>2, <3>3 DEF Follows
  <2>. QED BY <1>4, <1>6, <2>5, <2>6, <2>7 DEF FollowsAll
<1>. QED BY <1>5, <1>6

LEMMA ReplaysFollow ==
  ASSUME AppsInv, FollowsInv, down.at = "up", Replays
  PROVE  (Books /\ Gate /\ Early /\ Bootstrap /\ FollowsAll)'
<1>1. /\ Books /\ Gate /\ Early /\ Bootstrap /\ FollowsAll
      /\ \/ boot = "empty" /\ released
         \/ boot = "starting" /\ \A a \in Apps : call[a].at = "off"
      /\ changing = None /\ changing' = "boot" /\ boot' = "replay" /\ pending' = None
      /\ work' = IF pending = None THEN {} ELSE Changes(pending.orig, pending.current)
      /\ UNCHANGED <<entry, failed, instances, call, disk, manifests, orig, events, released, down, seen>>
      /\ manifests \in Sectioned /\ pending \in [orig : Sectioned, current : Sectioned] \cup {None}
  BY DEF Replays, FollowsInv, FollowTypes, AppsInv, FileTypes, Sectioned, apps
<1>2. /\ orig = None /\ work = {} /\ \A t \in {"watcher", "boot"} : call[t].at = "off"
  BY <1>1, TaskNames DEF AppsInv, Starters
<1>3. pending # None => pending.current = manifests /\ Base = pending.orig
  BY <1>1, <1>2 DEF Books, Base
<1>4. seen.waited => released
  BY <1>1 DEF Bootstrap
<1>5. \A c \in work' : c.op = "stop" <=> manifests[c.app] = "absent"
  BY <1>1, <1>3, ChangeFacts
<1>6. Books'
  BY <1>1, <1>2, <1>5, TaskNames DEF Books
<1>7. Gate' /\ Early' /\ Bootstrap'
  BY <1>1, <1>4 DEF Gate, Early, Bootstrap
<1>8. ASSUME NEW b \in Apps \ seen.misjudged PROVE Follows(b)'
  <2>1. Right(b) /\ (seen.waited => Started(b))
    BY <1>1, <1>8 DEF FollowsAll, Follows
  <2>2. CASE pending = None
    BY <1>1, <1>2, <2>1, <2>2 DEF Follows, Right, Started, Base, Owed, Coming, Starting
  <2>3. CASE pending # None
    <3>1. ASSUME b \in seen.early
          PROVE  /\ entry[b] # 0 => instances[entry[b]].section \in {Base[b], manifests[b]}
                 /\ Base[b] # manifests[b]
      BY <1>1, <1>2, <1>3, <2>1, <2>3, <3>1 DEF Early, Right, Owed, Coming, Base
    <3>2. Base \in Sectioned /\ work' = Changes(Base, manifests) /\ orig' = None
      BY <1>1, <1>2, <1>3, <2>3
    <3>. QED BY <1>1, <1>2, <2>1, <3>1, <3>2, ChangesFollow
  <2>. QED BY <2>2, <2>3
<1>. QED BY <1>1, <1>6, <1>7, <1>8 DEF FollowsAll

LEMMA BootFollows ==
  ASSUME AppsInv, FollowsInv, down.at = "up", Boots \/ StartsApps
  PROVE  (Books /\ Gate /\ Early /\ Bootstrap /\ FollowsAll)'
<1>. DEFINE S == {a \in Apps : manifests[a] = "auto"}
<1>1. /\ Books /\ Gate /\ Early /\ Bootstrap /\ FollowsAll
      /\ UNCHANGED <<entry, failed, instances, disk, manifests, orig, work, pending, events,
                     changing, released, down>>
      /\ seen \in History /\ \E w : seen' = [seen EXCEPT !.waited = w]
      /\ call \in [Tasks -> Calls] /\ manifests \in Sectioned
  BY DEF Boots, StartsApps, FollowsInv, AppsInv, AppTypes, FileTypes, Sectioned, files, apps
<1>2. /\ seen'.misjudged = seen.misjudged /\ seen'.early = seen.early /\ seen'.off = seen.off
      /\ changing # "boot"
  BY <1>1 DEF History, Books, Boots, StartsApps
<1>3. Early'
  BY <1>1, <1>2 DEF Early
<1>4. Unchanged => orig = None /\ Base = manifests
  BY TaskNames DEF Unchanged, AppsInv, Starters, Base
<1>5. CASE Boots
  <2>1. /\ boot' \in {"empty", "persist"} /\ (boot' = "persist" => Configured # {})
        /\ seen'.waited = (Configured = {} /\ Unchanged) /\ UNCHANGED call
    BY <1>1, <1>5 DEF Boots, History, apps
  <2>2. Books' /\ Gate' /\ Bootstrap'
    BY <1>1, <1>2, <2>1 DEF Books, Gate, Bootstrap
  <2>3. ASSUME NEW b \in Apps \ seen.misjudged PROVE Follows(b)'
    <3>1. (Owed(b) => Owed(b)') /\ (Coming(b) => Coming(b)')
      BY <1>1, <2>1 DEF Owed, Coming
    <3>2. Right(b)'
      BY <1>1, <1>2, <2>3, <3>1, RightKept DEF FollowsAll, Follows
    <3>3. seen'.waited => Base'[b] = "absent"
      BY <1>1, <1>4, <2>1 DEF Configured, Base
    <3>. QED BY <3>2, <3>3 DEF Follows, Started
  <2>. QED BY <1>2, <1>3, <2>2, <2>3 DEF FollowsAll
<1>6. CASE StartsApps
  <2>1. /\ boot' = "starting" /\ seen'.waited = (S # {} /\ Unchanged)
        /\ call' = [t \in Tasks |-> IF t \in S THEN [Quiet EXCEPT !.at = "admit", !.app = t] ELSE call[t]]
    BY <1>1, <1>6 DEF StartsApps, History
  <2>2. /\ \A t \in Tasks \ S : call'[t] = call[t]
        /\ \A t \in S : call'[t] = [Quiet EXCEPT !.at = "admit", !.app = t] /\ call[t].at = "off"
    BY <1>6, <2>1, TaskNames DEF StartsApps, AppsInv, Starters
  <2>3. \A t \in S : t \in Apps /\ call'[t].at = "admit" /\ call'[t].app = t /\ call'[t].op = "start"
    BY <2>2 DEF Quiet
  <2>4. \A t \in {"watcher", "boot"} : call'[t] = call[t]
    BY <2>2, TaskNames
  <2>. HIDE DEF S
  <2>5. Books'
    BY <1>1, <1>2, <2>4 DEF Books
  <2>6. Gate'
    <3>1. \A t \in Tasks : call'[t] = call[t] \/ (t \in S /\ call'[t].at = "admit")
      BY <2>2, <2>3
    <3>2. \A a \in Apps : call'[a].at # "off" => call'[a].app = a /\ call'[a].op = "start"
      <4>1. ASSUME NEW a \in Apps, a \notin S PROVE call'[a] = call[a]
        BY <2>2, <4>1, TaskNames
      <4>. QED BY <1>1, <2>3, <4>1 DEF Gate
    <3>. QED BY <1>1, <1>2, <3>1, <3>2 DEF Gate
  <2>7. Bootstrap'
    BY <2>1, <2>3 DEF Bootstrap
  <2>8. ASSUME NEW b \in Apps \ seen.misjudged PROVE Follows(b)'
    <3>1. (Owed(b) => Owed(b)') /\ (Coming(b) => Coming(b)')
      BY <1>1, <2>4 DEF Owed, Coming
    <3>2. Right(b)'
      BY <1>1, <1>2, <2>8, <3>1, RightKept DEF FollowsAll, Follows
    <3>3. Base'[b] = Base[b]
      BY <1>1 DEF Base
    <3>4. ASSUME seen'.waited, Base[b] = "auto" PROVE Starting(b)'
      <4>1. b \in S /\ b \in Tasks
        BY <1>4, <2>1, <2>8, <3>4, TaskNames DEF S
      <4>. QED BY <2>3, <4>1 DEF Starting
    <3>. QED BY <3>2, <3>3, <3>4 DEF Follows, Started
  <2>. QED BY <1>2, <1>3, <2>5, <2>6, <2>7, <2>8 DEF FollowsAll
<1>. QED BY <1>5, <1>6

----------------------------------------------------------------------------

LEMMA FollowsTyped ==
  ASSUME AppsInv, FollowsInv, [Next]_vars
  PROVE  FollowTypes'
<1>. DEFINE Snapshots == [orig : Sectioned, current : Sectioned]
<1>1. /\ FollowTypes /\ manifests \in Sectioned
      /\ Base \in Sectioned
  BY DEF FollowsInv, FollowTypes, AppsInv, FileTypes, Sectioned, Base
<1>2. /\ orig' \in {orig, None, manifests}
      /\ pending' \in {pending, None} \cup Snapshots
      /\ released' \in {released, TRUE}
      /\ events' \in {events, events + 1} \/ (events > 0 /\ events' = events - 1)
  <2>1. CASE \E t \in Tasks : CallStep(t)
    BY <2>1 DEF CallStep, Take, Stopped, Makes, Initialized, Returns, files
  <2>2. CASE \E t \in {"watcher", "boot"} : Applies(t) \/ Applied(t)
    BY <2>2 DEF Applies, Applied, files
  <2>3. CASE (\E r \in Requests : Asks(r)) \/ Edits \/ Releases \/ \E a \in Apps : Admitted(a)
    BY <1>1, <2>3 DEF Asks, Edits, Releases, Admitted, files, FollowTypes
  <2>4. CASE Refreshes
    BY <1>1, <2>4 DEF Refreshes, FollowTypes
  <2>5. CASE Detects
    <3>1. pending' \in {pending, None, [orig |-> Base, current |-> manifests]}
      BY <2>5 DEF Detects, Postpone, Base
    <3>. QED BY <1>1, <2>5, <3>1 DEF Detects
  <2>6. CASE Boot
    BY <2>6 DEF Boot, Boots, StartsApps, Replays, Refused, files
  <2>7. CASE Closes \/ BusStops
    BY <2>7 DEF Closes, BusStops, Cut
  <2>8. CASE (\E a \in Apps : ShutsDown(a)) \/ IsDown \/ Clears
    BY <2>8 DEF ShutsDown, IsDown, Clears, files
  <2>9. CASE UNCHANGED vars
    BY <2>9 DEF vars, files
  <2>. QED BY <2>1, <2>2, <2>3, <2>4, <2>5, <2>6, <2>7, <2>8, <2>9 DEF Next, Handles, TearsDown
<1>3. orig' \in Sectioned \cup {None} /\ pending' \in Snapshots \cup {None}
  BY <1>1, <1>2 DEF FollowTypes
<1>4. released' \in BOOLEAN
  BY <1>1, <1>2, Zenon DEF FollowTypes
<1>5. events' \in Nat
  BY <1>1, <1>2, SMT DEF FollowTypes
<1>. QED BY <1>3, <1>4, <1>5 DEF FollowTypes

LEMMA StaysUpToDate ==
  ASSUME AppsInv, FollowsInv, [Next]_vars
  PROVE  UpToDate'
<1>1. UpToDate /\ seen \in History /\ events \in Nat
  BY DEF FollowsInv, FollowTypes, AppsInv, FileTypes
<1>2. CASE Edits
  BY <1>1, <1>2 DEF Edits, UpToDate
<1>3. CASE Refreshes
  BY <1>1, <1>3 DEF Refreshes, UpToDate, History
<1>4. CASE ~Edits /\ ~Refreshes
  <2>1. UNCHANGED <<events, manifests, disk>> /\ seen'.unread = seen.unread
    <3>1. CASE \E t \in Tasks : CallStep(t)
      BY <1>1, <3>1 DEF CallStep, Take, Stopped, Makes, Initialized, Returns, files, History
    <3>2. CASE \E t \in {"watcher", "boot"} : Applies(t) \/ Applied(t)
      BY <1>1, <3>2 DEF Applies, Applied, files, History
    <3>3. CASE (\E r \in Requests : Asks(r)) \/ Releases \/ \E a \in Apps : Admitted(a)
      BY <1>1, <3>3 DEF Asks, Releases, Admitted, files, History
    <3>4. CASE Detects
      BY <1>1, <3>4 DEF Detects, Judges, Postpone, History
    <3>5. CASE Boot
      BY <1>1, <3>5 DEF Boot, Boots, StartsApps, Replays, Refused, Judges, files, History
    <3>6. CASE Closes \/ BusStops
      BY <1>1, <3>6 DEF Closes, BusStops, Cut, files, History
    <3>7. CASE (\E a \in Apps : ShutsDown(a)) \/ IsDown \/ Clears
      BY <1>1, <3>7 DEF ShutsDown, IsDown, Clears, files, History
    <3>8. CASE UNCHANGED vars
      BY <3>8 DEF vars, files
    <3>. QED BY <1>4, <3>1, <3>2, <3>3, <3>4, <3>5, <3>6, <3>7, <3>8 DEF Next, Handles, TearsDown
  <2>. QED BY <1>1, <2>1 DEF UpToDate
<1>. QED BY <1>2, <1>3, <1>4

LEMMA NextFollows ==
  ASSUME AppsInv, FollowsInv, [Next]_vars
  PROVE  FollowsInv'
<1>. SUFFICES ASSUME down'.at = "up" PROVE (Books /\ Gate /\ Early /\ Bootstrap /\ FollowsAll)'
  BY FollowsTyped, StaysUpToDate DEF FollowsInv
<1>1. CASE Closes \/ TearsDown
  <2>1. down \in Shutdown /\ (down.at = "up" => down.instance = 0)
    BY DEF AppsInv, FileTypes, Starters
  <2>2. CASE Closes
    BY <2>2 DEF Closes
  <2>3. CASE TearsDown
    BY <2>1, <2>3 DEF TearsDown, ShutsDown, IsDown, Clears, BusStops, Shutdown
  <2>. QED BY <1>1, <2>2, <2>3
<1>2. ASSUME NEW t \in Tasks, CallStep(t) PROVE (Books /\ Gate /\ Early /\ Bootstrap /\ FollowsAll)'
  <2>1. down.at = "up"
    BY <1>2 DEF CallStep, Take, Stopped, Makes, Initialized, Returns
  <2>2. PICK a \in Apps : call[t].app = a
    BY <1>2 DEF CallStep, Take, Stopped, Makes, Initialized, Returns, AppsInv, Locks
  <2>. QED BY <1>2, <2>1, <2>2, TakeFollow, StoppedFollow, MakesFollow, InitializedFollow, ReturnsFollow
           DEF CallStep
<1>3. CASE \E t \in {"watcher", "boot"} : Applies(t) \/ Applied(t)
  <2>1. down.at = "up"
    BY <1>3 DEF Applies, Applied
  <2>. QED BY <1>3, <2>1, AppliesFollow, AppliedFollow
<1>4. CASE (\E r \in Requests : Asks(r)) \/ Edits \/ Releases \/ \E a \in Apps : Admitted(a)
  <2>1. down.at = "up"
    BY <1>4 DEF Asks, Edits, Releases, Admitted
  <2>. QED BY <1>4, <2>1, AsksFollow, EditsFollow, AdmittedFollow
<1>5. CASE Handles \/ Boot
  <2>1. down.at = "up"
    BY <1>5 DEF Handles, Refreshes, Detects, Boot, Boots, StartsApps, Replays, Refused
  <2>. QED BY <1>5, <2>1, RefreshesFollow, DetectsFollow, BootFollows, ReplaysFollow, AppliedFollow
           DEF Handles, Boot
<1>6. CASE UNCHANGED vars
  BY <1>6 DEF FollowsInv, Books, Gate, Early, Bootstrap, FollowsAll, Follows, Right, Started, Base,
       Owed, Coming, Starting, vars, apps, files
<1>. QED BY <1>1, <1>2, <1>3, <1>4, <1>5, <1>6 DEF Next

LEMMA FollowsAlways == Spec => []FollowsInv
<1>. QED BY InvAlways, FollowsInit, NextFollows, PTL DEF Spec

\* However edits of the configuration, the release, the bootstrap, requests and failing apps are
\* interleaved: once everything has been handled, no change is left over, what runs was made from
\* the section that is in the file, and what starts automatically runs, has failed or was stopped
\* by request (app_lifecycle_service.py:403, :744), unless the last reload has not read the file.
THEOREM ConfigurationFollowed == Spec => []ConfigFollowed
<1>. QED BY InvAlways, FollowsAlways, FollowsImplies, PTL
=============================================================================
