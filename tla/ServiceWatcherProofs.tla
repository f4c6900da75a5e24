------------------------- MODULE ServiceWatcherProofs -------------------------
(***************************************************************************)
(* Proofs about ServiceWatcher for any restart tasks, budget, limits and   *)
(* number of failures: restarts exclude each other, a service that was     *)
(* given up or stopped does not run, and the budget rations restarts.      *)
(***************************************************************************)
EXTENDS ServiceWatcher, FiniteSetTheorems, SequenceTheorems, TLAPS

----------------------------------------------------------------------------
(* The inductive invariant *)

\* A restart that waits only for the children is over as far as the service goes.
Active(t)  == at[t] \notin {"off", "trail"}
NoneActive == \A t \in Restarters : ~Active(t)
Quiet      == \A k \in Tasks : ~Live(k)
Hears      == watching \in {"before", "up"}
Due        == \E i \in 1..Len(events) : events[i] = "failed"
Once       == \A i, j \in 1..Len(events) : events[i] = "failed" /\ events[j] = "failed" => i = j

\* The service has one life: of the tasks that restart it, its serve tasks and the
\* FAILED events that the watcher has still to hear, there is at most one.
OneLife ==
    /\ \A t, u \in Restarters : Active(t) /\ Active(u) => t = u
    /\ \A j, k \in Tasks : Live(j) /\ Live(k) => j = k
    /\ ~NoneActive => Quiet
    /\ Hears /\ Due => NoneActive /\ Quiet
    /\ Hears => Once
    /\ ~Hears => closing /\ \A t \in Restarters : at[t] \in {"off", "unwind"}
    /\ \A t \in Restarters : at[t] \notin {"join", "done"}

\* A service that was given up stays so until its cooldown restarts it.
GivenUp ==
    /\ status \in {"cooling", "dead"} => Quiet
    /\ \A t \in Restarters : at[t] \in {"deps", "setup"} => status \notin {"cooling", "dead"}
    /\ status = "cooling" /\ ~closing => at["cooldown"] \in {"new", "sleep", "stop", "init"}

\* Before the shutdown the flags tell where the restart is.
Flagged ==
    ~closing =>
      /\ completed \/ (\E t \in Restarters : at[t] = "init") => ~initializing
      /\ \A t \in Restarters : at[t] \in {"deps", "setup"} => ~completed
      /\ shuttingDown => \E t \in Restarters : at[t] \in {"hooks", "cleanup"}

TeardownLater == at["teardown"] # "off" => closing

\* The flags of shutdown() tell what the teardown may skip.
Stopped ==
    /\ at["teardown"] # "off" \/ watching = "stopped" => watching = "stopped" /\ NoneActive
    /\ completed => Quiet
    /\ \A t \in Restarters : at[t] \in {"deps", "setup"} => ~completed /\ ~shuttingDown
    /\ shuttingDown => Quiet \/ at["teardown"] \in {"join", "hooks", "cleanup"}
    /\ Hears /\ shuttingDown => \E t \in Restarters : at[t] \in {"hooks", "cleanup"}
    /\ at["teardown"] = "cleanup" => \A k \in Tasks : serve[k] \in {"none", "cancelled"}
    /\ at["teardown"] = "done" => Quiet

\* Readiness resets the budget only of a service that has got to work.
Rationed ==
    /\ tries <= budget
    /\ ready \/ woken > 0 => tries = 0
    /\ Hears /\ Due => ~ready

Sound ==
    /\ OneLife /\ GivenUp /\ Flagged
    /\ Wave = "after" => Stopped
    /\ ReadyIn = "serve" => Rationed

SoundInv == TypeOK /\ TeardownLater /\ (stopFaults = 0 => Sound)

----------------------------------------------------------------------------
(* Lemmas about the events and the tasks *)

LEMMA Assumptions ==
  /\ Intensity \in Nat /\ 1 <= Intensity /\ MaxCycles \in Nat /\ MaxFailures \in Nat
  /\ StopFaults \in Nat /\ MixedFailures \in Nat
  /\ ReadyIn \in {"init", "serve"} /\ Wave \in {"before", "with", "after"}
  /\ Cooldowns \subseteq Restarters /\ "cooldown" \in Restarters /\ "teardown" \notin Restarters
  /\ Restarters \subseteq Callers /\ "teardown" \in Callers
BY LifecycleAssumption, WatcherAssumption DEF Callers, Cooldowns

LEMMA SameEvents ==
  ASSUME UNCHANGED events
  PROVE  Due' = Due /\ Once' = Once
BY DEF Due, Once

\* A handler takes the first event; when that is a failure, no other one follows.
LEMMA OneEventLess ==
  ASSUME events \in Seq({"failed", "running"}), events # <<>>, events' = Tail(events)
  PROVE  /\ events' \in Seq({"failed", "running"})
         /\ Due' => Due
         /\ Once => Once'
         /\ Head(events) = "failed" => Due
         /\ Head(events) = "failed" /\ Once => ~Due'
<1>1. /\ Len(events) \in Nat /\ Len(events) >= 1 /\ Len(events') = Len(events) - 1
      /\ events' \in Seq({"failed", "running"})
      /\ Head(events) = events[1]
      /\ \A i \in 1..Len(events') : i + 1 \in 1..Len(events) /\ events'[i] = events[i + 1]
  OBVIOUS
<1>2. Due' => Due
  BY <1>1 DEF Due
<1>3. Once => Once'
  <2>. SUFFICES ASSUME Once, NEW i \in 1..Len(events'), NEW j \in 1..Len(events'),
                       events'[i] = "failed", events'[j] = "failed"
                PROVE  i = j
    BY DEF Once
  <2>1. i + 1 = j + 1
    BY <1>1 DEF Once
  <2>. QED BY <2>1
<1>4. Head(events) = "failed" => Due
  BY <1>1 DEF Due
<1>5. Head(events) = "failed" /\ Once => ~Due'
  <2>. SUFFICES ASSUME Head(events) = "failed", Once, NEW i \in 1..Len(events'), events'[i] = "failed"
                PROVE  FALSE
    BY DEF Due
  <2>1. i + 1 = 1
    BY <1>1 DEF Once
  <2>. QED BY <2>1
<1>. QED BY <1>1, <1>2, <1>3, <1>4, <1>5

LEMMA OneEventMore ==
  ASSUME events \in Seq({"failed", "running"}), NEW e \in {"failed", "running"},
         events' = Append(events, e)
  PROVE  /\ events' \in Seq({"failed", "running"})
         /\ e = "running" => (Due' => Due) /\ (Once => Once')
         /\ ~Due => Once'
<1>1. /\ Len(events) \in Nat /\ Len(events') = Len(events) + 1
      /\ events' \in Seq({"failed", "running"})
      /\ \A i \in 1..Len(events) : events'[i] = events[i]
      /\ events'[Len(events) + 1] = e
      /\ \A i \in 1..Len(events') : i \in 1..Len(events) \/ i = Len(events) + 1
  OBVIOUS
<1>2. e = "running" => (Due' => Due) /\ (Once => Once')
  BY <1>1 DEF Due, Once
<1>3. ~Due => Once'
  BY <1>1 DEF Due, Once
<1>. QED BY <1>1, <1>2, <1>3

LEMMA Going ==
  ASSUME TypeOK, NEW t \in Callers, NEW s, Goes(t, s)
  PROVE  at'[t] = s /\ \A u \in Callers \ {t} : at'[u] = at[u]
BY DEF Goes, TypeOK, LifecycleTypeOK

----------------------------------------------------------------------------
(* Types *)

Statuses == {"starting", "running", "stopping", "stopped", "failed", "cooling", "dead"}
ServeStages  == {"none", "new", "up", "works", "cancelled"}
Steps    == {"off", "new", "sleep", "stop", "join", "hooks", "cleanup", "init", "deps", "setup",
             "trail", "unwind", "done"}

StatusTypes == status \in Statuses /\ events \in Seq({"failed", "running"})
FlagTypes   == {ready, completed, shuttingDown, initializing, closing, children} \subseteq BOOLEAN
ServeTypes  == serve \in [Tasks -> ServeStages] /\ current \in Tasks \cup {0}
CallerTypes == at \in [Callers -> Steps]
FaultTypes  == failures \in 0..MaxFailures /\ stopFaults \in 0..StopFaults
WatcherTypes ==
    /\ watching \in {"before", "up", "stopping", "stopped"}
    /\ {restarting, budgeted} \subseteq BOOLEAN
    /\ budget \in 0..Intensity /\ cycles \in Nat
    /\ waiters \in Nat /\ woken \in Nat /\ tries \in Nat

Types == StatusTypes /\ FlagTypes /\ ServeTypes /\ CallerTypes /\ FaultTypes /\ WatcherTypes

LEMMA TypeParts == (TypeOK <=> Types) /\ (TypeOK' <=> Types')
BY DEF TypeOK, LifecycleTypeOK, Types, StatusTypes, FlagTypes, ServeTypes, CallerTypes, FaultTypes,
       WatcherTypes, Statuses, ServeStages, Steps

LEMMA GoesTyped ==
  ASSUME CallerTypes, NEW t, NEW s \in Steps, Goes(t, s)
  PROVE  CallerTypes'
BY DEF CallerTypes, Goes

LEMMA FailsWithTyped ==
  ASSUME NEW s \in Statuses, NEW q \in Seq({"failed", "running"}), FailsWith(s, q)
  PROVE  StatusTypes'
<1>1. CASE s \in Terminal \cup {"failed"}
  BY <1>1 DEF StatusTypes, FailsWith
<1>2. CASE s \notin Terminal \cup {"failed"}
  BY <1>2 DEF StatusTypes, FailsWith, Statuses
<1>. QED BY <1>1, <1>2

LEMMA FailsFromTyped ==
  ASSUME StatusTypes, NEW s \in Statuses, FailsFrom(s)
  PROVE  StatusTypes'
BY FailsWithTyped DEF StatusTypes, FailsFrom

LEMMA FailsTyped ==
  ASSUME StatusTypes, ready \in BOOLEAN, failures \in 0..MaxFailures, Fails
  PROVE  StatusTypes' /\ ready' \in BOOLEAN /\ failures' \in 0..MaxFailures
<1>1. StatusTypes'
  BY FailsFromTyped DEF Fails, StatusTypes
<1>2. ready' \in BOOLEAN
  BY DEF Fails
<1>3. failures' \in 0..MaxFailures
  BY Assumptions DEF Fails, Bounded
<1>. QED BY <1>1, <1>2, <1>3

LEMMA CancelledTyped == \A s \in ServeStages : Cancelled(s) \in ServeStages /\ (s = "none" => Cancelled(s) = "none")
BY DEF Cancelled, ServeStages

LEMMA StopsTyped ==
  ASSUME Types, NEW t \in Callers, Stops(t), UNCHANGED watcher
  PROVE  Types'
<1>0. StatusTypes /\ FlagTypes /\ ServeTypes /\ CallerTypes /\ FaultTypes /\ WatcherTypes
  BY DEF Types
<1>1. StatusTypes' /\ FaultTypes'
  <2>. DEFINE s == IF status \in Terminal THEN status ELSE "stopping"
  <2>1. s \in Statuses
    BY <1>0 DEF StatusTypes, Statuses
  <2>2. CASE status' = s /\ UNCHANGED <<events, stopFaults>>
    BY <1>0, <2>1, <2>2 DEF Stops, StatusTypes, FaultTypes
  <2>3. CASE HookRaises /\ FailsFrom(s)
    <3>1. StatusTypes'
      BY <1>0, <2>1, <2>3, FailsFromTyped
    <3>. QED BY <1>0, <2>3, <3>1, Assumptions DEF Stops, FaultTypes, HookRaises, Bounded
  <2>. QED BY <2>2, <2>3 DEF Stops
<1>2. FlagTypes'
  BY <1>0 DEF Stops, FlagTypes
<1>3. ServeTypes'
  BY <1>0, CancelledTyped DEF Stops, ServeTypes
<1>4. CallerTypes'
  BY <1>0, GoesTyped DEF Stops, Steps
<1>5. WatcherTypes'
  BY <1>0 DEF WatcherTypes, watcher
<1>. QED BY <1>1, <1>2, <1>3, <1>4, <1>5 DEF Types

LEMMA HooksTyped ==
  ASSUME Types, NEW t \in Callers, Hooks(t), UNCHANGED watcher
  PROVE  Types'
<1>0. StatusTypes /\ FlagTypes /\ ServeTypes /\ CallerTypes /\ FaultTypes /\ WatcherTypes
  BY DEF Types
<1>1. StatusTypes' /\ FaultTypes'
  <2>1. CASE UNCHANGED <<status, events, stopFaults>>
    BY <1>0, <2>1 DEF Hooks, StatusTypes, FaultTypes
  <2>2. CASE HookRaises /\ FailsFrom(status)
    <3>1. StatusTypes'
      BY <1>0, <2>2, FailsFromTyped DEF StatusTypes
    <3>. QED BY <1>0, <2>2, <3>1, Assumptions DEF Hooks, FaultTypes, HookRaises, Bounded
  <2>. QED BY <2>1, <2>2 DEF Hooks
<1>2. FlagTypes'
  BY <1>0 DEF Hooks, FlagTypes
<1>3. ServeTypes'
  BY <1>0, CancelledTyped DEF Hooks, ServeTypes
<1>4. CallerTypes'
  BY <1>0, GoesTyped DEF Hooks, Steps
<1>5. WatcherTypes'
  BY <1>0 DEF WatcherTypes, watcher
<1>. QED BY <1>1, <1>2, <1>3, <1>4, <1>5 DEF Types

\* The steps of restart() and of the serve task, with the types that they disturb.
LEMMA RestartTyped ==
  ASSUME Types, NEW t \in Restarters, Restart(t)
  PROVE  Types'
<1>0. /\ StatusTypes /\ FlagTypes /\ ServeTypes /\ CallerTypes /\ FaultTypes /\ WatcherTypes
      /\ t \in Callers
  BY Assumptions DEF Types
<1>1. CASE Stops(t) /\ UNCHANGED watcher
  BY <1>0, <1>1, StopsTyped
<1>2. CASE Hooks(t) /\ UNCHANGED watcher
  BY <1>0, <1>2, HooksTyped
<1>3. CASE (Joins(t) \/ Finishes(t, "init")) /\ UNCHANGED watcher
  <2>1. CallerTypes'
    BY <1>0, <1>3, GoesTyped DEF Joins, Finishes, Steps
  <2>2. StatusTypes' /\ FlagTypes'
    BY <1>0, <1>3 DEF Joins, Finishes, StatusTypes, FlagTypes, Statuses
  <2>3. ServeTypes' /\ FaultTypes' /\ WatcherTypes'
    BY <1>0, <1>3 DEF Joins, Finishes, ServeTypes, FaultTypes, WatcherTypes, watcher
  <2>. QED BY <2>1, <2>2, <2>3 DEF Types
<1>4. CASE Skips(t)
  <2>1. CallerTypes'
    BY <1>0, <1>4, GoesTyped DEF Skips, Steps
  <2>2. StatusTypes' /\ FlagTypes' /\ ServeTypes' /\ FaultTypes' /\ WatcherTypes'
    BY <1>0, <1>4 DEF Skips, StatusTypes, FlagTypes, ServeTypes, FaultTypes, WatcherTypes, watcher
  <2>. QED BY <2>1, <2>2 DEF Types
<1>5. ASSUME Unwinds(t) \/ Initializes(t) \/ Waits(t) \/ Spawns(t) \/ Trails(t) \/ SetupFails(t),
             restarting' \in BOOLEAN, woken' \in Nat,
             UNCHANGED <<watching, budgeted, budget, cycles, waiters, tries>>
      PROVE  Types'
  <2>1. WatcherTypes'
    BY <1>0, <1>5 DEF WatcherTypes
  <2>2. CASE Unwinds(t) \/ Initializes(t) \/ Trails(t)
    <3>1. CallerTypes'
      BY <1>0, <2>2, GoesTyped DEF Unwinds, Initializes, Trails, Steps
    <3>2. StatusTypes' /\ FlagTypes'
      BY <1>0, <2>2 DEF Unwinds, Initializes, Trails, StatusTypes, FlagTypes, Statuses
    <3>3. ServeTypes' /\ FaultTypes'
      BY <1>0, <2>2 DEF Unwinds, Initializes, Trails, ServeTypes, FaultTypes
    <3>. QED BY <2>1, <3>1, <3>2, <3>3 DEF Types
  <2>3. CASE Waits(t) \/ SetupFails(t)
    <3>1. CallerTypes'
      BY <1>0, <2>3, GoesTyped DEF Waits, SetupFails, Steps
    <3>2. StatusTypes' /\ ready' \in BOOLEAN /\ failures' \in 0..MaxFailures
      <4>1. CASE Fails
        BY <1>0, <4>1, FailsTyped DEF FlagTypes, FaultTypes
      <4>2. CASE UNCHANGED <<status, events, failures>> /\ ready' \in {ready, FALSE}
        BY <1>0, <4>2 DEF StatusTypes, FlagTypes, FaultTypes
      <4>. QED BY <2>3, <4>1, <4>2 DEF Waits, SetupFails
    <3>3. FlagTypes'
      BY <1>0, <2>3, <3>2 DEF Waits, SetupFails, FlagTypes
    <3>4. ServeTypes' /\ FaultTypes'
      BY <1>0, <2>3, <3>2 DEF Waits, SetupFails, ServeTypes, FaultTypes
    <3>. QED BY <2>1, <3>1, <3>2, <3>3, <3>4 DEF Types
  <2>4. CASE Spawns(t)
    <3>1. CallerTypes'
      BY <1>0, <2>4, GoesTyped DEF Spawns, Steps
    <3>2. StatusTypes' /\ FaultTypes'
      BY <1>0, <2>4 DEF Spawns, StatusTypes, FaultTypes
    <3>3. FlagTypes'
      BY <1>0, <2>4 DEF Spawns, FlagTypes
    <3>4. ServeTypes'
      BY <1>0, <2>4 DEF Spawns, ServeTypes, ServeStages
    <3>. QED BY <2>1, <3>1, <3>2, <3>3, <3>4 DEF Types
  <2>. QED BY <1>5, <2>2, <2>3, <2>4
<1>6. restarting \in BOOLEAN /\ \A b \in BOOLEAN : (restarting /\ b) \in BOOLEAN
  BY <1>0 DEF WatcherTypes
<1>7. CASE /\ Unwinds(t) /\ Leaves(t)
           /\ UNCHANGED <<watching, budgeted, budget, cycles, waiters, woken, tries>>
  BY <1>0, <1>5, <1>6, <1>7 DEF Leaves, WatcherTypes
<1>8. CASE /\ Initializes(t) \/ Waits(t) \/ Spawns(t) \/ Trails(t) \/ SetupFails(t)
           /\ restarting' = (restarting /\ (at'[t] # "off" \/ t \in Cooldowns))
           /\ Wakened
           /\ UNCHANGED <<watching, budgeted, budget, cycles, waiters, tries>>
  BY <1>0, <1>5, <1>6, <1>8 DEF Wakened, WatcherTypes
<1>. QED BY <1>1, <1>2, <1>3, <1>4, <1>7, <1>8 DEF Restart

LEMMA ServeTyped ==
  ASSUME Types, NEW k \in Tasks, Serves(k) \/ Breaks(k)
  PROVE  Types'
<1>0. StatusTypes /\ FlagTypes /\ ServeTypes /\ CallerTypes /\ FaultTypes /\ WatcherTypes
  BY DEF Types
<1>1. ServeTypes' /\ CallerTypes'
  BY <1>0 DEF Serves, Breaks, Begins, Works, Raises, Completes, Ends, ServeTypes, ServeStages,
              CallerTypes
<1>2. WatcherTypes'
  BY <1>0 DEF Serves, Breaks, Wakened, WatcherTypes, watcher
<1>3. CASE Raises(k)
  <2>1. StatusTypes' /\ ready' \in BOOLEAN /\ failures' \in 0..MaxFailures
    BY <1>0, <1>3, FailsTyped DEF Raises, FlagTypes, FaultTypes
  <2>2. FlagTypes' /\ FaultTypes'
    BY <1>0, <1>3, <2>1 DEF Raises, FlagTypes, FaultTypes
  <2>. QED BY <1>1, <1>2, <2>1, <2>2 DEF Types
<1>4. CASE Begins(k)
  <2>1. StatusTypes'
    BY <1>0, <1>4, OneEventMore DEF Begins, StatusTypes, Statuses
  <2>2. FlagTypes' /\ FaultTypes'
    BY <1>0, <1>4 DEF Begins, FlagTypes, FaultTypes
  <2>. QED BY <1>1, <1>2, <2>1, <2>2 DEF Types
<1>5. CASE Works(k) \/ Completes(k) \/ Ends(k)
  <2>1. StatusTypes'
    BY <1>0, <1>5 DEF Works, Completes, Ends, StatusTypes, Statuses
  <2>2. FlagTypes'
    BY <1>0, <1>5 DEF Works, Completes, Ends, FlagTypes
  <2>3. FaultTypes'
    BY <1>0, <1>5 DEF Works, Completes, Ends, FaultTypes
  <2>. QED BY <1>1, <1>2, <2>1, <2>2, <2>3 DEF Types
<1>. QED BY <1>3, <1>4, <1>5 DEF Serves, Breaks

LEMMA InterruptsTyped ==
  ASSUME FlagTypes, ServeTypes, NEW ts, NEW s \in Statuses, NEW q \in Seq({"failed", "running"}),
         Interrupts(ts, s, q), UNCHANGED current
  PROVE  StatusTypes' /\ ServeTypes' /\ {ready', initializing'} \subseteq BOOLEAN
<1>1. StatusTypes'
  BY FailsWithTyped DEF Interrupts, StatusTypes
<1>2. ServeTypes'
  BY CancelledTyped DEF Interrupts, ServeTypes
<1>3. {ready', initializing'} \subseteq BOOLEAN
  BY DEF Interrupts, FlagTypes
<1>. QED BY <1>1, <1>2, <1>3

LEMMA InterruptedTyped == \A s \in Steps : Interrupted(s) \in Steps
BY DEF Interrupted, Steps

LEMMA ExhaustsTyped ==
  ASSUME Types, Exhausts
  PROVE  Types'
<1>0. StatusTypes /\ FlagTypes /\ ServeTypes /\ CallerTypes /\ FaultTypes /\ WatcherTypes
  BY DEF Types
<1>1. FaultTypes' /\ WatcherTypes'
  BY <1>0 DEF Exhausts, FaultTypes, WatcherTypes, watcher
<1>2. Tail(events) \in Seq({"failed", "running"}) /\ "cooling" \in Statuses
  BY <1>0 DEF Exhausts, Arrives, StatusTypes, Statuses
<1>3. CASE /\ status' = "cooling" /\ events' = Tail(events) /\ Goes("cooldown", "new")
           /\ UNCHANGED <<ready, initializing, serve>>
  <2>1. StatusTypes' /\ CallerTypes'
    BY <1>0, <1>2, <1>3, GoesTyped DEF StatusTypes, Steps
  <2>2. FlagTypes' /\ ServeTypes'
    BY <1>0, <1>3 DEF Exhausts, FlagTypes, ServeTypes
  <2>. QED BY <1>1, <2>1, <2>2 DEF Types
<1>4. CASE /\ at' = [at EXCEPT !["cooldown"] = "new", !["replaced"] = Interrupted(at["cooldown"])]
           /\ Interrupts({"cooldown"}, "cooling", Tail(events))
  <2>1. StatusTypes' /\ ServeTypes' /\ {ready', initializing'} \subseteq BOOLEAN
    BY <1>0, <1>2, <1>4, InterruptsTyped DEF Exhausts
  <2>2. FlagTypes'
    BY <1>0, <2>1 DEF Exhausts, FlagTypes
  <2>3. CallerTypes'
    BY <1>0, <1>4, InterruptedTyped, Assumptions DEF CallerTypes, Steps
  <2>. QED BY <1>1, <2>1, <2>2, <2>3 DEF Types
<1>. QED BY <1>3, <1>4 DEF Exhausts

LEMMA HandlersTyped ==
  ASSUME Types, Handlers \/ ReadyTimesOut \/ Expires
  PROVE  Types'
<1>0. StatusTypes /\ FlagTypes /\ ServeTypes /\ CallerTypes /\ FaultTypes /\ WatcherTypes
  BY DEF Types
<1>5. CASE Exhausts
  BY <1>5, ExhaustsTyped
<1>. SUFFICES ASSUME ~Exhausts PROVE Types'
  BY <1>5
<1>1. ServeTypes' /\ FaultTypes' /\ FlagTypes'
  BY <1>0 DEF Handlers, Unheard, Duplicate, Accepts, HearsRunning, SeesReady,
              CooldownBegins, ReadyTimesOut, Expires, lifecycle, ServeTypes, FaultTypes, FlagTypes
<1>2. StatusTypes'
  <2>1. CASE events # <<>> /\ events' = Tail(events) /\ status' = status
    BY <1>0, <2>1, OneEventLess DEF StatusTypes, Statuses
  <2>2. CASE UNCHANGED events /\ status' \in {status, "dead"}
    BY <1>0, <2>2 DEF StatusTypes, Statuses
  <2>. QED BY <2>1, <2>2 DEF Handlers, Unheard, Duplicate, Accepts, HearsRunning,
              SeesReady, CooldownBegins, ReadyTimesOut, Expires, Receives, Arrives, lifecycle
<1>3. CallerTypes'
  <2>1. CASE UNCHANGED at
    BY <1>0, <2>1 DEF CallerTypes
  <2>2. CASE Accepts
    BY <1>0, <2>2, GoesTyped DEF Accepts, Steps
  <2>3. CASE CooldownBegins
    BY <1>0, <2>3, GoesTyped DEF CooldownBegins, Steps
  <2>. QED BY <2>1, <2>2, <2>3 DEF Handlers, Unheard, Duplicate, HearsRunning, SeesReady,
              ReadyTimesOut, Expires, lifecycle
<1>4. WatcherTypes'
  <2>1. CASE UNCHANGED watcher
    BY <1>0, <2>1 DEF watcher, WatcherTypes
  <2>2. CASE Accepts
    BY <1>0, <2>2, Assumptions DEF Accepts, WatcherTypes
  <2>3. CASE HearsRunning \/ CooldownBegins
    BY <1>0, <2>3 DEF HearsRunning, CooldownBegins, WatcherTypes
  <2>4. CASE SeesReady \/ ReadyTimesOut \/ Expires
    <3>1. /\ watching' \in {"before", "up", "stopping", "stopped"}
          /\ {restarting', budgeted'} \subseteq BOOLEAN
      BY <1>0, <2>4 DEF SeesReady, ReadyTimesOut, Expires, WatcherTypes
    <3>2. waiters \in Nat /\ woken \in Nat /\ tries \in Nat /\ cycles \in Nat /\ budget \in 0..Intensity
      BY <1>0 DEF WatcherTypes
    <3>3. budget' \in 0..Intensity /\ cycles' \in Nat
      BY <3>2, <2>4, Assumptions DEF SeesReady, ReadyTimesOut, Expires
    <3>4. waiters' \in Nat
      BY <3>2, <2>4 DEF SeesReady, ReadyTimesOut, Expires
    <3>6. woken' \in Nat
      BY <3>2, <2>4 DEF SeesReady, ReadyTimesOut, Expires
    <3>5. tries' \in Nat
      BY <3>2, <2>4 DEF SeesReady, ReadyTimesOut, Expires
    <3>. QED BY <3>1, <3>3, <3>4, <3>5, <3>6 DEF WatcherTypes
  <2>. QED BY <2>1, <2>2, <2>3, <2>4 DEF Handlers, Unheard, Duplicate
<1>. QED BY <1>1, <1>2, <1>3, <1>4 DEF Types

LEMMA RunsTyped ==
  ASSUME Types, NEW t \in Restarters, Runs(t)
  PROVE  Types'
<1>0. /\ StatusTypes /\ FlagTypes /\ ServeTypes /\ CallerTypes /\ FaultTypes /\ WatcherTypes
      /\ t \in Callers
  BY Assumptions DEF Types
<1>1. CASE Wakes(t) \/ Aborts(t)
  <2>1. CallerTypes'
    BY <1>0, <1>1, GoesTyped DEF Wakes, Aborts, Steps
  <2>2. StatusTypes' /\ FlagTypes' /\ ServeTypes' /\ FaultTypes'
    BY <1>0, <1>1 DEF Wakes, Aborts, StatusTypes, FlagTypes, ServeTypes, FaultTypes
  <2>3. WatcherTypes'
    <3>1. /\ watching' \in {"before", "up", "stopping", "stopped"}
          /\ {restarting', budgeted'} \subseteq BOOLEAN
      BY <1>0, <1>1 DEF Wakes, Aborts, Leaves, WatcherTypes
    <3>2. /\ budget' \in 0..Intensity /\ cycles' \in Nat
          /\ waiters' \in Nat /\ woken' \in Nat /\ tries' \in Nat
      BY <1>0, <1>1, Assumptions DEF Wakes, Aborts, WatcherTypes
    <3>. QED BY <3>1, <3>2 DEF WatcherTypes
  <2>. QED BY <2>1, <2>2, <2>3 DEF Types
<1>2. CASE Restart(t)
  BY <1>2, RestartTyped
<1>. QED BY <1>1, <1>2 DEF Runs

LEMMA TeardownTyped ==
  ASSUME Types, WatcherListens \/ Closes \/ WatcherStops \/ WatcherStopped \/ Teardown
  PROVE  Types'
<1>0. /\ StatusTypes /\ FlagTypes /\ ServeTypes /\ CallerTypes /\ FaultTypes /\ WatcherTypes
      /\ "teardown" \in Callers
  BY Assumptions DEF Types
<1>1. CASE Stops("teardown") /\ UNCHANGED watcher
  BY <1>0, <1>1, StopsTyped
<1>2. CASE Hooks("teardown") /\ UNCHANGED watcher
  BY <1>0, <1>2, HooksTyped
<1>3. CASE (Joins("teardown") \/ Finishes("teardown", "done")) /\ UNCHANGED watcher
  <2>1. CallerTypes'
    BY <1>0, <1>3, GoesTyped DEF Joins, Finishes, Steps
  <2>2. StatusTypes' /\ FlagTypes'
    BY <1>0, <1>3 DEF Joins, Finishes, StatusTypes, FlagTypes, Statuses
  <2>3. ServeTypes' /\ FaultTypes' /\ WatcherTypes'
    BY <1>0, <1>3 DEF Joins, Finishes, ServeTypes, FaultTypes, WatcherTypes, watcher
  <2>. QED BY <2>1, <2>2, <2>3 DEF Types
<1>4. CASE TeardownBegins \/ TeardownSkips
  <2>1. CallerTypes'
    BY <1>0, <1>4, GoesTyped DEF TeardownBegins, TeardownSkips, Steps
  <2>2. StatusTypes' /\ FlagTypes' /\ ServeTypes' /\ FaultTypes' /\ WatcherTypes'
    BY <1>0, <1>4 DEF TeardownBegins, TeardownSkips, StatusTypes, FlagTypes, ServeTypes,
                      FaultTypes, WatcherTypes, watcher
  <2>. QED BY <2>1, <2>2 DEF Types
<1>5. CASE WatcherListens \/ Closes \/ WatcherStopped
  <2>1. StatusTypes' /\ FlagTypes'
    BY <1>0, <1>5 DEF WatcherListens, Closes, WatcherStopped, StatusTypes, FlagTypes, lifecycle
  <2>2. ServeTypes' /\ CallerTypes' /\ FaultTypes'
    BY <1>0, <1>5 DEF WatcherListens, Closes, WatcherStopped, ServeTypes, CallerTypes, FaultTypes,
                      lifecycle
  <2>3. WatcherTypes'
    BY <1>0, <1>5 DEF WatcherListens, Closes, WatcherStopped, WatcherTypes, watcher
  <2>. QED BY <2>1, <2>2, <2>3 DEF Types
<1>6. CASE WatcherStops
  <2>1. StatusTypes' /\ {ready', initializing'} \subseteq BOOLEAN
    BY <1>0, <1>6, InterruptsTyped DEF WatcherStops, StatusTypes
  <2>2. FlagTypes'
    BY <1>0, <1>6, <2>1 DEF WatcherStops, FlagTypes
  <2>3. ServeTypes'
    BY <1>0, <1>6, InterruptsTyped DEF WatcherStops, StatusTypes
  <2>4. CallerTypes'
    BY <1>0, <1>6, InterruptedTyped DEF WatcherStops, CallerTypes
  <2>5. FaultTypes'
    BY <1>0, <1>6 DEF WatcherStops, FaultTypes
  <2>6. WatcherTypes'
    BY <1>0, <1>6 DEF WatcherStops, WatcherTypes
  <2>. QED BY <2>1, <2>2, <2>3, <2>4, <2>5, <2>6 DEF Types
<1>. QED BY <1>1, <1>2, <1>3, <1>4, <1>5, <1>6 DEF Teardown

LEMMA TypesKept == TypeOK /\ [Next]_vars => TypeOK'
<1>. SUFFICES ASSUME TypeOK, [Next]_vars PROVE TypeOK'
  OBVIOUS
<1>1. CASE Next
  BY <1>1, TypeParts, HandlersTyped, RunsTyped, ServeTyped, TeardownTyped DEF Next, Over, vars,
     Types, StatusTypes, FlagTypes, ServeTypes, CallerTypes, FaultTypes, WatcherTypes, watcher, lifecycle
<1>2. CASE UNCHANGED vars
  BY <1>2 DEF vars, lifecycle, watcher, TypeOK, LifecycleTypeOK
<1>. QED BY <1>1, <1>2

LEMMA InitTyped == Init => TypeOK
<1>. SUFFICES ASSUME Init PROVE TypeOK
  OBVIOUS
<1>1. ServeTypes /\ CallerTypes /\ FaultTypes
  BY Assumptions DEF Init, ServeTypes, CallerTypes, FaultTypes, ServeStages, Steps, Tasks
<1>2. StatusTypes
  BY DEF Init, StatusTypes, Statuses
<1>3. FlagTypes
  BY DEF Init, FlagTypes
<1>4. WatcherTypes
  <2>1. watching \in {"before", "up", "stopping", "stopped"}
    BY DEF Init
  <2>2. restarting \in BOOLEAN /\ budgeted \in BOOLEAN
    BY DEF Init
  <2>3. budget \in 0..Intensity /\ cycles \in Nat /\ waiters \in Nat
        /\ woken \in Nat /\ tries \in Nat
    BY Assumptions DEF Init
  <2>. QED BY <2>1, <2>2, <2>3 DEF WatcherTypes
<1>. QED BY <1>1, <1>2, <1>3, <1>4, TypeParts DEF Types

\* Every variable of the service and of its watcher keeps its type, for any restart tasks
\* and limits (resources/service.py, core/service_watcher.py).
THEOREM TypeCorrect == Spec => []TypeOK
BY InitTyped, TypesKept, PTL DEF Spec

----------------------------------------------------------------------------
(* The handlers *)

\* What the rest of the proof needs of a step that takes the first event.
LEMMA HandlerSound ==
  ASSUME TypeOK, TeardownLater, Sound,
         Unheard \/ Duplicate \/ HearsRunning \/ SeesReady \/ ReadyTimesOut \/ Expires
  PROVE  Sound'
<1>1. UNCHANGED <<status, ready, completed, shuttingDown, initializing, serve, at, closing,
                  watching>>
  BY DEF Unheard, Duplicate, HearsRunning, SeesReady, ReadyTimesOut, Expires, lifecycle, watcher
<1>2. (Due' => Due) /\ (Once => Once')
  <2>1. CASE UNCHANGED events
    BY <2>1, SameEvents
  <2>2. CASE events # <<>> /\ events' = Tail(events)
    BY <2>2, OneEventLess DEF TypeOK, LifecycleTypeOK
  <2>. QED BY <2>1, <2>2 DEF Unheard, Duplicate, HearsRunning, SeesReady, ReadyTimesOut,
                             Expires, Receives, Arrives, lifecycle
<1>3. OneLife'
  BY <1>1, <1>2 DEF Sound, OneLife, NoneActive, Active, Quiet, Live, Hears
<1>4. GivenUp' /\ Flagged'
  BY <1>1 DEF Sound, GivenUp, Flagged, Quiet, Live
<1>5. ASSUME Wave = "after" PROVE Stopped'
  BY <1>1, <1>5 DEF Sound, Stopped, NoneActive, Active, Quiet, Live, Hears
<1>6. ASSUME ReadyIn = "serve" PROVE Rationed'
  <2>1. tries \in Nat /\ budget \in Nat
    BY Assumptions DEF TypeOK
  <2>2. Rationed
    BY <1>6 DEF Sound
  <2>3. tries' <= budget' /\ (tries = 0 => tries' = 0)
    <3>1. CASE SeesReady
      <4>1. tries = 0 /\ tries' = tries /\ budget' = 0
        BY <2>2, <3>1 DEF SeesReady, Rationed
      <4>. QED BY <4>1
    <3>2. CASE Expires
      BY <2>1, <2>2, <3>2 DEF Expires, Rationed
    <3>3. CASE UNCHANGED <<tries, budget>>
      BY <2>1, <2>2, <3>3 DEF Rationed
    <3>. QED BY <3>1, <3>2, <3>3 DEF Unheard, Duplicate, HearsRunning, ReadyTimesOut, watcher
  <2>4. ready' \/ woken' > 0 => tries' = 0
    <3>1. woken' > 0 => woken > 0
      BY DEF SeesReady, ReadyTimesOut, Unheard, Duplicate, HearsRunning, Expires, watcher, TypeOK
    <3>. QED BY <1>1, <2>2, <2>3, <3>1 DEF Rationed
  <2>5. Hears' /\ Due' => ~ready'
    BY <1>1, <1>2, <2>2 DEF Rationed, Hears
  <2>. QED BY <2>3, <2>4, <2>5 DEF Rationed
<1>. QED BY <1>3, <1>4, <1>5, <1>6 DEF Sound

\* A failure that is heard leaves nothing of the life that it ends.
LEMMA FailureSound ==
  ASSUME TypeOK, TeardownLater, Sound, Accepts \/ Exhausts
  PROVE  Sound'
<1>1. /\ UNCHANGED <<completed, shuttingDown, closing, watching>>
      /\ watching = "up" /\ woken' = 0 /\ events # <<>> /\ Head(events) = "failed"
  BY DEF Accepts, Exhausts, Receives, Arrives, watcher
<1>2. Due
  BY <1>1 DEF Due, TypeOK, LifecycleTypeOK
<1>3. NoneActive /\ Quiet /\ Once
  BY <1>1, <1>2 DEF Sound, OneLife, Hears
<1>4. /\ events' = Tail(events) /\ UNCHANGED ready /\ (initializing' => initializing)
      /\ \A k \in Tasks : serve'[k] = serve[k]
      /\ Accepts => UNCHANGED status
      /\ Exhausts => status' = "cooling"
  <2>1. CASE Accepts
    <3>1. ~Exhausts
      BY <2>1 DEF Accepts, Exhausts, watcher, TypeOK
    <3>. QED BY <2>1, <3>1 DEF Accepts, Receives
  <2>2. at["cooldown"] \in {"off", "trail"}
    BY <1>3, Assumptions DEF NoneActive, Active
  <2>3. CASE Exhausts
    BY <2>2, <2>3 DEF Exhausts, Accepts, Interrupts, TypeOK, LifecycleTypeOK
  <2>. QED BY <2>1, <2>3
<1>5. PICK t \in Restarters :
        /\ at'[t] \in {"sleep", "new"} /\ at'["teardown"] = at["teardown"]
        /\ \A u \in Restarters : u # t => at'[u] \in {at[u], "off"}
        /\ Exhausts => t = "cooldown" /\ at'[t] = "new"
  <2>1. CASE Accepts
    <3>1. PICK t \in Restarters : Goes(t, "sleep")
      BY <2>1 DEF Accepts, Idle, Restarts
    <3>2. ~Exhausts
      BY <2>1 DEF Accepts, Exhausts, watcher, TypeOK
    <3>. QED BY <3>1, <3>2, Going, Assumptions
  <2>2. CASE Exhausts /\ Goes("cooldown", "new")
    BY <2>2, Going, Assumptions
  <2>3. CASE Exhausts /\ at' = [at EXCEPT !["cooldown"] = "new",
                                          !["replaced"] = Interrupted(at["cooldown"])]
    <3>1. Interrupted(at["cooldown"]) = "off"
      BY <1>3, Assumptions DEF NoneActive, Active, Interrupted
    <3>. QED BY <2>3, <3>1, Assumptions DEF TypeOK, LifecycleTypeOK
  <2>. QED BY <2>1, <2>2, <2>3 DEF Exhausts
<1>6. ~Due' /\ Once'
  BY <1>1, <1>3, <1>4, OneEventLess DEF TypeOK, LifecycleTypeOK
<1>7. /\ Hears' /\ Quiet' /\ \A u \in Restarters : u # t => ~Active(u)'
      /\ \A u \in Restarters : at'[u] \notin {"join", "done", "deps", "setup", "init"}
  BY <1>1, <1>3, <1>4, <1>5 DEF Hears, Quiet, Live, NoneActive, Active
<1>8. OneLife'
  BY <1>6, <1>7 DEF OneLife, Quiet
<1>9. GivenUp'
  <2>1. status' = "cooling" /\ ~closing' => at'["cooldown"] = "new"
    BY <1>1, <1>3, <1>4, <1>5, Assumptions DEF Sound, GivenUp, NoneActive, Active
  <2>. QED BY <1>7, <2>1 DEF GivenUp
<1>10. Flagged'
  <2>1. ~closing => ~shuttingDown
    BY <1>3 DEF Sound, Flagged, NoneActive, Active
  <2>. QED BY <1>1, <1>4, <1>7, <2>1 DEF Sound, Flagged
<1>11. ASSUME Wave = "after" PROVE Stopped'
  BY <1>1, <1>3, <1>5, <1>7, <1>11 DEF Sound, Stopped, NoneActive, Active, Hears
<1>12. ASSUME ReadyIn = "serve" PROVE Rationed'
  <2>1. tries \in Nat /\ budget \in Nat
    BY Assumptions DEF TypeOK
  <2>2. Rationed /\ ~ready
    BY <1>1, <1>2, <1>12 DEF Sound, Rationed, Hears
  <2>3. tries' <= budget'
    <3>1. CASE Accepts
      BY <2>1, <2>2, <3>1 DEF Accepts, Rationed
    <3>2. CASE Exhausts
      BY <2>1, <2>2, <3>2 DEF Exhausts, Rationed, watcher
    <3>. QED BY <3>1, <3>2
  <2>. QED BY <1>1, <1>4, <2>2, <2>3 DEF Rationed
<1>. QED BY <1>8, <1>9, <1>10, <1>11, <1>12 DEF Sound

\* The cooldown begins, or the last one was too many.
LEMMA CooldownSound ==
  ASSUME TypeOK, TeardownLater, Sound, CooldownBegins
  PROVE  Sound'
<1>1. PICK s \in {"off", "sleep"} :
        /\ Goes("cooldown", s)
        /\ s = "off" => status' = "dead"
        /\ s = "sleep" => UNCHANGED status
  <2>1. CASE MaxCycles > 0 /\ cycles >= MaxCycles
    BY <2>1 DEF CooldownBegins
  <2>2. CASE ~(MaxCycles > 0 /\ cycles >= MaxCycles)
    BY <2>2 DEF CooldownBegins
  <2>. QED BY <2>1, <2>2
<1>2. /\ at["cooldown"] = "new" /\ at'["cooldown"] = s
      /\ \A u \in Restarters : u # "cooldown" => at'[u] = at[u]
      /\ at'["teardown"] = at["teardown"]
  BY <1>1, Going, Assumptions DEF CooldownBegins
<1>3. /\ UNCHANGED <<ready, completed, shuttingDown, initializing, serve, events, closing, watching,
                     budget, woken, tries>>
      /\ Due' = Due /\ Once' = Once
  BY SameEvents DEF CooldownBegins
<1>4. ~NoneActive /\ Quiet /\ (Hears => ~Due)
  BY <1>2, Assumptions DEF Sound, OneLife, NoneActive, Active
<1>5. OneLife'
  BY <1>2, <1>3, <1>4, Assumptions DEF Sound, OneLife, NoneActive, Active, Quiet, Live, Hears
<1>6. GivenUp'
  BY <1>1, <1>2, <1>3, <1>4, Assumptions DEF Sound, OneLife, GivenUp, Active, Quiet, Live
<1>7. ASSUME Wave = "after" PROVE Stopped'
  BY <1>2, <1>3, <1>4, <1>7, Assumptions DEF Sound, Stopped, NoneActive, Active, Quiet, Live, Hears
<1>8. ASSUME ReadyIn = "serve" PROVE Rationed'
  BY <1>3, <1>8 DEF Sound, Rationed, Hears
<1>9. Flagged'
  BY <1>2, <1>3, Assumptions DEF Sound, Flagged
<1>. QED BY <1>5, <1>6, <1>7, <1>8, <1>9 DEF Sound

----------------------------------------------------------------------------
(* The steps of a restart *)

LEMMA OneActive ==
  ASSUME Sound, NEW t \in Restarters, Active(t)
  PROVE  /\ Quiet /\ ~NoneActive /\ (Hears => ~Due)
         /\ \A u \in Restarters : u # t => at[u] \in {"off", "trail"}
         /\ at[t] # "unwind" => Hears
         /\ Wave = "after" => at["teardown"] = "off" /\ watching # "stopped"
         /\ Wave = "after" => ~shuttingDown \/ ~Hears \/ at[t] \in {"hooks", "cleanup"}
<1>1. Quiet /\ ~NoneActive /\ (Hears => ~Due)
  BY DEF Sound, OneLife, NoneActive
<1>2. \A u \in Restarters : u # t => at[u] \in {"off", "trail"}
  BY DEF Sound, OneLife, Active
<1>3. at[t] # "unwind" => Hears
  BY DEF Sound, OneLife, Active
<1>4. Wave = "after" => at["teardown"] = "off" /\ watching # "stopped"
  BY <1>1 DEF Sound, Stopped
<1>5. Wave = "after" => ~shuttingDown \/ ~Hears \/ at[t] \in {"hooks", "cleanup"}
  BY <1>2 DEF Sound, Stopped
<1>. QED BY <1>1, <1>2, <1>3, <1>4, <1>5

\* A step of a restart that leaves the service quiet and tells the watcher nothing.
LEMMA QuietStepSound ==
  ASSUME TypeOK, Sound, NEW t \in Restarters, Active(t), NEW s, Goes(t, s),
         s \notin {"join", "done"}, at[t] = "unwind" => s = "off",
         UNCHANGED <<events, watching, closing>>, Quiet'
  PROVE  /\ OneLife'
         /\ at'[t] = s /\ \A u \in Restarters : u # t => at'[u] = at[u] /\ at[u] \in {"off", "trail"}
         /\ at'["teardown"] = at["teardown"]
         /\ Due' = Due /\ Hears' = Hears
<1>1. at'[t] = s /\ \A u \in Restarters : u # t => at'[u] = at[u]
  BY Going, Assumptions
<1>2. at'["teardown"] = at["teardown"]
  BY Going, Assumptions
<1>3. Due' = Due /\ Once' = Once /\ Hears' = Hears
  BY SameEvents DEF Hears
<1>4. \A u \in Restarters : u # t => at'[u] = at[u] /\ at[u] \in {"off", "trail"}
  BY <1>1, OneActive
<1>5. OneLife'
  <2>1. \A u, v \in Restarters : Active(u)' /\ Active(v)' => u = v
    BY <1>4 DEF Active
  <2>2. \A j, k \in Tasks : Live(j)' /\ Live(k)' => j = k
    BY DEF Quiet
  <2>3. (Hears => ~Due) /\ (Hears => Once)
    BY OneActive DEF Sound, OneLife
  <2>4. ~Hears => closing /\ at[t] = "unwind"
    BY OneActive DEF Sound, OneLife
  <2>5. ~Hears' => closing' /\ \A u \in Restarters : at'[u] \in {"off", "unwind"}
    BY <1>1, <1>3, <1>4, <2>4 DEF Sound, OneLife
  <2>6. \A u \in Restarters : at'[u] \notin {"join", "done"}
    BY <1>1, <1>4
  <2>. QED BY <1>3, <2>1, <2>2, <2>3, <2>5, <2>6 DEF OneLife
<1>. QED BY <1>1, <1>2, <1>3, <1>4, <1>5

\* Up to the shutdown of the restart.
LEMMA WaitingSound ==
  ASSUME TypeOK, TeardownLater, Sound, NEW t \in Restarters, Wakes(t) \/ Aborts(t) \/ Skips(t)
  PROVE  Sound'
<1>0. PICK s \in {"stop", "off", "init"} :
        /\ Goes(t, s) /\ (s = "off" => closing)
        /\ UNCHANGED <<status, ready, completed, shuttingDown, initializing, serve, events, closing,
                       watching>>
        /\ at[t] \in {"sleep", "stop"}
  BY DEF Wakes, Aborts, Skips, watcher
<1>1. Active(t) /\ Quiet'
  BY <1>0, OneActive DEF Active, Quiet, Live
<1>2. /\ OneLife'
      /\ at'[t] = s /\ \A u \in Restarters : u # t => at'[u] = at[u] /\ at[u] \in {"off", "trail"}
      /\ at'["teardown"] = at["teardown"]
      /\ Due' = Due /\ Hears' = Hears
  BY <1>0, <1>1, QuietStepSound
<1>3. GivenUp'
  <2>2. status = "cooling" /\ ~closing => t = "cooldown"
    BY <1>0, <1>1, OneActive, Assumptions DEF Sound, GivenUp
  <2>3. \A u \in Restarters : at'[u] \notin {"deps", "setup"}
    BY <1>2
  <2>. QED BY <1>0, <1>1, <1>2, <2>2, <2>3 DEF GivenUp
<1>4. ASSUME Wave = "after" PROVE Stopped'
  <2>1. ~shuttingDown \/ ~Hears
    BY <1>0, <1>1, <1>4, OneActive
  <2>2. at["teardown"] = "off" /\ watching # "stopped"
    BY <1>1, <1>4, OneActive
  <2>3. \A u \in Restarters : at'[u] \notin {"deps", "setup"}
    BY <1>2
  <2>. QED BY <1>0, <1>1, <1>2, <2>1, <2>2, <2>3 DEF Stopped
<1>5. ASSUME ReadyIn = "serve" PROVE Rationed'
  <2>1. Rationed /\ tries \in Nat /\ budget \in Nat
    BY <1>5, Assumptions DEF Sound, TypeOK
  <2>2. (tries' = tries /\ budget' = budget) \/ (tries' = 0 /\ budget' = 0)
    <3>1. CASE Wakes(t) /\ t = "cooldown"
      BY <3>1 DEF Wakes
    <3>2. CASE Wakes(t) /\ t # "cooldown"
      BY <3>2 DEF Wakes
    <3>3. CASE Aborts(t) \/ Skips(t)
      BY <3>3 DEF Aborts, Skips, watcher
    <3>. QED BY <3>1, <3>2, <3>3
  <2>3. woken' = woken
    BY DEF Wakes, Aborts, Skips, watcher
  <2>. QED BY <1>0, <1>2, <2>1, <2>2, <2>3 DEF Rationed
<1>6. Flagged'
  <2>. SUFFICES ASSUME ~closing PROVE Flagged'
    BY <1>0 DEF Flagged
  <2>1. ~shuttingDown
    BY <1>0, <1>1, OneActive DEF Sound, Flagged
  <2>2. completed => ~initializing
    BY DEF Sound, Flagged
  <2>3. s = "init" => completed
    <3>1. at'[t] = "init" => Skips(t)
      BY Going, Assumptions DEF Wakes, Aborts
    <3>. QED BY <1>2, <2>1, <3>1 DEF Skips, Returns
  <2>4. \A u \in Restarters : at'[u] \notin {"deps", "setup"} /\ (at'[u] = "init" => s = "init")
    BY <1>2
  <2>. QED BY <1>0, <2>1, <2>2, <2>3, <2>4 DEF Flagged
<1>. QED BY <1>2, <1>3, <1>4, <1>5, <1>6 DEF Sound

\* The shutdown of the restart; it does not meet a live serve task.
LEMMA StoppingSound ==
  ASSUME TypeOK, TeardownLater, Sound, stopFaults = 0, stopFaults' = 0, NEW t \in Restarters,
         (Stops(t) \/ Joins(t) \/ Hooks(t) \/ Finishes(t, "init")) /\ UNCHANGED watcher
  PROVE  Sound'
<1>0. at[t] \in {"stop", "hooks", "cleanup"} /\ at[t] # "join"
  BY DEF Stops, Joins, Hooks, Finishes, Sound, OneLife
<1>1. Active(t) /\ Quiet /\ Hears
  BY <1>0, OneActive DEF Active
<1>2. PICK s \in {"hooks", "cleanup", "init"} :
        /\ Goes(t, s)
        /\ s \in {"hooks", "cleanup"} => UNCHANGED completed
        /\ s = "cleanup" => UNCHANGED <<status, shuttingDown, ready,
                                        initializing>> /\ at[t] = "hooks"
        /\ s = "hooks" => /\ shuttingDown' = TRUE /\ ready' = FALSE /\ UNCHANGED initializing
                          /\ status' \in {"stopped", "dead", "stopping"} /\ at[t] = "stop"
        /\ s = "init" => /\ shuttingDown' = FALSE /\ ready' = FALSE /\ initializing' = FALSE
                         /\ status' = "stopped"
  <2>1. CASE Stops(t)
    <3>1. ~(current # 0 /\ Live(current))
      BY <1>1 DEF Quiet, TypeOK, LifecycleTypeOK
    <3>2. ~(stopFaults' = stopFaults + 1)
      OBVIOUS
    <3>3. Goes(t, "hooks") /\ UNCHANGED <<completed, initializing>>
      BY <2>1, <3>1 DEF Stops
    <3>4. shuttingDown' = TRUE /\ ready' = FALSE /\ at[t] = "stop"
      BY <2>1 DEF Stops
    <3>5. status' \in {"stopped", "dead", "stopping"}
      BY <2>1, <3>2 DEF Stops, Terminal, HookRaises
    <3>. QED BY <3>3, <3>4, <3>5
  <2>2. CASE Hooks(t)
    <3>1. ~(stopFaults' = stopFaults + 1)
      OBVIOUS
    <3>. QED BY <2>2, <3>1 DEF Hooks, HookRaises
  <2>3. CASE Finishes(t, "init")
    BY <2>3 DEF Finishes
  <2>. QED BY <1>0, <2>1, <2>2, <2>3 DEF Joins
<1>3. UNCHANGED <<watching, budget, woken, tries, closing, events>>
  <2>1. ~(stopFaults' = stopFaults + 1)
    OBVIOUS
  <2>. QED BY <2>1 DEF Stops, Joins, Hooks, Finishes, HookRaises, watcher
<1>4. Quiet'
  BY <1>0, <1>1 DEF Stops, Joins, Hooks, Finishes, Quiet, Live, Cancelled, TypeOK, LifecycleTypeOK
<1>5. /\ OneLife'
      /\ at'[t] = s /\ \A u \in Restarters : u # t => at'[u] = at[u] /\ at[u] \in {"off", "trail"}
      /\ at'["teardown"] = at["teardown"]
      /\ Due' = Due /\ Hears' = Hears
  BY <1>0, <1>1, <1>2, <1>3, <1>4, QuietStepSound
<1>6. GivenUp'
  <2>2. at[t] # "stop" => ~(status = "cooling" /\ ~closing)
    BY <1>0, <1>1, OneActive, Assumptions DEF Sound, GivenUp
  <2>3. \A u \in Restarters : at'[u] \notin {"deps", "setup"}
    BY <1>2, <1>5
  <2>. QED BY <1>2, <1>3, <1>4, <2>2, <2>3 DEF GivenUp
<1>7. ASSUME Wave = "after" PROVE Stopped'
  <2>1. at["teardown"] = "off" /\ watching # "stopped"
    BY <1>1, <1>7, OneActive
  <2>2. \A u \in Restarters : at'[u] \notin {"deps", "setup"}
    BY <1>2, <1>5
  <2>. QED BY <1>2, <1>3, <1>4, <1>5, <2>1, <2>2 DEF Stopped
<1>8. ASSUME ReadyIn = "serve" PROVE Rationed'
  BY <1>2, <1>3, <1>5, <1>8 DEF Sound, Rationed
<1>9. Flagged'
  <2>1. ~closing => (completed => ~initializing)
    BY DEF Sound, Flagged
  <2>2. \A u \in Restarters : at'[u] \notin {"deps", "setup"} /\ (at'[u] = "init" => s = "init")
    BY <1>2, <1>5
  <2>. QED BY <1>2, <1>3, <1>5, <2>1, <2>2 DEF Flagged
<1>. QED BY <1>5, <1>6, <1>7, <1>8, <1>9 DEF Sound

\* The finally block of a shutdown that was cut off.
LEMMA UnwindSound ==
  ASSUME TypeOK, TeardownLater, Sound, NEW t \in Restarters, Unwinds(t),
         UNCHANGED <<watching, budgeted, budget, cycles, waiters, woken, tries>>
  PROVE  Sound'
<1>1. Active(t) /\ Quiet /\ Quiet'
  BY OneActive DEF Unwinds, Active, Quiet, Live
<1>2. /\ OneLife'
      /\ at'[t] = "off" /\ \A u \in Restarters : u # t => at'[u] = at[u] /\ at[u] \in {"off", "trail"}
      /\ at'["teardown"] = at["teardown"]
      /\ Due' = Due /\ Hears' = Hears
  BY <1>1, QuietStepSound DEF Unwinds
<1>3. GivenUp'
  BY <1>1, <1>2 DEF Unwinds, GivenUp
<1>6. Flagged'
  BY <1>2 DEF Unwinds, Flagged
<1>4. ASSUME Wave = "after" PROVE Stopped'
  BY <1>1, <1>2, <1>4, OneActive DEF Unwinds, Stopped
<1>5. ASSUME ReadyIn = "serve" PROVE Rationed'
  BY <1>2, <1>5 DEF Unwinds, Sound, Rationed
<1>. QED BY <1>2, <1>3, <1>4, <1>5, <1>6 DEF Sound

\* initialize() up to its wait for the dependencies, and from there to the hooks, or to
\* its end when the shutdown has begun.
LEMMA InitializeSound ==
  ASSUME TypeOK, TeardownLater, Sound, NEW t \in Restarters,
         Initializes(t) \/ (Waits(t) /\ (Goes(t, "setup") \/ closing)),
         Wakened, UNCHANGED <<watching, budgeted, budget, cycles, waiters, tries>>
  PROVE  Sound'
<1>0. Active(t) /\ at[t] \in {"init", "deps"} /\ Quiet /\ Quiet'
  BY OneActive DEF Initializes, Waits, Active, Quiet, Live
<1>1. PICK s \in {"deps", "setup", "off"} :
        /\ Goes(t, s)
        /\ UNCHANGED <<shuttingDown, events, closing>>
        /\ s = "deps" => status' = "starting" /\ completed' = FALSE /\ UNCHANGED ready /\ at[t] = "init"
        /\ s = "setup" => UNCHANGED <<status, completed, ready>> /\ at[t] = "deps"
        /\ s = "off" => /\ UNCHANGED status /\ completed' \in {completed, FALSE}
                        /\ at[t] = "init" => initializing
                        /\ at[t] = "deps" => closing
                        /\ ready' => ready
  <2>1. CASE Initializes(t) /\ initializing
    BY <2>1 DEF Initializes
  <2>2. CASE Initializes(t) /\ ~initializing
    BY <2>2 DEF Initializes
  <2>3. CASE Waits(t) /\ ~closing /\ Goes(t, "setup")
    <3>1. at'[t] = "setup"
      BY <2>3, Going, Assumptions
    <3>2. ~Goes(t, "off")
      BY <3>1, Going, Assumptions
    <3>. QED BY <2>3, <3>2 DEF Waits
  <2>4. CASE Waits(t) /\ closing
    BY <2>4 DEF Waits
  <2>. QED BY <2>1, <2>2, <2>3, <2>4
<1>2. /\ OneLife'
      /\ at'[t] = s /\ \A u \in Restarters : u # t => at'[u] = at[u] /\ at[u] \in {"off", "trail"}
      /\ at'["teardown"] = at["teardown"]
      /\ Due' = Due /\ Hears' = Hears
  BY <1>0, <1>1, QuietStepSound
<1>3. GivenUp'
  <2>1. at[t] = "deps" => status \notin {"cooling", "dead"}
    BY DEF Sound, GivenUp
  <2>2. at[t] = "init" => ~(initializing /\ ~closing)
    BY DEF Sound, Flagged
  <2>3. CASE s = "deps"
    BY <1>0, <1>1, <1>2, <2>3 DEF GivenUp
  <2>4. CASE s = "setup"
    BY <1>0, <1>1, <1>2, <2>1, <2>4 DEF GivenUp
  <2>5. CASE s = "off"
    <3>1. closing
      BY <1>0, <1>1, <2>2, <2>5
    <3>. QED BY <1>0, <1>1, <1>2, <2>5, <3>1 DEF GivenUp
  <2>. QED BY <2>3, <2>4, <2>5
<1>4. ASSUME Wave = "after" PROVE Stopped'
  <2>1. ~shuttingDown /\ at["teardown"] = "off" /\ watching # "stopped"
    BY <1>0, <1>4, OneActive
  <2>2. at[t] = "deps" => ~completed
    BY <1>0, <1>4 DEF Sound, Stopped
  <2>. QED BY <1>0, <1>1, <1>2, <2>1, <2>2 DEF Stopped
<1>5. ASSUME ReadyIn = "serve" PROVE Rationed'
  <2>1. ready' => ready
    BY <1>1
  <2>2. tries' = tries /\ budget' = budget /\ woken' = woken /\ Rationed
    BY <1>5, <2>1 DEF Sound, Wakened
  <2>. QED BY <1>2, <2>1, <2>2 DEF Rationed
<1>6. Flagged'
  <2>. SUFFICES ASSUME ~closing PROVE Flagged'
    BY <1>1 DEF Flagged
  <2>1. ~shuttingDown
    BY <1>0, OneActive DEF Sound, Flagged
  <2>2. (at[t] = "init" => ~initializing) /\ (at[t] = "deps" => ~completed)
    BY DEF Sound, Flagged
  <2>3. s # "off" /\ completed' = FALSE
    BY <1>0, <1>1, <2>2 DEF TypeOK, LifecycleTypeOK
  <2>4. \A u \in Restarters : at'[u] # "init"
    BY <1>2, <2>3
  <2>. QED BY <1>1, <2>1, <2>3, <2>4 DEF Flagged
<1>. QED BY <1>2, <1>3, <1>4, <1>5, <1>6 DEF Sound

\* What a failure does to the events, when no other one is on its way.
LEMMA FailsSound ==
  ASSUME TypeOK, Fails, ~Due, status \notin {"cooling", "dead"}
  PROVE  /\ Once' /\ status' \notin {"cooling", "dead"}
         /\ Due' => ~ready'
         /\ ready' => ready
<1>1. CASE status \in Terminal \cup {"failed"}
  <2>1. UNCHANGED <<status, events, ready>>
    BY <1>1 DEF Fails, FailsFrom, FailsWith
  <2>. QED BY <2>1, SameEvents DEF Due, Once
<1>2. CASE status \notin Terminal \cup {"failed"}
  <2>1. status' = "failed" /\ ready' = FALSE /\ events' = Append(events, "failed")
    BY <1>2 DEF Fails, FailsFrom, FailsWith
  <2>2. Once'
    BY <2>1, OneEventMore DEF TypeOK, LifecycleTypeOK
  <2>. QED BY <2>1, <2>2
<1>. QED BY <1>1, <1>2

\* A restart that fails: its failure is the only one, and its task ends.
LEMMA FailureStepSound ==
  ASSUME TypeOK, TeardownLater, Sound, NEW t \in Restarters, at[t] \in {"deps", "setup"}, Fails,
         initializing' = FALSE, Goes(t, "off"),
         Wakened, UNCHANGED <<completed, shuttingDown, serve, closing, watching, budgeted, budget,
                              cycles, waiters, tries>>
  PROVE  Sound'
<1>1. /\ at'[t] = "off" /\ \A u \in Restarters : u # t => at'[u] = at[u]
      /\ at'["teardown"] = at["teardown"]
  BY Going, Assumptions
<1>2. /\ Active(t) /\ Hears /\ Hears' /\ ~Due /\ Quiet /\ Quiet'
      /\ \A u \in Restarters : u # t => at[u] \in {"off", "trail"}
  BY OneActive DEF Active, Hears, Quiet, Live
<1>3. status \notin {"cooling", "dead"}
  BY DEF Sound, GivenUp
<1>4. /\ Once' /\ status' \notin {"cooling", "dead"}
      /\ Due' => ~ready'
      /\ ready' => ready
  BY <1>2, <1>3, FailsSound
<1>5. NoneActive'
  BY <1>1, <1>2 DEF NoneActive, Active
<1>6. OneLife'
  BY <1>2, <1>4, <1>5 DEF OneLife, NoneActive, Active, Quiet
<1>7. GivenUp'
  BY <1>4, <1>5 DEF GivenUp, NoneActive, Active
<1>8. ASSUME Wave = "after" PROVE Stopped'
  <2>1. at["teardown"] = "off" /\ watching # "stopped" /\ ~shuttingDown
    BY <1>2, <1>8, OneActive
  <2>. QED BY <1>1, <1>2, <1>5, <2>1 DEF Stopped, NoneActive, Active
<1>9. ASSUME ReadyIn = "serve" PROVE Rationed'
  <2>1. woken' = woken
    BY <1>4 DEF Wakened
  <2>. QED BY <1>4, <1>9, <2>1 DEF Sound, Rationed
<1>10. Flagged'
  <2>1. ~closing => ~shuttingDown
    BY <1>2 DEF Sound, Flagged
  <2>2. \A u \in Restarters : at'[u] \in {"off", "trail"}
    BY <1>1, <1>2
  <2>. QED BY <2>1, <2>2 DEF Flagged
<1>. QED BY <1>6, <1>7, <1>8, <1>9, <1>10 DEF Sound

\* The serve task is spawned and the restart ends.
LEMMA SpawnSound ==
  ASSUME TypeOK, TeardownLater, Sound, NEW t \in Restarters, Spawns(t),
         Wakened, UNCHANGED <<watching, budgeted, budget, cycles, waiters, tries>>
  PROVE  Sound'
<1>1. /\ at'[t] \in {"off", "trail"} /\ \A u \in Restarters : u # t => at'[u] = at[u]
      /\ at'["teardown"] = at["teardown"]
  BY Going, Assumptions DEF Spawns
<1>2. /\ Active(t) /\ Hears /\ Hears' /\ ~Due /\ Quiet
      /\ \A u \in Restarters : u # t => at[u] \in {"off", "trail"}
  BY OneActive DEF Active, Hears, Spawns
<1>3. PICK k \in Tasks : serve' = [serve EXCEPT ![k] = "new"]
  BY DEF Spawns
<1>4. \A j, l \in Tasks : Live(j)' /\ Live(l)' => j = l
  BY <1>2, <1>3 DEF Quiet, Live, TypeOK, LifecycleTypeOK
<1>5. ~Due' /\ Once'
  BY <1>2, SameEvents DEF Spawns, Sound, OneLife
<1>6. NoneActive'
  BY <1>1, <1>2 DEF NoneActive, Active
<1>7. OneLife'
  BY <1>2, <1>4, <1>5, <1>6 DEF OneLife, NoneActive, Active
<1>8. GivenUp'
  <2>1. status' \notin {"cooling", "dead"}
    BY DEF Spawns, Sound, GivenUp
  <2>. QED BY <1>6, <2>1 DEF GivenUp, NoneActive, Active
<1>9. ASSUME Wave = "after" PROVE Stopped'
  <2>1. at["teardown"] = "off" /\ watching # "stopped" /\ ~shuttingDown
    BY <1>2, <1>9, OneActive DEF Spawns
  <2>2. ~completed' /\ ~shuttingDown'
    BY <1>9, <2>1 DEF Spawns, Sound, Stopped
  <2>. QED BY <1>1, <1>6, <2>1, <2>2 DEF Stopped, NoneActive, Active
<1>10. ASSUME ReadyIn = "serve" PROVE Rationed'
  <2>1. ready' = ready /\ woken' = woken
    BY <1>10, Assumptions DEF Spawns, Wakened, TypeOK, LifecycleTypeOK
  <2>. QED BY <1>5, <1>10, <2>1 DEF Sound, Rationed
<1>11. Flagged'
  <2>1. ~closing => ~shuttingDown /\ ~completed
    BY <1>2 DEF Spawns, Sound, Flagged
  <2>2. \A u \in Restarters : at'[u] \in {"off", "trail"}
    BY <1>1, <1>2
  <2>. QED BY <2>1, <2>2 DEF Spawns, Flagged
<1>. QED BY <1>7, <1>8, <1>9, <1>10, <1>11 DEF Sound

\* The children are initialized.
LEMMA TrailSound ==
  ASSUME TypeOK, TeardownLater, Sound, NEW t \in Restarters, Trails(t), Wakened,
         UNCHANGED <<watching, budgeted, budget, cycles, waiters, tries>>
  PROVE  Sound'
<1>1. /\ at[t] = "trail" /\ at'[t] = "off" /\ \A u \in Restarters : u # t => at'[u] = at[u]
      /\ at'["teardown"] = at["teardown"]
  BY Going, Assumptions DEF Trails
<1>2. /\ UNCHANGED <<status, ready, completed, shuttingDown, serve, events, closing>>
      /\ woken' = woken /\ initializing' = FALSE
      /\ Due' = Due /\ Once' = Once /\ Hears' = Hears /\ Quiet' = Quiet
  BY SameEvents DEF Trails, Wakened, Hears, Quiet, Live
<1>3. /\ NoneActive' = NoneActive /\ \A u \in Restarters : Active(u)' => Active(u) /\ u # t
      /\ \A u \in Restarters : at'[u] \in {at[u], "off"}
  BY <1>1 DEF NoneActive, Active
<1>4. OneLife'
  BY <1>1, <1>2, <1>3 DEF Sound, OneLife, Live
<1>5. GivenUp'
  BY <1>1, <1>2, Assumptions DEF Sound, GivenUp
<1>6. Flagged'
  BY <1>1, <1>2 DEF Sound, Flagged
<1>7. ASSUME Wave = "after" PROVE Stopped'
  BY <1>1, <1>2, <1>3, <1>7 DEF Sound, Stopped
<1>8. ASSUME ReadyIn = "serve" PROVE Rationed'
  BY <1>2, <1>8 DEF Sound, Rationed
<1>. QED BY <1>4, <1>5, <1>6, <1>7, <1>8 DEF Sound

LEMMA RunSound ==
  ASSUME TypeOK, TeardownLater, Sound, stopFaults = 0, stopFaults' = 0, NEW t \in Restarters, Runs(t)
  PROVE  Sound'
<1>1. CASE Wakes(t) \/ Aborts(t) \/ Skips(t)
  BY <1>1, WaitingSound
<1>2. CASE (Stops(t) \/ Joins(t) \/ Hooks(t) \/ Finishes(t, "init")) /\ UNCHANGED watcher
  BY <1>2, StoppingSound
<1>3. CASE Unwinds(t) /\ UNCHANGED <<watching, budgeted, budget, cycles, waiters, woken, tries>>
  BY <1>3, UnwindSound
<1>4. ASSUME Initializes(t) \/ Waits(t) \/ Spawns(t) \/ Trails(t) \/ SetupFails(t), Wakened,
             UNCHANGED <<watching, budgeted, budget, cycles, waiters, tries>>
      PROVE  Sound'
  <2>1. CASE Trails(t)
    BY <1>4, <2>1, TrailSound
  <2>2. CASE Initializes(t) \/ (Waits(t) /\ (Goes(t, "setup") \/ closing))
    BY <1>4, <2>2, InitializeSound
  <2>3. CASE Waits(t) /\ ~(Goes(t, "setup") \/ closing)
    BY <1>4, <2>3, FailureStepSound DEF Waits
  <2>4. CASE Spawns(t)
    BY <1>4, <2>4, SpawnSound
  <2>5. CASE SetupFails(t)
    BY <1>4, <2>5, FailureStepSound DEF SetupFails
  <2>. QED BY <1>4, <2>1, <2>2, <2>3, <2>4, <2>5
<1>. QED BY <1>1, <1>2, <1>3, <1>4 DEF Runs, Restart

----------------------------------------------------------------------------
(* The serve tasks *)

LEMMA OneLive ==
  ASSUME Sound, NEW k \in Tasks, Live(k)
  PROVE  /\ NoneActive /\ ~Quiet /\ (Hears => ~Due)
         /\ \A j \in Tasks : j # k => ~Live(j)
         /\ status \notin {"cooling", "dead"}
<1>1. ~Quiet
  BY DEF Quiet
<1>2. NoneActive /\ (Hears => ~Due) /\ \A j \in Tasks : j # k => ~Live(j)
  BY <1>1 DEF Sound, OneLife
<1>. QED BY <1>1, <1>2 DEF Sound, GivenUp

LEMMA ServeSound ==
  ASSUME TypeOK, TeardownLater, Sound, NEW k \in Tasks, Serves(k) \/ Breaks(k)
  PROVE  Sound'
<1>0. /\ Live(k) /\ UNCHANGED <<completed, shuttingDown, initializing, at, closing, watching,
                                budget>>
      /\ serve[k] # "none"
  BY DEF Serves, Breaks, Begins, Works, Completes, Ends, Raises, Live, watcher
<1>1. /\ NoneActive /\ ~Quiet /\ (Hears => ~Due)
      /\ \A j \in Tasks : j # k => ~Live(j)
      /\ status \notin {"cooling", "dead"}
  BY <1>0, OneLive
<1>2. PICK s : serve' = [serve EXCEPT ![k] = s]
  BY DEF Serves, Breaks, Begins, Works, Completes, Ends, Raises
<1>3. NoneActive' /\ Hears' = Hears /\ \A j \in Tasks : j # k => ~Live(j)'
  BY <1>0, <1>1, <1>2 DEF NoneActive, Active, Hears, Live, TypeOK, LifecycleTypeOK
<1>4. /\ status' \notin {"cooling", "dead"}
      /\ Hears => Once'
      /\ Raises(k) \/ (Hears => ~Due')
      /\ Hears /\ Due' => ~ready'
      /\ Raises(k) => serve'[k] = "none" /\ (ready' => ready)
  <2>1. CASE Raises(k)
    <3>1. serve'[k] = "none"
      BY <2>1 DEF Raises, TypeOK, LifecycleTypeOK
    <3>2. CASE ~Due
      BY <1>1, <2>1, <3>1, <3>2, FailsSound DEF Raises
    <3>3. CASE ~Hears
      <4>1. status' \notin {"cooling", "dead"} /\ (ready' => ready)
        BY <1>1, <2>1 DEF Raises, Fails, FailsFrom, FailsWith
      <4>. QED BY <2>1, <3>1, <3>3, <4>1
    <3>. QED BY <1>1, <3>2, <3>3
  <2>2. CASE Begins(k)
    <3>1. (Due' => Due) /\ (Once => Once')
      BY <2>2, SameEvents, OneEventMore DEF Begins, TypeOK, LifecycleTypeOK
    <3>2. status' = "running" /\ ~Raises(k)
      BY <2>2 DEF Begins, Raises
    <3>. QED BY <1>1, <3>1, <3>2 DEF Sound, OneLife
  <2>3. CASE ~Raises(k) /\ (Works(k) \/ Completes(k) \/ Ends(k))
    <3>1. Due' = Due /\ Once' = Once
      BY <2>3, SameEvents DEF Works, Completes, Ends
    <3>2. status' \notin {"cooling", "dead"}
      BY <1>1, <2>3 DEF Works, Completes, Ends
    <3>3. ~Raises(k)
      BY <2>3
    <3>. QED BY <1>1, <3>1, <3>2, <3>3 DEF Sound, OneLife
  <2>. QED BY <2>1, <2>2, <2>3 DEF Serves, Breaks
<1>5. Quiet' \/ (Hears => ~Due')
  BY <1>3, <1>4 DEF Quiet, Live
<1>6. OneLife'
  <2>1. \A j, l \in Tasks : Live(j)' /\ Live(l)' => j = l
    BY <1>3
  <2>2. /\ ~Hears' => closing' /\ \A t \in Restarters : at'[t] \in {"off", "unwind"}
        /\ \A t \in Restarters : at'[t] \notin {"join", "done"}
    BY <1>0, <1>3 DEF Sound, OneLife
  <2>. QED BY <1>3, <1>4, <1>5, <2>1, <2>2 DEF OneLife, NoneActive, Active
<1>7. GivenUp'
  BY <1>0, <1>1, <1>4 DEF Sound, GivenUp, NoneActive, Active
<1>10. Flagged'
  BY <1>0 DEF Sound, Flagged
<1>8. ASSUME Wave = "after" PROVE Stopped'
  <2>1. Stopped
    BY <1>8 DEF Sound
  <2>2. serve[k] = "cancelled" => serve'[k] = "none"
    BY DEF Serves, Breaks, Begins, Works, Completes, Ends, Raises, TypeOK, LifecycleTypeOK
  <2>3. ASSUME at["teardown"] = "cleanup" PROVE \A j \in Tasks : serve'[j] \in {"none", "cancelled"}
    <3>1. serve'[k] = "none"
      BY <1>0, <2>1, <2>2, <2>3 DEF Stopped
    <3>. QED BY <1>3, <3>1 DEF Live
  <2>4. shuttingDown => at["teardown"] \in {"join", "hooks", "cleanup"}
    BY <1>1, <2>1 DEF Stopped
  <2>. QED BY <1>0, <1>1, <1>3, <2>1, <2>3, <2>4 DEF Stopped, NoneActive, Active
<1>9. ASSUME ReadyIn = "serve" PROVE Rationed'
  <2>1. Rationed /\ tries \in Nat /\ budget \in Nat
    BY <1>9, Assumptions DEF Sound, TypeOK
  <2>2. CASE Works(k) /\ tries' = 0
    BY <1>0, <1>3, <1>4, <2>1, <2>2 DEF Rationed
  <2>3. CASE (Begins(k) \/ Completes(k) \/ Ends(k) \/ Raises(k)) /\ UNCHANGED watcher
    <3>1. tries' = tries /\ budget' = budget /\ woken' = woken
      BY <2>3 DEF watcher
    <3>2. ready' => ready
      BY <1>4, <2>3 DEF Begins, Completes, Ends
    <3>. QED BY <1>3, <1>4, <2>1, <3>1, <3>2 DEF Rationed
  <2>. QED BY <2>2, <2>3 DEF Serves, Breaks
<1>. QED BY <1>6, <1>7, <1>8, <1>9, <1>10 DEF Sound

----------------------------------------------------------------------------
(* Startup and teardown *)

LEMMA PhaseSound ==
  ASSUME TypeOK, TeardownLater, Sound, WatcherListens \/ Closes \/ WatcherStopped
  PROVE  Sound'
<1>1. /\ UNCHANGED <<status, ready, completed, shuttingDown, initializing, serve, at, events,
                     budget,
                     woken, tries>>
      /\ Hears' = Hears /\ (closing => closing')
      /\ watching' = "stopped" => NoneActive \/ watching = "stopped"
  BY DEF WatcherListens, Closes, WatcherStopped, Hears, lifecycle, watcher, NoneActive, Active, Busy
<1>2. Due' = Due /\ Once' = Once /\ NoneActive' = NoneActive /\ Quiet' = Quiet
  BY <1>1, SameEvents DEF NoneActive, Active, Quiet, Live
<1>3. OneLife'
  BY <1>1, <1>2 DEF Sound, OneLife, Active, Live
<1>4. GivenUp'
  BY <1>1, <1>2, Assumptions DEF Sound, GivenUp, TypeOK, LifecycleTypeOK
<1>7. Flagged'
  BY <1>1 DEF Sound, Flagged
<1>5. ASSUME Wave = "after" PROVE Stopped'
  <2>1. watching = "stopped" => watching' = "stopped"
    BY DEF WatcherListens, Closes, WatcherStopped, watcher
  <2>. QED BY <1>1, <1>2, <1>5, <2>1 DEF Sound, Stopped
<1>6. ASSUME ReadyIn = "serve" PROVE Rationed'
  BY <1>1, <1>2, <1>6 DEF Sound, Rationed
<1>. QED BY <1>3, <1>4, <1>5, <1>6, <1>7 DEF Sound

\* The watcher's tasks are cancelled: only a shutdown that was in a hook is left.
LEMMA WatcherStopsSound ==
  ASSUME TypeOK, TeardownLater, Sound, WatcherStops
  PROVE  Sound'
<1>1. /\ \A t \in Restarters : at'[t] \in {"off", "unwind"} /\ (Active(t)' => Active(t))
      /\ at'["teardown"] = at["teardown"]
  <2>1. \A t \in Restarters : at'[t] = Interrupted(at[t]) /\ at[t] \notin {"join", "done"}
    BY Assumptions DEF WatcherStops, Sound, OneLife
  <2>2. at'["teardown"] = at["teardown"]
    BY Assumptions DEF WatcherStops
  <2>. QED BY <2>1, <2>2 DEF Interrupted, Active
<1>2. \A k \in Tasks : Live(k)' => Live(k)
  BY CancelledTyped DEF WatcherStops, Interrupts, Live, Cancelled
<1>3. /\ ~Hears' /\ closing' /\ Hears /\ watching # "stopped" /\ watching' = "stopping"
      /\ UNCHANGED <<completed, shuttingDown, budget, tries>> /\ woken' = 0
  BY DEF WatcherStops, Hears
<1>4. OneLife'
  <2>1. \A j, k \in Tasks : Live(j)' /\ Live(k)' => j = k
    BY <1>2 DEF Sound, OneLife
  <2>2. \A t, u \in Restarters : Active(t)' /\ Active(u)' => t = u
    BY <1>1 DEF Sound, OneLife
  <2>3. ~NoneActive' => Quiet'
    BY <1>1, <1>2 DEF Sound, OneLife, NoneActive, Quiet
  <2>. QED BY <1>1, <1>3, <2>1, <2>2, <2>3 DEF OneLife
<1>5. (status' \in {"cooling", "dead"} => status' = status) /\ (ready' => ready)
  BY DEF WatcherStops, Interrupts, FailsWith
<1>6. GivenUp'
  BY <1>1, <1>2, <1>3, <1>5 DEF Sound, GivenUp, Quiet
<1>9. Flagged'
  BY <1>3 DEF Flagged
<1>7. ASSUME Wave = "after" PROVE Stopped'
  <2>1. at["teardown"] = "off"
    BY <1>3, <1>7 DEF Sound, Stopped
  <2>. QED BY <1>1, <1>2, <1>3, <1>7, <2>1 DEF Sound, Stopped, Quiet
<1>8. ASSUME ReadyIn = "serve" PROVE Rationed'
  BY <1>3, <1>5, <1>8 DEF Sound, Rationed
<1>. QED BY <1>4, <1>6, <1>7, <1>8, <1>9 DEF Sound

LEMMA TeardownSound ==
  ASSUME TypeOK, TeardownLater, Sound, stopFaults = 0, stopFaults' = 0, Teardown
  PROVE  Sound'
<1>0. PICK s \in {"stop", "join", "hooks", "cleanup", "done"} :
        /\ Goes("teardown", s)
        /\ s = "stop" /\ Wave = "after" => watching = "stopped"
        /\ s \in {"stop", "done"} => at["teardown"] # s
        /\ s = "done" => \/ at["teardown"] = "stop" /\ (completed \/ shuttingDown)
                         \/ at["teardown"] = "cleanup" /\ BucketDone
  <2>1. CASE TeardownBegins
    BY <2>1 DEF TeardownBegins
  <2>2. CASE TeardownSkips
    BY <2>2 DEF TeardownSkips, Returns
  <2>3. CASE Stops("teardown")
    BY <2>3 DEF Stops
  <2>4. CASE Joins("teardown")
    BY <2>4 DEF Joins
  <2>5. CASE Hooks("teardown")
    BY <2>5 DEF Hooks
  <2>6. CASE Finishes("teardown", "done")
    BY <2>6 DEF Finishes
  <2>. QED BY <2>1, <2>2, <2>3, <2>4, <2>5, <2>6 DEF Teardown
<1>1. at'["teardown"] = s /\ \A t \in Restarters : at'[t] = at[t]
  BY <1>0, Going, Assumptions
<1>2. closing /\ closing'
  BY DEF Teardown, TeardownBegins, TeardownSkips, Stops, Joins, Hooks, Finishes, TeardownLater
<1>3. UNCHANGED <<events, watching, budget, woken, tries>> /\ Hears' = Hears
  <2>1. ~(stopFaults' = stopFaults + 1)
    OBVIOUS
  <2>2. UNCHANGED events
    BY <2>1 DEF Teardown, TeardownBegins, TeardownSkips, Stops, Joins, Hooks, Finishes, HookRaises
  <2>3. UNCHANGED watcher
    BY DEF Teardown, TeardownBegins, TeardownSkips
  <2>. QED BY <2>2, <2>3 DEF watcher, Hears
<1>4. (status' \in {"cooling", "dead"} => status' = status) /\ (ready' => ready)
  <2>1. ~(stopFaults' = stopFaults + 1)
    OBVIOUS
  <2>. QED BY <2>1 DEF Teardown, TeardownBegins, TeardownSkips, Stops, Joins, Hooks, Finishes,
                       Terminal, HookRaises
<1>5. \A k \in Tasks : Live(k)' => Live(k)
  <2>1. CASE Stops("teardown")
    BY <2>1 DEF Stops, Live, Cancelled, TypeOK, LifecycleTypeOK
  <2>2. CASE Hooks("teardown")
    BY <2>2 DEF Hooks, Live, Cancelled
  <2>3. CASE UNCHANGED serve
    BY <2>3 DEF Live
  <2>. QED BY <2>1, <2>2, <2>3 DEF Teardown, TeardownBegins, TeardownSkips, Joins, Finishes
<1>6. Due' = Due /\ Once' = Once /\ NoneActive' = NoneActive /\ (Quiet => Quiet')
  BY <1>1, <1>3, <1>5, SameEvents DEF NoneActive, Active, Quiet
<1>7. OneLife'
  <2>1. \A j, k \in Tasks : Live(j)' /\ Live(k)' => j = k
    BY <1>5 DEF Sound, OneLife
  <2>2. \A t, u \in Restarters : Active(t)' /\ Active(u)' => t = u
    BY <1>1 DEF Sound, OneLife, Active
  <2>. QED BY <1>1, <1>2, <1>3, <1>6, <2>1, <2>2 DEF Sound, OneLife
<1>8. GivenUp'
  BY <1>1, <1>2, <1>4, <1>6 DEF Sound, GivenUp
<1>11. Flagged'
  BY <1>2 DEF Flagged
<1>9. ASSUME Wave = "after" PROVE Stopped'
  <2>1. Stopped
    BY <1>9 DEF Sound
  <2>2. watching' = "stopped" /\ NoneActive /\ NoneActive' /\ ~Hears'
    <3>1. watching = "stopped"
      BY <1>9, <2>1 DEF Teardown, TeardownBegins, TeardownSkips, Stops, Joins, Hooks, Finishes,
                        Stopped
    <3>. QED BY <1>3, <1>6, <2>1, <3>1 DEF Stopped, Hears
  <2>3. completed' => Quiet'
    <3>1. CASE Finishes("teardown", "done")
      BY <2>1, <3>1 DEF Finishes, BucketDone, Stopped, Quiet, Live
    <3>2. CASE UNCHANGED completed
      BY <1>6, <2>1, <3>2 DEF Stopped
    <3>. QED BY <3>1, <3>2 DEF Teardown, TeardownBegins, TeardownSkips, Stops, Joins, Hooks
  <2>4. s = "done" => Quiet'
    BY <1>0, <1>6, <2>1 DEF Stopped, BucketDone, Quiet, Live
  <2>5. shuttingDown' => Quiet' \/ s \in {"join", "hooks", "cleanup"}
    <3>1. CASE s = "stop"
      <4>1. TeardownBegins
        <5>1. ~Goes("teardown", "join") /\ ~Goes("teardown", "hooks")
              /\ ~Goes("teardown", "cleanup") /\ ~Goes("teardown", "done")
          BY <1>1, <3>1, Going, Assumptions
        <5>. QED BY <5>1 DEF Teardown, TeardownSkips, Stops, Joins, Hooks, Finishes
      <4>. QED BY <1>6, <2>1, <4>1 DEF TeardownBegins, Stopped
    <3>. QED BY <2>4, <3>1
  <2>6. \A t \in Restarters : at'[t] \in {"off", "trail"}
    BY <2>2 DEF NoneActive, Active
  <2>7. s = "cleanup" => \A k \in Tasks : serve'[k] \in {"none", "cancelled"}
    <3>1. ASSUME s = "cleanup" PROVE Hooks("teardown")
      <4>1. ~Goes("teardown", "stop") /\ ~Goes("teardown", "join") /\ ~Goes("teardown", "hooks")
            /\ ~Goes("teardown", "done")
        BY <1>1, <3>1, Going, Assumptions
      <4>. QED BY <4>1 DEF Teardown, TeardownBegins, TeardownSkips, Stops, Joins, Finishes
    <3>2. \A k \in Tasks : serve[k] \in {"none", "new", "up", "works", "cancelled"}
      BY DEF TypeOK, LifecycleTypeOK
    <3>. QED BY <3>1, <3>2 DEF Hooks, Cancelled
  <2>. QED BY <1>1, <2>2, <2>3, <2>4, <2>5, <2>6, <2>7 DEF Stopped
<1>10. ASSUME ReadyIn = "serve" PROVE Rationed'
  BY <1>3, <1>4, <1>6, <1>10 DEF Sound, Rationed
<1>. QED BY <1>7, <1>8, <1>9, <1>10, <1>11 DEF Sound

----------------------------------------------------------------------------
(* The invariant and what follows from it *)

LEMMA InitSound == Init => SoundInv
<1>. SUFFICES ASSUME Init PROVE SoundInv
  OBVIOUS
<1>1. TypeOK
  BY InitTyped
<1>2. /\ \A t \in Restarters : at[t] = "off"
      /\ at["teardown"] = "off" /\ NoneActive
  BY Assumptions DEF Init, NoneActive, Active
<1>3. Len(events) = 0 /\ ~Due /\ Once /\ Hears
  BY DEF Init, Due, Once, Hears
<1>4. \A k \in Tasks : Live(k) => k = 1
  BY DEF Init, Live, Tasks
<1>5. OneLife
  BY <1>2, <1>3, <1>4 DEF OneLife, Active
<1>6. GivenUp /\ Flagged /\ Stopped
  BY <1>2 DEF Init, GivenUp, Flagged, Stopped
<1>7. Rationed
  BY <1>3 DEF Init, Rationed
<1>. QED BY <1>1, <1>2, <1>5, <1>6, <1>7 DEF SoundInv, Sound, TeardownLater

LEMMA TeardownLaterKept ==
  ASSUME TypeOK, TeardownLater, [Next]_vars
  PROVE  TeardownLater'
<1>1. closing => closing'
  BY DEF Next, Handlers, Unheard, Duplicate, Accepts, Exhausts, HearsRunning, SeesReady,
         CooldownBegins,
         ReadyTimesOut, Expires, Runs, Wakes, Aborts, Restart, Stops, Joins, Hooks, Finishes, Skips,
         Unwinds, Initializes, Waits, Spawns, Trails, SetupFails, Serves, Breaks, Begins, Works, Completes,
         Ends, Raises, HookRaises, Interrupts, Wakened,
         WatcherListens, Closes, WatcherStops, WatcherStopped, Teardown, TeardownBegins,
         TeardownSkips, Over, vars
<1>2. at'["teardown"] = at["teardown"] \/ closing
  <2>1. CASE Teardown
    BY <2>1 DEF Teardown, TeardownBegins, TeardownSkips, Stops, Joins, Hooks, Finishes,
                TeardownLater
  <2>2. CASE WatcherStops
    BY <2>2 DEF WatcherStops
  <2>3. ASSUME NEW t \in Restarters, Runs(t)
        PROVE  at'["teardown"] = at["teardown"]
    <3>1. PICK s : Goes(t, s)
      BY <2>3 DEF Runs, Wakes, Aborts, Restart, Stops, Joins, Hooks, Finishes, Skips, Unwinds,
                  Initializes, Waits, Spawns, Trails, SetupFails
    <3>. QED BY <3>1, Going, Assumptions
  <2>4. ASSUME Accepts \/ Exhausts \/ CooldownBegins
        PROVE  at'["teardown"] = at["teardown"]
    <3>1. CASE \E t \in Restarters, s \in Steps : Goes(t, s)
      <4>1. PICK t \in Restarters, s \in Steps : Goes(t, s)
        BY <3>1
      <4>. QED BY <4>1, Going, Assumptions
    <3>2. CASE at' = [at EXCEPT !["cooldown"] = "new", !["replaced"] = Interrupted(at["cooldown"])]
      BY <3>2, Assumptions DEF Cooldowns, TypeOK, LifecycleTypeOK
    <3>3. CASE Accepts
      BY <3>1, <3>3 DEF Accepts, Idle, Restarts, Steps
    <3>. QED BY <2>4, <3>1, <3>2, <3>3, Assumptions DEF Exhausts, CooldownBegins, Steps
  <2>. QED BY <2>1, <2>2, <2>3, <2>4
       DEF Next, Handlers, Unheard, Duplicate, HearsRunning, SeesReady, ReadyTimesOut, Expires,
           Serves,
           Breaks, Begins, Works, Completes, Ends, Raises, WatcherListens, Closes, WatcherStopped, Over, vars, lifecycle
<1>. QED BY <1>1, <1>2 DEF TeardownLater

\* Exceptions of shutdown hooks are only ever counted up.
LEMMA FaultsGrow ==
  ASSUME TypeOK, [Next]_vars, stopFaults' = 0
  PROVE  stopFaults = 0
<1>1. stopFaults' = stopFaults \/ stopFaults' = stopFaults + 1
  BY DEF Next, Handlers, Unheard, Duplicate, Accepts, Exhausts, HearsRunning, SeesReady,
         CooldownBegins,
         ReadyTimesOut, Expires, Runs, Wakes, Aborts, Restart, Stops, Joins, Hooks, Finishes, Skips,
         Unwinds, Initializes, Waits, Spawns, Trails, SetupFails, Serves, Breaks, Begins, Works, Completes,
         Ends, Raises, HookRaises, Interrupts, Wakened,
         WatcherListens, Closes, WatcherStops, WatcherStopped, Teardown, TeardownBegins,
         TeardownSkips, Over, vars, lifecycle
<1>. QED BY <1>1, Assumptions DEF TypeOK, LifecycleTypeOK

LEMMA InvKept == SoundInv /\ [Next]_vars => SoundInv'
<1>. SUFFICES ASSUME SoundInv, [Next]_vars PROVE SoundInv'
  OBVIOUS
<1>1. TypeOK /\ TeardownLater /\ TypeOK' /\ TeardownLater'
  BY TypesKept, TeardownLaterKept DEF SoundInv
<1>2. ASSUME stopFaults' = 0 PROVE Sound'
  <2>1. stopFaults = 0 /\ Sound
    BY <1>1, <1>2, FaultsGrow DEF SoundInv
  <2>2. CASE Handlers \/ ReadyTimesOut \/ Expires
    BY <1>1, <2>1, <2>2, HandlerSound, FailureSound, CooldownSound DEF Handlers
  <2>3. ASSUME NEW t \in Restarters, Runs(t) PROVE Sound'
    BY <1>1, <1>2, <2>1, <2>3, RunSound
  <2>4. ASSUME NEW k \in Tasks, Serves(k) \/ Breaks(k) PROVE Sound'
    BY <1>1, <2>1, <2>4, ServeSound
  <2>5. CASE WatcherListens \/ Closes \/ WatcherStopped
    BY <1>1, <2>1, <2>5, PhaseSound
  <2>6. CASE WatcherStops
    BY <1>1, <2>1, <2>6, WatcherStopsSound
  <2>7. CASE Teardown
    BY <1>1, <1>2, <2>1, <2>7, TeardownSound
  <2>8. CASE UNCHANGED vars
    <3>1. Due' = Due /\ Once' = Once
      BY <2>8, SameEvents DEF vars, lifecycle
    <3>. QED BY <2>1, <2>8, <3>1 DEF vars, lifecycle, watcher, Sound, OneLife, GivenUp, Flagged,
                        Stopped,
                 Rationed, NoneActive, Active, Quiet, Live, Hears
  <2>. QED BY <2>2, <2>3, <2>4, <2>5, <2>6, <2>7, <2>8 DEF Next, Over
<1>. QED BY <1>1, <1>2 DEF SoundInv

LEMMA AtMostOne ==
  ASSUME NEW S, \A x, y \in S : x = y
  PROVE  Cardinality(S) <= 1
<1>1. CASE S = {}
  BY <1>1, FS_EmptySet
<1>2. ASSUME NEW x \in S PROVE Cardinality(S) <= 1
  <2>1. S = {x}
    BY <1>2
  <2>. QED BY <2>1, FS_Singleton
<1>. QED BY <1>1, <1>2

LEMMA InvSound ==
  ASSUME SoundInv, stopFaults = 0
  PROVE  RestartsExclusive /\ ExhaustedQuiet /\ (Wave = "after" => StoppedStays)
         /\ (ReadyIn = "serve" => tries <= Intensity)
<1>1. Sound /\ TypeOK
  BY DEF SoundInv
<1>2. \A t, u \in {t \in Restarters : InRestart(t)} : t = u
  BY <1>1 DEF Sound, OneLife, Active, InRestart
<1>3. \A j, k \in {k \in Tasks : Live(k)} : j = k
  BY <1>1 DEF Sound, OneLife
<1>4. RestartsExclusive
  BY <1>2, <1>3, AtMostOne DEF RestartsExclusive
<1>5. ExhaustedQuiet
  BY <1>1 DEF Sound, GivenUp, Quiet, ExhaustedQuiet
<1>6. Wave = "after" => StoppedStays
  BY <1>1 DEF Sound, Stopped, Quiet, StoppedStays
<1>7. ASSUME ReadyIn = "serve" PROVE tries <= Intensity
  BY <1>1, <1>7, Assumptions DEF Sound, Rationed, TypeOK
<1>. QED BY <1>4, <1>5, <1>6, <1>7

\* In whatever wave the service stops: as long as no shutdown hook raises, a restart that
\* the cooldown makes without a mark in _restarting, restarts of FAILED events and the
\* teardown never overlap, and a service that was given up does not run
\* (service_watcher.py:318, service_watcher.py:371).
THEOREM OneRestart == Spec => [](stopFaults = 0 => RestartsExclusive /\ ExhaustedQuiet)
<1>1. SoundInv => (stopFaults = 0 => RestartsExclusive /\ ExhaustedQuiet)
  BY InvSound
<1>. QED BY <1>1, InitSound, InvKept, PTL DEF Spec

\* A service whose wave stops after the watcher's stays stopped, too: shutdown() does
\* not return at once while a serve task lives (service.py:135, core.py:728).
THEOREM StopIsFinal == Wave = "after" => (Spec => []RestartsSound)
<1>. SUFFICES ASSUME Wave = "after" PROVE Spec => []RestartsSound
  OBVIOUS
<1>1. SoundInv => RestartsSound
  BY InvSound DEF RestartsSound
<1>. QED BY <1>1, InitSound, InvKept, PTL DEF Spec

\* A service that is ready only when its serve() works is not restarted more often than
\* its budget allows, however its events and the waits for its readiness are interleaved
\* (docs/pages/operating/index.md:33, service_watcher.py:543).
THEOREM RestartBudget == ReadyIn = "serve" => (Spec => []RestartsRationed)
<1>. SUFFICES ASSUME ReadyIn = "serve" PROVE Spec => []RestartsRationed
  OBVIOUS
<1>1. SoundInv => RestartsRationed
  BY InvSound DEF RestartsRationed
<1>. QED BY <1>1, InitSound, InvKept, PTL DEF Spec
=============================================================================
