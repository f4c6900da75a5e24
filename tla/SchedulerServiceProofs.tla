------------------------ MODULE SchedulerServiceProofs ------------------------
(***************************************************************************)
(* Proofs about SchedulerService for any jobs, rows, tasks, scenarios,     *)
(* clock and sleep bounds: the heap and the statuses of the jobs agree, no *)
(* promised occurrence is lost, the serve loop never oversleeps, and names *)
(* and database rows follow the live jobs.                                 *)
(***************************************************************************)
EXTENDS SchedulerService, FiniteSetTheorems, SequenceTheorems, WellFoundedInduction,
        FunctionTheorems, TLAPS

----------------------------------------------------------------------------
(* The inductive invariant *)

Statuses == {"new", "building", "scheduled", "waiting", "completed", "manual"}

JobRecord ==
    [status : Statuses, next : Times \cup {None}, fire : Times \cup {None},
     pending : Times \cup {None, WAITING}, dequeued : BOOLEAN,
     hasId : BOOLEAN, heap : {0, 1}, key : Times \cup {None}]

TaskRecord ==
    [kind : {"free", "register", "handler", "dispatch", "remove", "replace", "removeall"},
     job : Jobs \cup {None},
     at : {"none", "spawned", "db", "again", "watch", "release", "next"},
     rest : SUBSET Jobs, wrote : Statuses \cup {None}]

\* The job has been given to _add_job() for good.
Begun(r) == r.status \notin {"new", "building"}

\* A job on the heap is scheduled, live, known to the database, and filed under
\* its due time.
JobSound(r) ==
    /\ r \in JobRecord
    /\ r.heap = 1 => r.status = "scheduled" /\ ~r.dequeued /\ r.hasId /\ r.key = r.fire
    /\ r.status = "scheduled" => r.fire # None
    /\ r.hasId => Begun(r)

\* Task k is about to make j known to the database.
Registers(k, j) == task[k].kind = "register" /\ task[k].at = "db" /\ task[k].job = j
Builds(k, j)    == Registers(k, j) \/ (task[k].kind = "replace" /\ j \in task[k].rest)

\* Task k holds the occurrence that j's status promises.
Carries(k, j) ==
    /\ task[k].job = j
    /\ task[k].kind \in {"register", "handler", "dispatch"}
    /\ \/ task[k].at = "spawned"
       \/ task[k].at \in {"db", "again"} /\ task[k].wrote = "scheduled"

\* What the steps of a task of each kind rely on.
TaskTyped(t) ==
    /\ t \in TaskRecord
    /\ t.kind = "free" => t = Idle
    /\ t.kind = "register" => t.at \in {"db", "watch"}
    /\ t.kind = "handler" => t.at = "db"
    /\ t.kind = "dispatch" => t.at \in {"spawned", "db", "again"}
    /\ t.kind \in {"remove", "replace"} => t.at \in {"release", "db"}
    /\ t.kind = "removeall" => t.at \in {"next", "release", "db"}
    /\ t.kind # "free" /\ t.at # "next" => t.job \in Jobs

TaskSound(k) ==
    /\ TaskTyped(task[k])
    /\ task[k].kind \in {"handler", "dispatch"} \/ task[k].at = "watch" => job[task[k].job].hasId
    /\ \A j \in Jobs : Registers(k, j) =>
         ~job[j].hasId /\ Begun(job[j]) /\ job[j].status = task[k].wrote
    /\ task[k].kind = "replace" =>
         /\ task[k].wrote \in {"scheduled", "waiting", "manual"}
         /\ \E j \in Jobs : task[k].rest = {j}
         /\ \A j \in task[k].rest : /\ job[j].status = "building"
                                    /\ task[k].wrote = "scheduled" => job[j].next # None
    /\ task[k].kind = "removeall" => \A j \in task[k].rest : Begun(job[j])

\* The occurrence of a live job is in exactly one place.
InHand(j) ==
    /\ \A k \in Tasks : Carries(k, j) => job[j].status = "scheduled" /\ job[j].heap = 0
    /\ \A i, k \in Tasks : Carries(i, j) /\ Carries(k, j) => i = k
    /\ ~app.dbFails /\ job[j].status = "scheduled" => job[j].heap = 1 \/ \E k \in Tasks : Carries(k, j)

AllJobs == job = [j \in Jobs |-> job[j]]

JobsSound == AllJobs /\ \A j \in Jobs : JobSound(job[j])

TasksSound ==
    /\ DOMAIN task = Tasks /\ \A k \in Tasks : TaskSound(k)
    /\ \A j \in Jobs : \A i, k \in Tasks : Builds(i, j) /\ Builds(k, j) => i = k

Occurrences == \A j \in Jobs : job[j].dequeued \/ InHand(j)

Changes == [job : Jobs, time : Times \cup {None}]

\* The indexes and the events name jobs that are far enough.
Indexes ==
    /\ app \in Scenarios /\ now \in 0..MaxTime
    /\ registry \in [Rows -> Jobs \cup {None}]
    /\ names \in [Rows -> Jobs \cup {None}]
    /\ watch \in [Rows -> Jobs \cup {None}]
    /\ \A r \in Rows : names[r] # None => Begun(job[names[r]])
    /\ \A r \in Rows : watch[r] # None => job[watch[r]].hasId
    /\ entity \in [Jobs -> Times \cup {None}] /\ cache \in [Jobs -> Times \cup {None}]
    /\ updates \in Seq(Changes) /\ inbox \in Seq(Changes)
    /\ \A i \in 1..Len(inbox) : job[inbox[i].job].hasId

Distinct(q) == \A i, k \in 1..Len(q) : q[i] = q[k] => i = k

Queue ==
    /\ dbq \in Seq(Tasks) /\ Distinct(dbq)
    /\ \A i \in 1..Len(dbq) : task[dbq[i]].at \in {"db", "again", "watch"}

\* The loop wakes before any entry has been due for its minimum delay.
Wakes ==
    /\ serve \in [until : Nat, kicked : BOOLEAN]
    /\ SleepNeverPastDue

SchedulerInv == JobsSound /\ TasksSound /\ Occurrences /\ Indexes /\ Queue /\ Wakes

----------------------------------------------------------------------------
(* Lemmas about the constants and about choices *)

LEMMA Assumptions ==
  /\ RowOf \in [Jobs -> Rows] /\ IsFiniteSet(Jobs)
  /\ Tasks \subseteq Nat /\ IsFiniteSet(Tasks)
  /\ MaxTime \in Nat /\ MinDelay \in Nat /\ MaxDelay \in Nat /\ DefaultDelay \in Nat
  /\ 0 < MinDelay /\ MinDelay <= MaxDelay
  /\ None \notin Jobs /\ None \notin Times /\ WAITING \notin Times /\ WAITING # None
  /\ Times = 0 .. MaxTime + 2
BY SchedulerAssumption DEF Times

LEMMA Scenes ==
  ASSUME app \in Scenarios
  PROVE  /\ app.jobs \subseteq Jobs /\ app.until \in 0..MaxTime /\ app.dbFails \in BOOLEAN
         /\ app.kind \in [Jobs -> {"once", "recurring", "entity", "manual"}]
BY SchedulerAssumption DEF Scenario

LEMMA Smallest ==
  ASSUME NEW S, S \subseteq Nat, S # {}
  PROVE  \E i \in S : \A j \in S : i <= j
<1>1. IsWellFoundedOn(OpToRel(<, Nat), Nat)
  BY NatLessThanWellFounded
<1>2. PICK m \in S : \A k \in S : <<k, m>> \notin OpToRel(<, Nat)
  BY <1>1, WFMin
<1>3. \A k \in S : k \in Nat /\ m \in Nat
  OBVIOUS
<1>4. \A k \in S : k < m => <<k, m>> \in OpToRel(<, Nat)
  BY <1>3 DEF OpToRel
<1>5. \A k \in S : ~(k < m)
  BY <1>2, <1>4
<1>. QED BY <1>3, <1>5

\* A spawn uses an identifier no task has.
LEMMA NewTaskIsFree ==
  ASSUME Free # {}
  PROVE  NewTask \in Tasks /\ task[NewTask].kind = "free"
<1>1. Free \subseteq Nat
  BY Assumptions DEF Free
<1>2. \E k \in Free : \A i \in Free : k <= i
  BY <1>1, Smallest
<1>3. NewTask \in Free
  BY <1>2 DEF NewTask
<1>. QED BY <1>3 DEF Free

\* The serve loop can give each due job a task of its own.
LEMMA Slots ==
  ASSUME NEW S, NEW T, IsFiniteSet(S), IsFiniteSet(T), Cardinality(S) <= Cardinality(T)
  PROVE  \E f \in [S -> T] : \A x, y \in S : x # y => f[x] # f[y]
<1>1. /\ Cardinality(S) \in Nat /\ ExistsBijection(1..Cardinality(S), S)
      /\ Cardinality(T) \in Nat /\ ExistsBijection(1..Cardinality(T), T)
  BY FS_CardinalityType
<1>2. ExistsInjection(S, 1..Cardinality(S))
  BY <1>1, Fun_ExistsSurjMeansExistsRevInj DEF ExistsBijection, ExistsSurjection, Bijection
<1>3. ExistsInjection(1..Cardinality(S), 1..Cardinality(T))
  BY <1>1, Fun_NatInjLeq
<1>4. ExistsInjection(1..Cardinality(T), T)
  BY <1>1 DEF ExistsBijection, ExistsInjection, Bijection
<1>5. ExistsInjection(S, T)
  BY <1>2, <1>3, <1>4, Fun_ExistsInjTransitive
<1>6. PICK f \in [S -> T] : IsInjective(f)
  BY <1>5 DEF ExistsInjection, Injection
<1>7. \A x, y \in S : x # y => f[x] # f[y]
  BY <1>6 DEF IsInjective
<1>. QED BY <1>7

----------------------------------------------------------------------------
(* Lemmas about the write queue *)

LEMMA QueueMore ==
  ASSUME NEW q \in Seq(Tasks), Distinct(q), NEW k \in Tasks, \A i \in 1..Len(q) : q[i] # k
  PROVE  /\ Append(q, k) \in Seq(Tasks) /\ Distinct(Append(q, k))
         /\ \A i \in 1..Len(Append(q, k)) :
               Append(q, k)[i] = k \/ \E n \in 1..Len(q) : q[n] = Append(q, k)[i]
<1>. DEFINE p == Append(q, k)
<1>1. /\ Len(q) \in Nat /\ Len(p) = Len(q) + 1 /\ p \in Seq(Tasks) /\ p[Len(q) + 1] = k
      /\ \A i \in 1..Len(q) : p[i] = q[i]
  OBVIOUS
<1>. HIDE DEF p
<1>2. \A i \in 1..Len(p) : i \in 1..Len(q) \/ i = Len(q) + 1
  BY <1>1
<1>3. Distinct(p)
  BY <1>1, <1>2 DEF Distinct
<1>4. \A i \in 1..Len(p) : p[i] = k \/ \E n \in 1..Len(q) : q[n] = p[i]
  BY <1>1, <1>2
<1>. QED BY <1>1, <1>3, <1>4 DEF p

LEMMA QueueLess ==
  ASSUME NEW q \in Seq(Tasks), Distinct(q), q # <<>>
  PROVE  /\ Tail(q) \in Seq(Tasks) /\ Distinct(Tail(q)) /\ Head(q) \in Tasks
         /\ \E i \in 1..Len(q) : q[i] = Head(q)
         /\ \A i \in 1..Len(Tail(q)) : /\ Tail(q)[i] # Head(q)
                                       /\ \E n \in 1..Len(q) : q[n] = Tail(q)[i]
<1>1. /\ Len(q) \in Nat /\ Len(q) >= 1 /\ Len(Tail(q)) = Len(q) - 1
      /\ Tail(q) \in Seq(Tasks) /\ Head(q) = q[1] /\ Head(q) \in Tasks
      /\ \A i \in 1..Len(Tail(q)) : i + 1 \in 1..Len(q) /\ Tail(q)[i] = q[i + 1] /\ i + 1 # 1
      /\ 1 \in 1..Len(q)
  OBVIOUS
<1>2. Distinct(Tail(q))
  <2>. SUFFICES ASSUME NEW i \in 1..Len(Tail(q)), NEW k \in 1..Len(Tail(q)), Tail(q)[i] = Tail(q)[k]
                PROVE  i = k
    BY DEF Distinct
  <2>1. i + 1 = k + 1
    BY <1>1 DEF Distinct
  <2>. QED BY <2>1
<1>3. \A i \in 1..Len(Tail(q)) : Tail(q)[i] # Head(q)
  BY <1>1 DEF Distinct
<1>. QED BY <1>1, <1>2, <1>3

----------------------------------------------------------------------------
(* What the operations on a job's record do *)

\* Of a heap operation, the tasks that build the job notice nothing.
SameStage(r, s) == s.hasId = r.hasId /\ s.status = r.status /\ s.next = r.next

LEMMA NewJobFacts ==
  JobSound(NewJob) /\ NewJob.heap = 0 /\ NewJob.status = "new"
BY Assumptions DEF NewJob, JobSound, JobRecord, Statuses, Begun

\* What an operation assigns is what changes.
LEMMA RemovalFields ==
  ASSUME NEW r \in JobRecord, NEW s, s = [r EXCEPT !.dequeued = TRUE]
  PROVE  /\ s \in JobRecord /\ s.dequeued /\ SameStage(r, s) /\ s.fire = r.fire
         /\ s.heap = r.heap /\ s.key = r.key /\ s.pending = r.pending
BY DEF JobRecord, SameStage

LEMMA IdFields ==
  ASSUME NEW r \in JobRecord, NEW s, s = [r EXCEPT !.hasId = TRUE]
  PROVE  /\ s \in JobRecord /\ s.hasId /\ s.status = r.status /\ s.next = r.next /\ s.fire = r.fire
         /\ s.heap = r.heap /\ s.key = r.key /\ s.pending = r.pending /\ s.dequeued = r.dequeued
BY DEF JobRecord

LEMMA PendingFields ==
  ASSUME NEW r \in JobRecord, NEW t \in Times \cup {None, WAITING}, NEW s, s = [r EXCEPT !.pending = t]
  PROVE  /\ s \in JobRecord /\ s.pending = t /\ SameStage(r, s) /\ s.fire = r.fire
         /\ s.heap = r.heap /\ s.key = r.key /\ s.dequeued = r.dequeued
BY DEF JobRecord, SameStage

LEMMA DropEntryFacts ==
  ASSUME NEW r, JobSound(r)
  PROVE  LET s == DropEntry(r)
         IN  /\ JobSound(s) /\ s.heap = 0 /\ SameStage(r, s) /\ s.dequeued = r.dequeued
             /\ s.pending = r.pending
             /\ r.heap = 0 => s = r
<1>1. r \in JobRecord /\ r.heap \in {0, 1}
  BY DEF JobSound, JobRecord
<1>2. CASE r.heap = 0
  BY <1>2 DEF DropEntry, SameStage
<1>3. CASE r.heap = 1
  <2>. DEFINE s == DropEntry(r)
  <2>1. s = [r EXCEPT !.heap = 0, !.key = None]
    BY <1>3 DEF DropEntry
  <2>2. /\ s \in JobRecord /\ s.heap = 0 /\ s.key = None /\ SameStage(r, s)
        /\ s.fire = r.fire /\ s.pending = r.pending /\ s.dequeued = r.dequeued
    BY <1>1, <2>1 DEF JobRecord, SameStage
  <2>. HIDE DEF s
  <2>3. JobSound(s)
    BY <2>2 DEF JobSound, Begun, SameStage
  <2>. QED BY <1>3, <2>2, <2>3 DEF s
<1>. QED BY <1>1, <1>2, <1>3

LEMMA RemovedFacts ==
  ASSUME NEW r, JobSound(r)
  PROVE  LET d == [DropEntry(r) EXCEPT !.dequeued = TRUE]
         IN  JobSound(d) /\ d.heap = 0 /\ SameStage(r, d) /\ d.dequeued
<1>. DEFINE s == DropEntry(r)
            d == [s EXCEPT !.dequeued = TRUE]
<1>1. JobSound(s) /\ s.heap = 0 /\ SameStage(r, s)
  BY DropEntryFacts
<1>. HIDE DEF s
<1>2. s \in JobRecord
  BY <1>1 DEF JobSound
<1>3. d \in JobRecord /\ d.dequeued /\ SameStage(s, d) /\ d.fire = s.fire /\ d.heap = s.heap /\ d.key = s.key
  BY <1>2, RemovalFields
<1>. HIDE DEF d
<1>4. JobSound(d) /\ d.heap = 0 /\ SameStage(r, d)
  BY <1>1, <1>3 DEF JobSound, SameStage, Begun
<1>. QED BY <1>3, <1>4 DEF d, s

LEMMA PushFacts ==
  ASSUME NEW r, JobSound(r), r.hasId, ~r.dequeued /\ r.status = "scheduled" => r.heap = 0
  PROVE  LET s == Push(r)
         IN  /\ JobSound(s) /\ SameStage(r, s) /\ s.dequeued = r.dequeued
             /\ s.fire = r.fire /\ s.pending = r.pending
             /\ ~r.dequeued /\ r.status = "scheduled" => s.heap = 1
             /\ r.dequeued \/ r.status # "scheduled" => s = r
<1>1. CASE r.dequeued \/ r.status # "scheduled"
  <2>1. Push(r) = r
    BY <1>1 DEF Push
  <2>. QED BY <1>1, <2>1 DEF SameStage
<1>2. CASE ~r.dequeued /\ r.status = "scheduled"
  <2>. DEFINE s == Push(r)
  <2>0. r \in JobRecord /\ r.heap = 0 /\ r.fire \in Times \cup {None}
    BY <1>2 DEF JobSound, JobRecord
  <2>1. s = [r EXCEPT !.heap = 1, !.key = r.fire]
    BY <1>2, <2>0 DEF Push
  <2>2. /\ s \in JobRecord /\ s.heap = 1 /\ s.key = r.fire /\ SameStage(r, s)
        /\ s.fire = r.fire /\ s.pending = r.pending /\ s.dequeued = r.dequeued
    BY <2>0, <2>1 DEF JobRecord, SameStage
  <2>. HIDE DEF s
  <2>3. JobSound(s)
    BY <1>2, <2>2 DEF JobSound, Begun, SameStage
  <2>. QED BY <1>2, <2>2, <2>3 DEF s
<1>. QED BY <1>1, <1>2

LEMMA TransitionFacts ==
  ASSUME NEW r, JobSound(r), r.heap = 0, NEW status \in Statuses, NEW t \in Times \cup {None},
         status = "scheduled" => t # None, r.hasId => status \notin {"new", "building"}
  PROVE  LET s == Transition(r, status, t)
         IN  /\ JobSound(s) /\ s.heap = 0 /\ s.status = status /\ s.next = t
             /\ s.hasId = r.hasId /\ s.dequeued = r.dequeued /\ s.pending = r.pending
<1>. DEFINE s == Transition(r, status, t)
<1>1. r \in JobRecord
  BY DEF JobSound
<1>2. /\ s \in JobRecord /\ s.status = status /\ s.next = t /\ s.fire = t
      /\ s.pending = r.pending /\ s.dequeued = r.dequeued /\ s.hasId = r.hasId /\ s.heap = r.heap
  BY <1>1 DEF Transition, JobRecord
<1>. HIDE DEF s
<1>3. JobSound(s)
  BY <1>2 DEF JobSound, Begun
<1>. QED BY <1>2, <1>3 DEF s

\* reschedule_job() takes the entry off the heap; a job in mid-dispatch and a
\* removed one keep everything else.
LEMMA RescheduleFacts ==
  ASSUME NEW r, JobSound(r), r.hasId, NEW to \in Times \cup {WAITING}
  PROVE  LET s == Reschedule(r, to)
         IN  /\ JobSound(s) /\ s.hasId = r.hasId /\ s.dequeued = r.dequeued
             /\ Transitions(r) => s.heap = 0 /\ s.status \in {"waiting", "scheduled"}
             /\ ~Transitions(r) => SameStage(r, s) /\ s.heap = r.heap /\ s.key = r.key
<1>1. CASE r.dequeued
  <2>1. Reschedule(r, to) = r /\ ~Transitions(r)
    BY <1>1 DEF Reschedule, Transitions
  <2>. QED BY <2>1 DEF SameStage
<1>2. CASE ~r.dequeued /\ Remembers(r)
  <2>. DEFINE s == Reschedule(r, to)
  <2>0. r \in JobRecord
    BY DEF JobSound
  <2>1. s = [r EXCEPT !.pending = to] /\ ~Transitions(r)
    BY <1>2 DEF Reschedule, Transitions
  <2>2. /\ s \in JobRecord /\ SameStage(r, s) /\ s.fire = r.fire
        /\ s.heap = r.heap /\ s.key = r.key /\ s.dequeued = r.dequeued
    BY <2>0, <2>1, PendingFields
  <2>. HIDE DEF s
  <2>3. JobSound(s)
    BY <2>2 DEF JobSound, Begun, SameStage
  <2>. QED BY <2>1, <2>2, <2>3 DEF s, SameStage
<1>3. CASE ~r.dequeued /\ ~Remembers(r)
  <2>. DEFINE q == IF r.status = "scheduled" THEN DropEntry(r) ELSE r
  <2>1. JobSound(q) /\ q.heap = 0 /\ SameStage(r, q) /\ q.dequeued = r.dequeued
    <3>1. CASE r.status = "scheduled"
      BY <3>1, DropEntryFacts
    <3>2. CASE r.status # "scheduled"
      BY <3>2 DEF SameStage, JobSound, JobRecord
    <3>. QED BY <3>1, <3>2
  <2>2. Reschedule(r, to) = IF to = WAITING THEN Transition(q, "waiting", None)
                                            ELSE Transition(q, "scheduled", to)
    BY <1>3 DEF Reschedule
  <2>. HIDE DEF q
  <2>. DEFINE s == Reschedule(r, to)
  <2>3. \E x \in {"waiting", "scheduled"}, t \in Times \cup {None} :
           s = Transition(q, x, t) /\ (x = "scheduled" => t # None)
    BY <2>2, Assumptions
  <2>4. PICK x \in {"waiting", "scheduled"}, t \in Times \cup {None} :
           s = Transition(q, x, t) /\ (x = "scheduled" => t # None)
    BY <2>3
  <2>. HIDE DEF s
  <2>5. JobSound(s) /\ s.heap = 0 /\ s.status = x /\ s.hasId = q.hasId /\ s.dequeued = q.dequeued
    <3>1. x \in Statuses /\ x \notin {"new", "building"} /\ (x = "scheduled" => t # None)
      BY <2>4 DEF Statuses
    <3>2. LET u == Transition(q, x, t)
          IN  JobSound(u) /\ u.heap = 0 /\ u.status = x /\ u.hasId = q.hasId /\ u.dequeued = q.dequeued
      BY <2>1, <3>1, TransitionFacts
    <3>. QED BY <2>4, <3>2
  <2>6. Transitions(r)
    BY <1>3 DEF Transitions
  <2>7. JobSound(s) /\ s.hasId = r.hasId /\ s.dequeued = r.dequeued /\ s.heap = 0 /\ s.status \in {"waiting", "scheduled"}
    BY <2>1, <2>5 DEF SameStage
  <2>. QED BY <2>6, <2>7 DEF s
<1>. QED BY <1>1, <1>2, <1>3

\* The status a dispatch gives its job.
LEMMA AfterFireFacts ==
  ASSUME NEW r, JobSound(r), r.heap = 0, now \in 0..MaxTime, NEW next \in Times \cup {None, WAITING}
  PROVE  LET s == [AfterFire(r, next) EXCEPT !.pending = None]
         IN  /\ JobSound(s) /\ s.heap = 0 /\ s.hasId = r.hasId /\ s.dequeued = r.dequeued
             /\ s.status \in {"completed", "waiting", "scheduled"}
<1>. DEFINE a == AfterFire(r, next)
<1>1. \E status \in {"completed", "waiting", "scheduled"}, t \in Times \cup {None} :
         a = Transition(r, status, t) /\ (status = "scheduled" => t # None)
  <2>1. CASE next = None
    BY <2>1 DEF AfterFire
  <2>2. CASE next = WAITING
    BY <2>2, Assumptions DEF AfterFire
  <2>3. CASE next \notin {None, WAITING}
    <3>. DEFINE t == IF next <= now THEN now + 1 ELSE next
    <3>1. next \in Times /\ now + 1 \in Times
      BY <2>3, Assumptions
    <3>2. t \in Times /\ t # None
      BY <3>1, Assumptions
    <3>3. a = Transition(r, "scheduled", t)
      BY <2>3 DEF AfterFire
    <3>. QED BY <3>2, <3>3
  <2>. QED BY <2>1, <2>2, <2>3
<1>2. PICK status \in {"completed", "waiting", "scheduled"}, t \in Times \cup {None} :
         a = Transition(r, status, t) /\ (status = "scheduled" => t # None)
  BY <1>1
<1>. HIDE DEF a
<1>3. JobSound(a) /\ a.heap = 0 /\ a.status = status /\ a.hasId = r.hasId /\ a.dequeued = r.dequeued
  <2>1. status \in Statuses /\ status \notin {"new", "building"} /\ (status = "scheduled" => t # None)
    BY <1>2 DEF Statuses
  <2>2. LET u == Transition(r, status, t)
        IN  JobSound(u) /\ u.heap = 0 /\ u.status = status /\ u.hasId = r.hasId /\ u.dequeued = r.dequeued
    BY <2>1, TransitionFacts
  <2>. QED BY <1>2, <2>2
<1>. DEFINE s == [a EXCEPT !.pending = None]
<1>4. JobSound(s) /\ s.heap = a.heap /\ s.status = a.status /\ s.hasId = a.hasId /\ s.dequeued = a.dequeued
  BY <1>3 DEF JobSound, JobRecord, Begun
<1>5. s = [AfterFire(r, next) EXCEPT !.pending = None]
  BY DEF a
<1>. HIDE DEF s
<1>. QED BY <1>3, <1>4, <1>5

----------------------------------------------------------------------------
(* What a step of one task keeps of the others *)

OnlyTask(k) == DOMAIN task' = Tasks /\ \A i \in Tasks : i # k => task'[i] = task[i]

\* A step of task k leaves job j so that the other tasks can rely on it.
Respects(k, j) ==
    /\ JobSound(job'[j])
    /\ job[j].hasId => job'[j].hasId
    /\ Begun(job[j]) => Begun(job'[j])
    /\ SameStage(job[j], job'[j]) \/ \A i \in Tasks : i # k => ~Builds(i, j)
    /\ Builds(k, j)' => \A i \in Tasks : i # k => ~Builds(i, j)

\* And its occurrence is in one place.
HandsOn(k, j) ==
    \/ job'[j].dequeued
    \/ /\ job'[j].status = job[j].status /\ job'[j].heap = job[j].heap
       /\ job'[j].dequeued = job[j].dequeued
       /\ Carries(k, j)' <=> Carries(k, j)
    \/ /\ job'[j].dequeued = job[j].dequeued
       /\ Carries(k, j) \/ job[j].status # "scheduled" \/ job[j].heap # 0
       /\ Carries(k, j)' => job'[j].status = "scheduled" /\ job'[j].heap = 0
       /\ ~app.dbFails /\ job'[j].status = "scheduled" => job'[j].heap = 1 \/ Carries(k, j)'

LEMMA OtherTask ==
  ASSUME NEW k \in Tasks, OnlyTask(k), NEW i \in Tasks, i # k, NEW j
  PROVE  (Builds(i, j)' <=> Builds(i, j)) /\ (Carries(i, j)' <=> Carries(i, j))
         /\ (Registers(i, j)' <=> Registers(i, j))
BY DEF OnlyTask, Builds, Registers, Carries

LEMMA WatchRegisters ==
  ASSUME NEW t, TaskTyped(t)
  PROVE  /\ t.at = "watch" => t.kind = "register" /\ t.job \in Jobs
         /\ t.kind \in {"handler", "dispatch"} => t.job \in Jobs
         /\ t.at = "next" => t.kind = "removeall"
         /\ t.at \in {"db", "again", "spawned", "release"} => t.kind # "free" /\ t.job \in Jobs
         /\ t.at = "again" => t.kind = "dispatch"
         /\ t.at = "release" => t.kind \in {"remove", "replace", "removeall"}
BY DEF TaskTyped, TaskRecord, Idle

LEMMA OthersSound ==
  ASSUME JobsSound, TasksSound, NEW k \in Tasks, OnlyTask(k), \A j \in Jobs : Respects(k, j),
         NEW i \in Tasks, i # k
  PROVE  TaskSound(i)'
<1>1. task'[i] = task[i] /\ TaskSound(i) /\ TaskTyped(task[i])
  BY DEF OnlyTask, TasksSound, TaskSound
<1>2. task[i].kind \in {"handler", "dispatch"} \/ task[i].at = "watch" => job'[task[i].job].hasId
  <2>1. task[i].kind \in {"handler", "dispatch"} \/ task[i].at = "watch" => task[i].job \in Jobs
    BY <1>1, WatchRegisters
  <2>. QED BY <1>1, <2>1 DEF TaskSound, Respects
<1>3. ASSUME NEW j \in Jobs, Registers(i, j)
      PROVE  ~job'[j].hasId /\ Begun(job'[j]) /\ job'[j].status = task[i].wrote
  <2>1. SameStage(job[j], job'[j])
    BY <1>3 DEF Respects, Builds
  <2>. QED BY <1>1, <1>3, <2>1 DEF TaskSound, SameStage, Begun
<1>4. ASSUME task[i].kind = "replace", NEW j \in task[i].rest
      PROVE  job'[j].status = "building" /\ (task[i].wrote = "scheduled" => job'[j].next # None)
  <2>1. j \in Jobs
    BY <1>1, <1>4 DEF TaskTyped, TaskRecord
  <2>2. SameStage(job[j], job'[j])
    BY <1>4, <2>1 DEF Respects, Builds
  <2>. QED BY <1>1, <1>4, <2>2 DEF TaskSound, SameStage
<1>5. ASSUME task[i].kind = "removeall", NEW j \in task[i].rest PROVE Begun(job'[j])
  <2>1. j \in Jobs
    BY <1>1, <1>5 DEF TaskTyped, TaskRecord
  <2>. QED BY <1>1, <1>5, <2>1 DEF TaskSound, Respects
<1>6. \A j \in Jobs : Registers(i, j)' <=> Registers(i, j)
  BY OtherTask
<1>7. task'[i].kind \in {"handler", "dispatch"} \/ task'[i].at = "watch" => job'[task'[i].job].hasId
  BY <1>1, <1>2
<1>8. \A j \in Jobs : Registers(i, j)' => ~job'[j].hasId /\ Begun(job'[j]) /\ job'[j].status = task'[i].wrote
  BY <1>1, <1>3, <1>6
<1>9. task'[i].kind = "replace" =>
         /\ task'[i].wrote \in {"scheduled", "waiting", "manual"}
         /\ \E j \in Jobs : task'[i].rest = {j}
         /\ \A j \in task'[i].rest : /\ job'[j].status = "building"
                                     /\ task'[i].wrote = "scheduled" => job'[j].next # None
  BY <1>1, <1>4 DEF TaskSound
<1>10. task'[i].kind = "removeall" => \A j \in task'[i].rest : Begun(job'[j])
  BY <1>1, <1>5
<1>11. TaskTyped(task'[i])
  BY <1>1
<1>. QED BY <1>7, <1>8, <1>9, <1>10, <1>11 DEF TaskSound, Begun

LEMMA TasksKept ==
  ASSUME JobsSound, TasksSound, NEW k \in Tasks, OnlyTask(k), \A j \in Jobs : Respects(k, j), TaskSound(k)'
  PROVE  TasksSound'
<1>1. \A i \in Tasks : TaskSound(i)'
  BY OthersSound
<1>2. ASSUME NEW j \in Jobs, NEW i \in Tasks, NEW n \in Tasks, Builds(i, j)', Builds(n, j)'
      PROVE  i = n
  <2>1. CASE i # k /\ n # k
    BY <1>2, <2>1, OtherTask DEF TasksSound
  <2>2. CASE i = k /\ n # k
    BY <1>2, <2>2, OtherTask DEF Respects
  <2>3. CASE i # k /\ n = k
    BY <1>2, <2>3, OtherTask DEF Respects
  <2>. QED BY <2>1, <2>2, <2>3
<1>3. DOMAIN task' = Tasks
  BY DEF OnlyTask
<1>. QED BY <1>1, <1>2, <1>3 DEF TasksSound

LEMMA OccurrencesKept ==
  ASSUME Occurrences, UNCHANGED app, NEW k \in Tasks, OnlyTask(k), \A j \in Jobs : HandsOn(k, j)
  PROVE  Occurrences'
<1>. SUFFICES ASSUME NEW j \in Jobs, ~job'[j].dequeued
              PROVE  InHand(j)'
  BY DEF Occurrences
<1>1. \A i \in Tasks : i # k => (Carries(i, j)' <=> Carries(i, j))
  BY OtherTask
<1>2. CASE /\ job'[j].status = job[j].status /\ job'[j].heap = job[j].heap
           /\ job'[j].dequeued = job[j].dequeued
           /\ Carries(k, j)' <=> Carries(k, j)
  <2>1. InHand(j) /\ \A i \in Tasks : Carries(i, j)' <=> Carries(i, j)
    BY <1>1, <1>2 DEF Occurrences
  <2>. QED BY <1>2, <2>1 DEF InHand
<1>3. CASE /\ job'[j].dequeued = job[j].dequeued
           /\ Carries(k, j) \/ job[j].status # "scheduled" \/ job[j].heap # 0
           /\ Carries(k, j)' => job'[j].status = "scheduled" /\ job'[j].heap = 0
           /\ ~app.dbFails /\ job'[j].status = "scheduled" => job'[j].heap = 1 \/ Carries(k, j)'
  <2>1. InHand(j)
    BY <1>3 DEF Occurrences
  <2>2. \A i \in Tasks : i # k => ~Carries(i, j)'
    BY <1>1, <1>3, <2>1 DEF InHand
  <2>. QED BY <1>3, <2>2 DEF InHand
<1>. QED BY <1>2, <1>3 DEF HandsOn

LEMMA JobsKept ==
  ASSUME AllJobs', NEW k, \A j \in Jobs : Respects(k, j)
  PROVE  JobsSound'
BY DEF JobsSound, Respects

\* A job that does not change and that task k is not about.
LEMMA Untouched ==
  ASSUME JobsSound, TasksSound, Occurrences, NEW k \in Tasks, NEW j \in Jobs, job'[j] = job[j],
         Builds(k, j)' => Builds(k, j)
  PROVE  /\ Respects(k, j)
         /\ (Carries(k, j)' <=> Carries(k, j)) => HandsOn(k, j)
<1>1. Respects(k, j)
  BY DEF Respects, JobsSound, TasksSound, SameStage
<1>2. (Carries(k, j)' <=> Carries(k, j)) => HandsOn(k, j)
  BY DEF HandsOn
<1>. QED BY <1>1, <1>2

\* A job that has its row id, or was begun by nobody, is built by nobody.
LEMMA BuiltByNone ==
  ASSUME JobsSound, TasksSound, NEW j \in Jobs, job[j].hasId \/ job[j].status = "new", NEW i \in Tasks
  PROVE  ~Builds(i, j)
<1>1. TaskSound(i) /\ JobSound(job[j])
  BY DEF TasksSound, JobsSound
<1>2. ~Registers(i, j)
  BY <1>1 DEF TaskSound, Begun
<1>3. ~(task[i].kind = "replace" /\ j \in task[i].rest)
  <2>1. task[i].kind = "replace" /\ j \in task[i].rest => job[j].status = "building"
    BY <1>1 DEF TaskSound
  <2>. QED BY <1>1, <2>1 DEF JobSound, Begun
<1>. QED BY <1>2, <1>3 DEF Builds

----------------------------------------------------------------------------
(* What a step keeps of the indexes, the queue and the sleep *)

LEMMA IndexesKept ==
  ASSUME Indexes, UNCHANGED <<app, entity, cache, updates, inbox>>, now' \in 0..MaxTime,
         \A j \in Jobs : (job[j].hasId => job'[j].hasId) /\ (Begun(job[j]) => Begun(job'[j])),
         registry' \in [Rows -> Jobs \cup {None}], names' \in [Rows -> Jobs \cup {None}],
         watch' \in [Rows -> Jobs \cup {None}],
         \A r \in Rows : names'[r] \in {None, names[r]} \/ Begun(job'[names'[r]]),
         \A r \in Rows : watch'[r] \in {None, watch[r]} \/ job'[watch'[r]].hasId
  PROVE  Indexes'
<1>1. ASSUME NEW r \in Rows, names'[r] # None PROVE Begun(job'[names'[r]])
  <2>1. CASE Begun(job'[names'[r]])
    BY <2>1
  <2>2. CASE names'[r] = names[r]
    <3>1. names[r] \in Jobs /\ Begun(job[names[r]])
      BY <1>1, <2>2 DEF Indexes
    <3>. QED BY <2>2, <3>1
  <2>. QED BY <1>1, <2>1, <2>2
<1>2. ASSUME NEW r \in Rows, watch'[r] # None PROVE job'[watch'[r]].hasId
  <2>1. CASE job'[watch'[r]].hasId
    BY <2>1
  <2>2. CASE watch'[r] = watch[r]
    <3>1. watch[r] \in Jobs /\ job[watch[r]].hasId
      BY <1>2, <2>2 DEF Indexes
    <3>. QED BY <2>2, <3>1
  <2>. QED BY <1>2, <2>1, <2>2
<1>3. ASSUME NEW i \in 1..Len(inbox) PROVE job'[inbox[i].job].hasId
  <2>1. inbox[i] \in Changes
    BY DEF Indexes
  <2>2. inbox[i].job \in Jobs /\ job[inbox[i].job].hasId
    BY <2>1 DEF Indexes, Changes
  <2>. QED BY <2>2
<1>4. \A i \in 1..Len(inbox') : job'[inbox'[i].job].hasId
  BY <1>3
<1>5. \A r \in Rows : (names'[r] # None => Begun(job'[names'[r]])) /\ (watch'[r] # None => job'[watch'[r]].hasId)
  BY <1>1, <1>2
<1>. QED BY <1>4, <1>5 DEF Indexes, Begun

Queued(t) == t.at \in {"db", "again", "watch"}

LEMMA QueueKept ==
  ASSUME Queue, NEW k \in Tasks, OnlyTask(k),
         \/ dbq' = dbq /\ (Queued(task[k]) => Queued(task'[k]))
         \/ dbq' = Append(dbq, k) /\ ~Queued(task[k]) /\ Queued(task'[k])
         \/ dbq # <<>> /\ Head(dbq) = k /\ dbq' = Tail(dbq)
         \/ dbq # <<>> /\ Head(dbq) = k /\ dbq' = Append(Tail(dbq), k) /\ Queued(task'[k])
  PROVE  Queue'
<1>1. /\ dbq \in Seq(Tasks) /\ Distinct(dbq)
      /\ \A i \in 1..Len(dbq) : dbq[i] \in Tasks /\ Queued(task[dbq[i]])
  BY DEF Queue, Queued
<1>2. ASSUME NEW q2 \in Seq(Tasks), Distinct(q2), dbq' = q2,
             \A i \in 1..Len(q2) : \/ q2[i] = k /\ Queued(task'[k])
                                   \/ q2[i] # k /\ \E n \in 1..Len(dbq) : dbq[n] = q2[i]
      PROVE  Queue'
  <2>1. \A i \in 1..Len(q2) : Queued(task'[q2[i]])
    BY <1>1, <1>2 DEF OnlyTask
  <2>. QED BY <1>2, <2>1 DEF Queue, Queued, Distinct
<1>3. CASE dbq' = dbq /\ (Queued(task[k]) => Queued(task'[k]))
  <2>1. \A i \in 1..Len(dbq) : \/ dbq[i] = k /\ Queued(task'[k])
                               \/ dbq[i] # k /\ \E n \in 1..Len(dbq) : dbq[n] = dbq[i]
    BY <1>1, <1>3
  <2>. QED BY <1>1, <1>2, <1>3, <2>1
<1>4. CASE dbq' = Append(dbq, k) /\ ~Queued(task[k]) /\ Queued(task'[k])
  <2>1. \A i \in 1..Len(dbq) : dbq[i] # k
    BY <1>1, <1>4
  <2>. DEFINE p == Append(dbq, k)
  <2>2. /\ p \in Seq(Tasks) /\ Distinct(p)
        /\ \A i \in 1..Len(p) : p[i] = k \/ \E n \in 1..Len(dbq) : dbq[n] = p[i]
    BY <1>1, <2>1, QueueMore
  <2>3. dbq' = p
    BY <1>4
  <2>. HIDE DEF p
  <2>4. \A i \in 1..Len(p) : \/ p[i] = k
                             \/ p[i] # k /\ \E n \in 1..Len(dbq) : dbq[n] = p[i]
    BY <2>1, <2>2
  <2>. QED BY <1>2, <1>4, <2>2, <2>3, <2>4
<1>5. CASE dbq # <<>> /\ Head(dbq) = k /\ dbq' = Tail(dbq)
  <2>. DEFINE p == Tail(dbq)
  <2>1. /\ p \in Seq(Tasks) /\ Distinct(p)
        /\ \A i \in 1..Len(p) : p[i] # k /\ \E n \in 1..Len(dbq) : dbq[n] = p[i]
    BY <1>1, <1>5, QueueLess
  <2>2. dbq' = p
    BY <1>5
  <2>. HIDE DEF p
  <2>. QED BY <1>2, <2>1, <2>2
<1>6. CASE dbq # <<>> /\ Head(dbq) = k /\ dbq' = Append(Tail(dbq), k) /\ Queued(task'[k])
  <2>. DEFINE t == Tail(dbq)
              p == Append(t, k)
  <2>1. /\ t \in Seq(Tasks) /\ Distinct(t)
        /\ \A i \in 1..Len(t) : t[i] # k /\ \E n \in 1..Len(dbq) : dbq[n] = t[i]
    BY <1>1, <1>6, QueueLess
  <2>2. dbq' = p
    BY <1>6
  <2>. HIDE DEF t
  <2>3. /\ p \in Seq(Tasks) /\ Distinct(p)
        /\ \A i \in 1..Len(p) : p[i] = k \/ \E n \in 1..Len(t) : t[n] = p[i]
    BY <2>1, QueueMore
  <2>. HIDE DEF p
  <2>4. \A i \in 1..Len(p) : \/ p[i] = k
                             \/ p[i] # k /\ \E n \in 1..Len(dbq) : dbq[n] = p[i]
    <3>. SUFFICES ASSUME NEW i \in 1..Len(p), p[i] # k PROVE \E n \in 1..Len(dbq) : dbq[n] = p[i]
      OBVIOUS
    <3>1. PICK m \in 1..Len(t) : t[m] = p[i]
      BY <2>3
    <3>. QED BY <2>1, <3>1
  <2>. QED BY <1>2, <1>6, <2>2, <2>3, <2>4
<1>. QED BY <1>3, <1>4, <1>5, <1>6

\* Whatever is new on the heap comes with a kick.
LEMMA WakesKept ==
  ASSUME Wakes, serve' \in {serve, Kicked},
         \A j \in Jobs : \/ serve'.kicked
                         \/ job'[j].heap = 0
                         \/ job'[j].heap = job[j].heap /\ job'[j].key = job[j].key
  PROVE  Wakes'
<1>1. serve' \in [until : Nat, kicked : BOOLEAN] /\ serve'.until = serve.until /\ (serve.kicked => serve'.kicked)
  BY DEF Wakes, Kicked
<1>2. SleepNeverPastDue'
  <2>. SUFFICES ASSUME NEW j \in Jobs, job'[j].heap > 0, ~serve'.kicked
                PROVE  serve'.until < job'[j].key + MinDelay
    BY DEF SleepNeverPastDue
  <2>1. job'[j].heap # 0
    OBVIOUS
  <2>2. job[j].heap > 0 /\ job'[j].key = job[j].key /\ ~serve.kicked
    BY <1>1, <2>1
  <2>. QED BY <1>1, <2>2 DEF Wakes, SleepNeverPastDue
<1>. QED BY <1>1, <1>2 DEF Wakes

----------------------------------------------------------------------------
(* The initial state *)

LEMMA SchedulerInvInit == Init => SchedulerInv
<1>. SUFFICES ASSUME Init PROVE SchedulerInv
  OBVIOUS
<1>. USE DEF Init
<1>1. JobsSound
  BY NewJobFacts DEF JobsSound, AllJobs
<1>2. \A k \in Tasks : task[k] = Idle
  OBVIOUS
<1>3. TasksSound
  <2>1. TaskTyped(Idle) /\ Idle.kind = "free" /\ Idle.at = "none"
    BY DEF TaskTyped, TaskRecord, Idle
  <2>2. \A k \in Tasks : TaskSound(k) /\ \A j \in Jobs : ~Builds(k, j)
    BY <1>2, <2>1 DEF TaskSound, Builds, Registers
  <2>. QED BY <2>2 DEF TasksSound
<1>4. Occurrences
  BY <1>2, NewJobFacts DEF Occurrences, InHand, Carries, Idle
<1>5. Indexes
  BY Assumptions DEF Indexes, Begun
<1>6. Queue
  BY DEF Queue, Distinct
<1>7. Wakes
  BY NewJobFacts DEF Wakes, SleepNeverPastDue
<1>. QED BY <1>1, <1>3, <1>4, <1>5, <1>6, <1>7 DEF SchedulerInv

----------------------------------------------------------------------------
(* Steps that start and end a task *)

LEMMA StepKept ==
  ASSUME SchedulerInv, UNCHANGED app, NEW k \in Tasks, OnlyTask(k), AllJobs',
         \A j \in Jobs : Respects(k, j) /\ HandsOn(k, j), TaskSound(k)', Indexes', Queue', Wakes'
  PROVE  SchedulerInv'
BY JobsKept, TasksKept, OccurrencesKept DEF SchedulerInv

LEMMA OneTask ==
  ASSUME TasksSound, NEW k \in Tasks, NEW t, task' = [task EXCEPT ![k] = t]
  PROVE  OnlyTask(k) /\ task'[k] = t
BY DEF TasksSound, OnlyTask

LEMMA OneJob ==
  ASSUME JobsSound, NEW j \in Jobs, NEW r, job' = [job EXCEPT ![j] = r]
  PROVE  AllJobs' /\ job'[j] = r /\ \A i \in Jobs : i # j => job'[i] = job[i]
BY DEF JobsSound, AllJobs

LEMMA SpawnFacts ==
  ASSUME NEW kind, NEW j, NEW at, NEW x
  PROVE  LET t == Spawn(kind, j, at)
             w == [Spawn(kind, j, at) EXCEPT !.wrote = x]
         IN  /\ t = [kind |-> kind, job |-> j, at |-> at, rest |-> {}, wrote |-> None]
             /\ w = [kind |-> kind, job |-> j, at |-> at, rest |-> {}, wrote |-> x]
BY DEF Spawn

LEMMA PersistingFacts ==
  ASSUME NEW kind, NEW j, NEW at, NEW r
  PROVE  Persisting(kind, j, at, r) = [kind |-> kind, job |-> j, at |-> at, rest |-> {}, wrote |-> r.status]
BY SpawnFacts DEF Persisting

\* A task that is over, or does nothing but remove jobs, is bound by nothing.
LEMMA IdleSound ==
  ASSUME NEW k \in Tasks, task'[k] = Idle
  PROVE  TaskSound(k)' /\ \A j \in Jobs : ~Builds(k, j)' /\ ~Carries(k, j)'
<1>1. TaskTyped(Idle) /\ Idle.kind = "free" /\ Idle.at = "none"
  BY DEF TaskTyped, TaskRecord, Idle
<1>. QED BY <1>1 DEF TaskSound, Builds, Registers, Carries

LEMMA FreeSound ==
  ASSUME TasksSound, NEW k \in Tasks, task[k].kind = "free"
  PROVE  /\ \A j \in Jobs : ~Builds(k, j) /\ ~Carries(k, j)
         /\ ~Queued(task[k])
<1>1. task[k] = Idle
  BY DEF TasksSound, TaskSound, TaskTyped
<1>. QED BY <1>1 DEF Builds, Registers, Carries, Idle, Queued

LEMMA RemoverSound ==
  ASSUME NEW k \in Tasks, TaskTyped(task'[k]), task'[k].kind = "remove"
  PROVE  TaskSound(k)' /\ \A j \in Jobs : ~Builds(k, j)' /\ ~Carries(k, j)'
BY DEF TaskTyped, TaskSound, Builds, Registers, Carries

----------------------------------------------------------------------------
(* Registration *)

LEMMA Resolved ==
  ASSUME Indexes, NEW t \in Times \cup {None}
  PROVE  /\ Resolve(t) \in Times \cup {WAITING}
         /\ Resolve(t) # WAITING => t \in Times
<1>1. CASE t = None
  BY <1>1 DEF Resolve
<1>2. CASE t # None
  BY <1>2 DEF Resolve
<1>. QED BY <1>1, <1>2

LEMMA FirstRun ==
  ASSUME Indexes, NEW j \in Jobs, NEW f \in FirstRuns(j)
  PROVE  /\ f[1] \in {"manual", "waiting", "scheduled"} /\ f[2] \in Times \cup {None}
         /\ f[1] = "scheduled" => f[2] # None
<1>1. app.kind[j] \in {"once", "recurring", "entity", "manual"}
  BY Scenes DEF Indexes
<1>2. CASE app.kind[j] = "manual"
  BY <1>2 DEF FirstRuns
<1>3. CASE app.kind[j] = "entity"
  <2>1. f = IF Resolve(cache[j]) = WAITING THEN <<"waiting", None>> ELSE <<"scheduled", cache[j]>>
    BY <1>3 DEF FirstRuns
  <2>2. cache[j] \in Times \cup {None}
    BY DEF Indexes
  <2>3. Resolve(cache[j]) # WAITING => cache[j] \in Times
    BY <2>2, Resolved
  <2>. QED BY <2>1, <2>3, Assumptions
<1>4. CASE app.kind[j] \notin {"manual", "entity"}
  <2>1. f \in {<<"scheduled", t>> : t \in {now, now + 1}}
    BY <1>4 DEF FirstRuns
  <2>2. now \in Times /\ now + 1 \in Times
    BY Assumptions DEF Indexes
  <2>. QED BY <2>1, <2>2, Assumptions
<1>. QED BY <1>2, <1>3, <1>4

\* The registration of a job that nobody else builds begins.
LEMMA Starts ==
  ASSUME JobsSound, TasksSound, Occurrences, UNCHANGED app,
         NEW k \in Tasks, NEW j \in Jobs, NEW r, NEW queue, StartRegistration(k, j, r, queue),
         JobSound(r), ~r.hasId, r.heap = 0, r.dequeued = job[j].dequeued,
         r.status \in {"manual", "waiting", "scheduled"},
         job[j].status \in {"new", "building"},
         \A i \in Tasks : i # k => ~Builds(i, j), \A i \in Jobs : ~Carries(k, i)
  PROVE  /\ OnlyTask(k) /\ AllJobs' /\ TaskSound(k)' /\ Queued(task'[k])
         /\ \A i \in Jobs : Respects(k, i) /\ HandsOn(k, i)
         /\ Begun(job'[j]) /\ job'[j].heap = 0 /\ \A i \in Jobs : i # j => job'[i] = job[i]
<1>. DEFINE t == Persisting("register", j, "db", r)
<1>1. t = [kind |-> "register", job |-> j, at |-> "db", rest |-> {}, wrote |-> r.status]
  BY PersistingFacts
<1>2. task' = [task EXCEPT ![k] = t] /\ job' = [job EXCEPT ![j] = r]
  BY DEF StartRegistration
<1>. HIDE DEF t
<1>3. OnlyTask(k) /\ task'[k] = t
  BY <1>2, OneTask
<1>4. AllJobs' /\ job'[j] = r /\ \A i \in Jobs : i # j => job'[i] = job[i]
  BY <1>2, OneJob
<1>5. /\ \A i \in Jobs : i # j => ~Builds(k, i)' /\ ~Carries(k, i)'
      /\ Carries(k, j)' <=> r.status = "scheduled"
      /\ \A i \in Jobs : Registers(k, i)' => i = j
  BY <1>1, <1>3 DEF Builds, Registers, Carries
<1>6. Begun(r)
  BY DEF Begun
<1>7. TaskSound(k)'
  <2>1. TaskTyped(t)
    BY <1>1 DEF TaskTyped, TaskRecord, Statuses
  <2>. QED BY <1>1, <1>3, <1>4, <1>5, <1>6, <2>1 DEF TaskSound
<1>8. ASSUME NEW i \in Jobs PROVE Respects(k, i) /\ HandsOn(k, i)
  <2>1. CASE i = j
    <3>1. Respects(k, j)
      <4>1. ~job[j].hasId /\ ~Begun(job[j])
        BY DEF JobsSound, JobSound, Begun
      <4>. QED BY <1>4, <4>1 DEF Respects
    <3>2. HandsOn(k, j)
      BY <1>4, <1>5 DEF HandsOn
    <3>. QED BY <2>1, <3>1, <3>2
  <2>2. CASE i # j
    BY <1>4, <1>5, <2>2, Untouched
  <2>. QED BY <2>1, <2>2
<1>9. Queued(task'[k])
  BY <1>1, <1>3 DEF Queued
<1>. QED BY <1>3, <1>4, <1>6, <1>7, <1>8, <1>9

LEMMA AddJobKept ==
  ASSUME SchedulerInv, NEW j \in Jobs, AddJob(j)
  PROVE  SchedulerInv'
<1>1. JobsSound /\ TasksSound /\ Occurrences /\ Indexes /\ Queue /\ Wakes
  BY DEF SchedulerInv
<1>0. PICK k : k = NewTask
  OBVIOUS
<1>2. PICK f \in FirstRuns(j) : StartRegistration(k, j, Transition(job[j], f[1], f[2]), dbq)
  BY <1>0 DEF AddJob
<1>3. /\ Free # {} /\ job[j].status = "new"
      /\ UNCHANGED <<app, now, registry, watch, entity, cache, updates, inbox, serve>>
  BY DEF AddJob, tables, sources
<1>4. k \in Tasks /\ task[k].kind = "free"
  BY <1>0, <1>3, NewTaskIsFree
<1>. DEFINE r == Transition(job[j], f[1], f[2])
<1>5. JobSound(job[j]) /\ job[j].heap = 0 /\ ~job[j].hasId
  BY <1>1, <1>3 DEF JobsSound, JobSound, JobRecord, Begun
<1>6. /\ f[1] \in {"manual", "waiting", "scheduled"} /\ f[2] \in Times \cup {None}
      /\ f[1] = "scheduled" => f[2] # None
  BY <1>1, <1>2, FirstRun
<1>7. JobSound(r) /\ r.heap = 0 /\ r.status = f[1] /\ r.hasId = job[j].hasId /\ r.dequeued = job[j].dequeued
  <2>1. f[1] \in Statuses
    BY <1>6 DEF Statuses
  <2>. QED BY <1>5, <1>6, <2>1, TransitionFacts
<1>8. StartRegistration(k, j, r, dbq)
  BY <1>2
<1>. HIDE DEF r
<1>9. /\ \A i \in Tasks : i # k => ~Builds(i, j)
      /\ \A i \in Jobs : ~Carries(k, i) /\ ~Builds(k, i)
      /\ ~Queued(task[k])
  BY <1>1, <1>3, <1>4, BuiltByNone, FreeSound
<1>10. /\ OnlyTask(k) /\ AllJobs' /\ TaskSound(k)' /\ Queued(task'[k])
       /\ \A i \in Jobs : Respects(k, i) /\ HandsOn(k, i)
       /\ Begun(job'[j]) /\ job'[j].heap = 0 /\ \A i \in Jobs : i # j => job'[i] = job[i]
  BY <1>1, <1>3, <1>4, <1>5, <1>6, <1>7, <1>8, <1>9, Starts
<1>11. names' = [names EXCEPT ![RowOf[j]] = j] /\ dbq' = Append(dbq, k)
  BY <1>8 DEF StartRegistration
<1>12. Indexes'
  <2>1. RowOf[j] \in Rows
    BY Assumptions
  <2>2. /\ names' \in [Rows -> Jobs \cup {None}]
        /\ \A i \in Rows : names'[i] \in {None, names[i]} \/ Begun(job'[names'[i]])
    BY <1>1, <1>10, <1>11, <2>1 DEF Indexes
  <2>3. \A i \in Jobs : (job[i].hasId => job'[i].hasId) /\ (Begun(job[i]) => Begun(job'[i]))
    BY <1>10 DEF Respects
  <2>4. /\ registry' \in [Rows -> Jobs \cup {None}] /\ watch' \in [Rows -> Jobs \cup {None}]
        /\ now' \in 0..MaxTime /\ \A i \in Rows : watch'[i] \in {None, watch[i]}
    BY <1>1, <1>3 DEF Indexes
  <2>. QED BY <1>1, <1>3, <2>2, <2>3, <2>4, IndexesKept
<1>13. Queue'
  BY <1>1, <1>4, <1>9, <1>10, <1>11, QueueKept
<1>14. Wakes'
  BY <1>1, <1>3, <1>10, WakesKept
<1>. QED BY <1>3, <1>4, <1>10, <1>12, <1>13, <1>14, StepKept

\* The task whose write is served is the one at the head of the queue.
LEMMA ServedTask ==
  ASSUME Queue, TasksSound, NEW k, Served(k)
  PROVE  /\ k \in Tasks /\ dbq # <<>> /\ Head(dbq) = k
         /\ task[k].at \in {"db", "again", "watch"} /\ TaskTyped(task[k]) /\ TaskSound(k)
<1>1. dbq # <<>> /\ Head(dbq) = k /\ dbq \in Seq(Tasks)
  BY DEF Served, Queue
<1>2. 1 \in 1..Len(dbq) /\ dbq[1] = k /\ k \in Tasks
  BY <1>1
<1>3. task[k].at \in {"db", "again", "watch"}
  BY <1>2 DEF Queue
<1>. QED BY <1>1, <1>2, <1>3 DEF TasksSound, TaskSound

\* An entry that is new on the heap comes with a kick.
LEMMA PushKicks ==
  ASSUME Wakes, NEW r, JobSound(r), r.hasId, ~r.dequeued /\ r.status = "scheduled" => r.heap = 0
  PROVE  /\ KickIfQueued(r) \in {serve, Kicked}
         /\ KickIfQueued(r).kicked \/ Push(r).heap = 0
<1>1. CASE r.status = "scheduled"
  BY <1>1 DEF KickIfQueued, Kicked, Wakes
<1>2. CASE r.status # "scheduled"
  <2>1. Push(r) = r /\ r.heap = 0
    BY <1>2 DEF Push, JobSound, JobRecord
  <2>. QED BY <1>2, <2>1 DEF KickIfQueued
<1>. QED BY <1>1, <1>2

LEMMA RegisteredKept ==
  ASSUME SchedulerInv, NEW k \in Tasks, Registered(k)
  PROVE  SchedulerInv'
<1>1. JobsSound /\ TasksSound /\ Occurrences /\ Indexes /\ Queue /\ Wakes
  BY DEF SchedulerInv
<1>0. PICK j : j = task[k].job
  OBVIOUS
<1>. DEFINE r == [job[j] EXCEPT !.hasId = TRUE]
<1>2. /\ Served(k) /\ task[k].kind = "register" /\ task[k].at = "db"
      /\ registry' = [registry EXCEPT ![RowOf[j]] = j]
      /\ job' = [job EXCEPT ![j] = Push(r)] /\ serve' = KickIfQueued(r)
      /\ UNCHANGED <<app, now, names, watch, entity, cache, updates, inbox>>
  BY <1>0 DEF Registered, sources
<1>3. \/ /\ task' = [task EXCEPT ![k].at = "watch"]
         /\ dbq' = Append(Tail(dbq), k)
      \/ /\ task' = [task EXCEPT ![k] = Idle]
         /\ dbq' = Tail(dbq)
  BY DEF Registered
<1>4. j \in Jobs /\ dbq # <<>> /\ Head(dbq) = k /\ TaskTyped(task[k])
  BY <1>0, <1>1, <1>2, ServedTask, WatchRegisters
<1>5. Registers(k, j) /\ Builds(k, j)
  BY <1>0, <1>2 DEF Registers, Builds
<1>6. /\ JobSound(job[j]) /\ ~job[j].hasId /\ job[j].heap = 0 /\ Begun(job[j])
      /\ job[j].status = task[k].wrote
  BY <1>1, <1>4, <1>5 DEF TasksSound, TaskSound, JobsSound, JobSound, JobRecord
<1>7. JobSound(r) /\ r.hasId /\ r.heap = 0 /\ r.status = job[j].status /\ r.dequeued = job[j].dequeued
  <2>1. /\ r \in JobRecord /\ r.hasId /\ r.status = job[j].status /\ r.next = job[j].next /\ r.fire = job[j].fire
        /\ r.heap = job[j].heap /\ r.key = job[j].key /\ r.dequeued = job[j].dequeued
    BY <1>6 DEF JobSound, JobRecord
  <2>. HIDE DEF r
  <2>. QED BY <1>6, <2>1 DEF JobSound, Begun
<1>. DEFINE s == Push(r)
<1>. HIDE DEF r
<1>8. /\ JobSound(s) /\ s.hasId /\ s.status = job[j].status /\ s.dequeued = job[j].dequeued
      /\ ~s.dequeued /\ s.status = "scheduled" => s.heap = 1
  BY <1>7, PushFacts DEF SameStage
<1>9. serve' \in {serve, Kicked} /\ (serve'.kicked \/ s.heap = 0)
  BY <1>1, <1>2, <1>7, PushKicks
<1>. HIDE DEF s
<1>10. AllJobs' /\ job'[j] = s /\ \A i \in Jobs : i # j => job'[i] = job[i]
  BY <1>1, <1>2, <1>4, OneJob DEF s
<1>11. /\ OnlyTask(k) /\ TaskSound(k)'
       /\ \A i \in Jobs : ~Builds(k, i)' /\ ~Carries(k, i)' /\ (i # j => ~Carries(k, i))
       /\ dbq' = Tail(dbq) \/ (dbq' = Append(Tail(dbq), k) /\ Queued(task'[k]))
  <2>0. \A i \in Jobs : i # j => ~Carries(k, i)
    BY <1>0 DEF Carries
  <2>1. CASE task' = [task EXCEPT ![k].at = "watch"] /\ dbq' = Append(Tail(dbq), k)
    <3>. DEFINE t == [task[k] EXCEPT !.at = "watch"]
    <3>1. /\ TaskTyped(t) /\ t.kind = "register" /\ t.at = "watch" /\ t.job = j
      BY <1>0, <1>2, <1>4 DEF TaskTyped, TaskRecord
    <3>2. task' = [task EXCEPT ![k] = t]
      BY <2>1
    <3>. HIDE DEF t
    <3>3. OnlyTask(k) /\ task'[k] = t
      BY <1>1, <3>2, OneTask
    <3>4. \A i \in Jobs : ~Builds(k, i)' /\ ~Carries(k, i)' /\ ~Registers(k, i)'
      BY <3>1, <3>3 DEF Builds, Registers, Carries
    <3>5. TaskSound(k)'
      BY <1>8, <1>10, <3>1, <3>3, <3>4 DEF TaskSound
    <3>. QED BY <2>0, <2>1, <3>1, <3>3, <3>4, <3>5 DEF Queued
  <2>2. CASE task' = [task EXCEPT ![k] = Idle] /\ dbq' = Tail(dbq)
    <3>1. OnlyTask(k) /\ task'[k] = Idle
      BY <1>1, <2>2, OneTask
    <3>. QED BY <2>0, <2>2, <3>1, IdleSound
  <2>. QED BY <1>3, <2>1, <2>2
<1>12. ASSUME NEW i \in Jobs PROVE Respects(k, i) /\ HandsOn(k, i)
  <2>1. CASE i = j
    <3>1. \A n \in Tasks : n # k => ~Builds(n, j)
      BY <1>1, <1>4, <1>5 DEF TasksSound
    <3>2. Respects(k, j)
      BY <1>6, <1>8, <1>10, <1>11, <3>1 DEF Respects, Begun
    <3>3. job[j].status = "scheduled" => Carries(k, j)
      BY <1>0, <1>2, <1>6 DEF Carries
    <3>4. HandsOn(k, j)
      <4>1. CASE s.dequeued
        BY <1>10, <4>1 DEF HandsOn
      <4>2. CASE ~s.dequeued
        <5>1. ~Carries(k, j)' /\ (job'[j].status = "scheduled" => job'[j].heap = 1)
          BY <1>4, <1>8, <1>10, <1>11, <4>2
        <5>. QED BY <1>8, <1>10, <3>3, <5>1 DEF HandsOn
      <4>. QED BY <4>1, <4>2
    <3>. QED BY <2>1, <3>2, <3>4
  <2>2. CASE i # j
    BY <1>1, <1>10, <1>11, <2>2, Untouched
  <2>. QED BY <2>1, <2>2
<1>13. Indexes'
  <2>1. RowOf[j] \in Rows
    BY <1>4, Assumptions
  <2>2. registry' \in [Rows -> Jobs \cup {None}]
    BY <1>1, <1>2, <1>4, <2>1 DEF Indexes
  <2>3. \A i \in Jobs : (job[i].hasId => job'[i].hasId) /\ (Begun(job[i]) => Begun(job'[i]))
    BY <1>12 DEF Respects
  <2>4. /\ names' \in [Rows -> Jobs \cup {None}] /\ watch' \in [Rows -> Jobs \cup {None}] /\ now' \in 0..MaxTime
        /\ \A i \in Rows : watch'[i] \in {None, watch[i]} /\ names'[i] \in {None, names[i]}
    BY <1>1, <1>2 DEF Indexes
  <2>. QED BY <1>1, <1>2, <2>2, <2>3, <2>4, IndexesKept
<1>14. Queue'
  BY <1>1, <1>4, <1>11, QueueKept
<1>15. Wakes'
  BY <1>1, <1>9, <1>10, WakesKept
<1>. QED BY <1>2, <1>10, <1>11, <1>12, <1>13, <1>14, <1>15, StepKept

----------------------------------------------------------------------------
(* reschedule_job() *)

\* A call of reschedule_job() by a task that has nothing else in hand.
LEMMA Calls ==
  ASSUME JobsSound, TasksSound, Occurrences, UNCHANGED app,
         NEW k \in Tasks, NEW j \in Jobs, NEW to \in Times \cup {WAITING}, NEW queue,
         job[j].hasId, CallReschedule(k, j, job[j], to, queue),
         \A i \in Jobs : ~Builds(k, i) /\ ~Carries(k, i)
  PROVE  /\ OnlyTask(k) /\ AllJobs' /\ TaskSound(k)'
         /\ \A i \in Jobs : Respects(k, i) /\ HandsOn(k, i)
         /\ \A i \in Jobs : job'[i].heap = 0 \/ (job'[i].heap = job[i].heap /\ job'[i].key = job[i].key)
         /\ dbq' = queue \/ (dbq' = Append(queue, k) /\ Queued(task'[k]))
<1>. DEFINE s == Reschedule(job[j], to)
<1>1. JobSound(job[j])
  BY DEF JobsSound
<1>2. /\ JobSound(s) /\ s.hasId /\ s.dequeued = job[j].dequeued
      /\ Transitions(job[j]) => s.heap = 0 /\ s.status \in {"waiting", "scheduled"}
      /\ ~Transitions(job[j]) => SameStage(job[j], s) /\ s.heap = job[j].heap /\ s.key = job[j].key
  BY <1>1, RescheduleFacts
<1>3. job' = [job EXCEPT ![j] = s]
  BY DEF CallReschedule
<1>4. \/ /\ Transitions(job[j])
         /\ task' = [task EXCEPT ![k] = Persisting("handler", j, "db", s)]
         /\ dbq' = Append(queue, k)
      \/ ~Transitions(job[j]) /\ task' = [task EXCEPT ![k] = Idle] /\ dbq' = queue
  BY DEF CallReschedule
<1>. HIDE DEF s
<1>5. AllJobs' /\ job'[j] = s /\ \A i \in Jobs : i # j => job'[i] = job[i]
  BY <1>3, OneJob
<1>6. \A i \in Jobs : job'[i].heap = 0 \/ (job'[i].heap = job[i].heap /\ job'[i].key = job[i].key)
  BY <1>2, <1>5
<1>7. \A i \in Tasks : ~Builds(i, j)
  BY BuiltByNone
<1>8. Begun(job[j]) /\ Begun(s)
  BY <1>1, <1>2 DEF JobSound
<1>9. CASE Transitions(job[j])
  <2>. DEFINE t == Persisting("handler", j, "db", s)
  <2>1. t = [kind |-> "handler", job |-> j, at |-> "db", rest |-> {}, wrote |-> s.status]
    BY PersistingFacts
  <2>2. task' = [task EXCEPT ![k] = t] /\ dbq' = Append(queue, k)
    BY <1>4, <1>9
  <2>. HIDE DEF t
  <2>3. OnlyTask(k) /\ task'[k] = t
    BY <2>2, OneTask
  <2>4. /\ \A i \in Jobs : ~Builds(k, i)' /\ ~Registers(k, i)' /\ (i # j => ~Carries(k, i)')
        /\ Carries(k, j)' <=> s.status = "scheduled"
    BY <2>1, <2>3 DEF Builds, Registers, Carries
  <2>5. TaskTyped(t)
    BY <1>2, <1>9, <2>1 DEF TaskTyped, TaskRecord, Statuses
  <2>6. TaskSound(k)' /\ Queued(task'[k])
    BY <1>2, <1>5, <2>1, <2>3, <2>4, <2>5 DEF TaskSound, Queued
  <2>7. ASSUME NEW i \in Jobs PROVE Respects(k, i) /\ HandsOn(k, i)
    <3>1. CASE i = j
      <4>1. Respects(k, j)
        BY <1>2, <1>5, <1>7, <1>8, <2>4 DEF Respects
      <4>2. job[j].status # "scheduled" \/ job[j].heap # 0
        BY <1>9 DEF Transitions, Remembers
      <4>3. HandsOn(k, j)
        BY <1>2, <1>5, <1>9, <2>4, <4>2 DEF HandsOn
      <4>. QED BY <3>1, <4>1, <4>3
    <3>2. CASE i # j
      BY <1>5, <2>4, <3>2, Untouched
    <3>. QED BY <3>1, <3>2
  <2>. QED BY <1>5, <1>6, <2>2, <2>3, <2>6, <2>7
<1>10. CASE ~Transitions(job[j])
  <2>1. OnlyTask(k) /\ task'[k] = Idle /\ dbq' = queue
    BY <1>4, <1>10, OneTask
  <2>2. TaskSound(k)' /\ \A i \in Jobs : ~Builds(k, i)' /\ ~Carries(k, i)'
    BY <2>1, IdleSound
  <2>3. ASSUME NEW i \in Jobs PROVE Respects(k, i) /\ HandsOn(k, i)
    <3>1. CASE i = j
      <4>1. Respects(k, j)
        BY <1>2, <1>5, <1>7, <1>8, <2>2 DEF Respects
      <4>2. HandsOn(k, j)
        BY <1>2, <1>5, <1>10, <2>2 DEF HandsOn, SameStage
      <4>. QED BY <3>1, <4>1, <4>2
    <3>2. CASE i # j
      BY <1>5, <2>2, <3>2, Untouched
    <3>. QED BY <3>1, <3>2
  <2>. QED BY <1>5, <1>6, <2>1, <2>2, <2>3
<1>. QED BY <1>9, <1>10

\* A step that changes no job.
LEMMA SameJobs ==
  ASSUME JobsSound, TasksSound, Occurrences, NEW k \in Tasks, UNCHANGED job,
         \A i \in Jobs : (Builds(k, i)' => Builds(k, i)) /\ (Carries(k, i)' <=> Carries(k, i))
  PROVE  /\ AllJobs'
         /\ \A i \in Jobs : Respects(k, i) /\ HandsOn(k, i)
BY Untouched DEF JobsSound, AllJobs

LEMMA WatcherHolds ==
  ASSUME NEW k, task[k].at = "watch", TaskTyped(task[k])
  PROVE  \A i \in Jobs : ~Builds(k, i) /\ ~Carries(k, i)
BY WatchRegisters DEF Builds, Registers, Carries

LEMMA WatchInstalledKept ==
  ASSUME SchedulerInv, NEW k \in Tasks, WatchInstalled(k)
  PROVE  SchedulerInv'
<1>1. JobsSound /\ TasksSound /\ Occurrences /\ Indexes /\ Queue /\ Wakes
  BY DEF SchedulerInv
<1>2. PICK j, to : j = task[k].job /\ to = Resolve(cache[j])
  OBVIOUS
<1>3. /\ Served(k) /\ task[k].at = "watch" /\ watch' = [watch EXCEPT ![RowOf[j]] = j]
      /\ UNCHANGED <<app, now, registry, names, entity, cache, updates, inbox, serve>>
      /\ \/ task' = [task EXCEPT ![k] = Idle] /\ dbq' = Tail(dbq) /\ UNCHANGED job
         \/ CallReschedule(k, j, job[j], to, Tail(dbq))
  BY <1>2 DEF WatchInstalled, sources
<1>4. /\ TaskTyped(task[k]) /\ TaskSound(k) /\ j \in Jobs /\ dbq # <<>> /\ Head(dbq) = k
      /\ \A i \in Jobs : ~Builds(k, i) /\ ~Carries(k, i)
  BY <1>1, <1>2, <1>3, ServedTask, WatchRegisters, WatcherHolds
<1>5. job[j].hasId /\ to \in Times \cup {WAITING}
  <2>1. cache[j] \in Times \cup {None}
    BY <1>1, <1>4 DEF Indexes
  <2>. QED BY <1>1, <1>2, <1>3, <1>4, <2>1, Resolved DEF TaskSound
<1>6. /\ OnlyTask(k) /\ AllJobs' /\ TaskSound(k)'
      /\ \A i \in Jobs : Respects(k, i) /\ HandsOn(k, i)
      /\ \A i \in Jobs : job'[i].heap = 0 \/ (job'[i].heap = job[i].heap /\ job'[i].key = job[i].key)
      /\ dbq' = Tail(dbq) \/ (dbq' = Append(Tail(dbq), k) /\ Queued(task'[k]))
  <2>1. CASE task' = [task EXCEPT ![k] = Idle] /\ dbq' = Tail(dbq) /\ UNCHANGED job
    <3>1. OnlyTask(k) /\ task'[k] = Idle
      BY <1>1, <2>1, OneTask
    <3>2. TaskSound(k)' /\ \A i \in Jobs : ~Builds(k, i)' /\ ~Carries(k, i)'
      BY <3>1, IdleSound
    <3>. QED BY <1>1, <1>4, <2>1, <3>1, <3>2, SameJobs
  <2>2. CASE CallReschedule(k, j, job[j], to, Tail(dbq))
    BY <1>1, <1>3, <1>4, <1>5, <2>2, Calls
  <2>. QED BY <1>3, <2>1, <2>2
<1>7. Indexes'
  <2>1. RowOf[j] \in Rows
    BY <1>4, Assumptions
  <2>2. \A i \in Jobs : (job[i].hasId => job'[i].hasId) /\ (Begun(job[i]) => Begun(job'[i]))
    BY <1>6 DEF Respects
  <2>3. /\ watch' \in [Rows -> Jobs \cup {None}]
        /\ \A i \in Rows : watch'[i] \in {None, watch[i]} \/ job'[watch'[i]].hasId
    BY <1>1, <1>3, <1>4, <1>5, <2>1, <2>2 DEF Indexes
  <2>4. /\ registry' \in [Rows -> Jobs \cup {None}] /\ names' \in [Rows -> Jobs \cup {None}]
        /\ now' \in 0..MaxTime /\ \A i \in Rows : names'[i] \in {None, names[i]}
    BY <1>1, <1>3 DEF Indexes
  <2>. QED BY <1>1, <1>3, <2>2, <2>3, <2>4, IndexesKept
<1>8. Queue'
  BY <1>1, <1>4, <1>6, QueueKept
<1>9. Wakes'
  BY <1>1, <1>3, <1>6, WakesKept
<1>. QED BY <1>3, <1>6, <1>7, <1>8, <1>9, StepKept

\* The first event is handled: what holds of the job of every event goes on to hold.
LEMMA InboxLess ==
  ASSUME Indexes, inbox # <<>>, \A j \in Jobs : job[j].hasId => job'[j].hasId, inbox' = Tail(inbox)
  PROVE  /\ inbox' \in Seq(Changes) /\ \A i \in 1..Len(inbox') : job'[inbox'[i].job].hasId
         /\ Head(inbox) \in Changes /\ job[Head(inbox).job].hasId
<1>1. inbox \in Seq(Changes) /\ \A i \in 1..Len(inbox) : job[inbox[i].job].hasId
  BY DEF Indexes
<1>2. /\ Len(inbox) \in Nat /\ Len(inbox) >= 1 /\ Len(inbox') = Len(inbox) - 1
      /\ inbox' \in Seq(Changes) /\ Head(inbox) = inbox[1] /\ 1 \in 1..Len(inbox)
      /\ \A i \in 1..Len(inbox') : i + 1 \in 1..Len(inbox) /\ inbox'[i] = inbox[i + 1]
  BY <1>1
<1>3. \A i \in 1..Len(inbox) : inbox[i] \in Changes
  BY <1>1
<1>4. \A i \in 1..Len(inbox) : inbox[i].job \in Jobs
  BY <1>3 DEF Changes
<1>. QED BY <1>1, <1>2, <1>3, <1>4

LEMMA HandlerStartKept ==
  ASSUME SchedulerInv, HandlerStart
  PROVE  SchedulerInv'
<1>1. JobsSound /\ TasksSound /\ Occurrences /\ Indexes /\ Queue /\ Wakes
  BY DEF SchedulerInv
<1>2. PICK k, e : k = NewTask /\ e = Head(inbox)
  OBVIOUS
<1>3. PICK to : to = Resolve(e.time)
  OBVIOUS
<1>4. /\ inbox # <<>> /\ Free # {} /\ inbox' = Tail(inbox)
      /\ UNCHANGED <<app, now, registry, names, watch, entity, cache, updates, serve>>
      /\ UNCHANGED <<job, task, dbq>> \/ CallReschedule(k, e.job, job[e.job], to, dbq)
  BY <1>2, <1>3 DEF HandlerStart, tables
<1>5. k \in Tasks /\ task[k].kind = "free"
  BY <1>2, <1>4, NewTaskIsFree
<1>6. /\ inbox \in Seq(Changes) /\ e \in Changes /\ e.job \in Jobs /\ job[e.job].hasId
      /\ to \in Times \cup {WAITING}
  <2>1. inbox \in Seq(Changes) /\ e = inbox[1] /\ 1 \in 1..Len(inbox)
    BY <1>1, <1>2, <1>4 DEF Indexes
  <2>2. e \in Changes /\ job[e.job].hasId
    BY <1>1, <2>1 DEF Indexes
  <2>3. e.job \in Jobs /\ e.time \in Times \cup {None}
    BY <2>2 DEF Changes
  <2>. QED BY <1>1, <1>3, <2>1, <2>2, <2>3, Resolved
<1>7. \A i \in Jobs : ~Builds(k, i) /\ ~Carries(k, i)
  BY <1>1, <1>5, FreeSound
<1>8. /\ OnlyTask(k) /\ AllJobs' /\ TaskSound(k)'
      /\ \A i \in Jobs : Respects(k, i) /\ HandsOn(k, i)
      /\ \A i \in Jobs : job'[i].heap = 0 \/ (job'[i].heap = job[i].heap /\ job'[i].key = job[i].key)
      /\ (dbq' = dbq /\ (Queued(task[k]) => Queued(task'[k]))) \/ (dbq' = Append(dbq, k) /\ Queued(task'[k]))
  <2>1. CASE UNCHANGED <<job, task, dbq>>
    <3>1. OnlyTask(k) /\ task'[k] = task[k] /\ TaskSound(k)
      BY <1>1, <1>5, <2>1 DEF OnlyTask, TasksSound
    <3>2. TaskSound(k)' /\ \A i \in Jobs : (Builds(k, i)' => Builds(k, i)) /\ (Carries(k, i)' <=> Carries(k, i))
      BY <2>1, <3>1 DEF TaskSound, Builds, Registers, Carries, Begun
    <3>. QED BY <1>1, <1>5, <2>1, <3>1, <3>2, SameJobs
  <2>2. CASE CallReschedule(k, e.job, job[e.job], to, dbq)
    <3>1. ~Queued(task[k])
      BY <1>1, <1>5, FreeSound
    <3>. QED BY <1>1, <1>4, <1>5, <1>6, <1>7, <2>2, <3>1, Calls
  <2>. QED BY <1>4, <2>1, <2>2
<1>9. Indexes'
  <2>1. \A i \in Jobs : (job[i].hasId => job'[i].hasId) /\ (Begun(job[i]) => Begun(job'[i]))
    BY <1>8 DEF Respects
  <2>2. inbox' \in Seq(Changes) /\ \A i \in 1..Len(inbox') : job'[inbox'[i].job].hasId
    BY <1>1, <1>4, <2>1, InboxLess
  <2>3. \A i \in Rows : /\ names'[i] # None => names[i] \in Jobs /\ Begun(job'[names'[i]])
                        /\ watch'[i] # None => watch[i] \in Jobs /\ job'[watch'[i]].hasId
    BY <1>1, <1>4, <2>1 DEF Indexes
  <2>. QED BY <1>1, <1>4, <2>2, <2>3 DEF Indexes, Begun
<1>10. Queue'
  BY <1>1, <1>5, <1>8, FreeSound, QueueKept
<1>11. Wakes'
  BY <1>1, <1>4, <1>8, WakesKept
<1>. QED BY <1>4, <1>5, <1>8, <1>9, <1>10, <1>11, StepKept

----------------------------------------------------------------------------
(* Removal *)

\* What _remove_from_live_state() does to the indexes.
LEMMA IndexRemoved ==
  ASSUME Indexes, NEW j \in Jobs, RemoveFromLiveState(j)
  PROVE  /\ registry' \in [Rows -> Jobs \cup {None}] /\ names' \in [Rows -> Jobs \cup {None}]
         /\ watch' \in [Rows -> Jobs \cup {None}]
         /\ \A i \in Rows : names'[i] \in {None, names[i]} /\ watch'[i] \in {None, watch[i]}
         /\ serve' \in {serve, Kicked}
<1>1. RowOf[j] \in Rows
  BY Assumptions
<1>2. registry' \in [Rows -> Jobs \cup {None}]
  BY <1>1 DEF RemoveFromLiveState, Deregistered, Indexes
<1>3. names' \in [Rows -> Jobs \cup {None}] /\ \A i \in Rows : names'[i] \in {None, names[i]}
  BY <1>1 DEF RemoveFromLiveState, Indexes
<1>4. watch' \in [Rows -> Jobs \cup {None}] /\ \A i \in Rows : watch'[i] \in {None, watch[i]}
  BY <1>1 DEF RemoveFromLiveState, Indexes
<1>. QED BY <1>2, <1>3, <1>4 DEF RemoveFromLiveState

LEMMA LiveRemovedFacts ==
  ASSUME JobsSound, NEW j \in Jobs
  PROVE  /\ JobSound(LiveRemoved(j)) /\ LiveRemoved(j).heap = 0 /\ LiveRemoved(j).dequeued
         /\ SameStage(job[j], LiveRemoved(j))
BY RemovedFacts DEF LiveRemoved, JobsSound

LEMMA RemovedJob ==
  ASSUME JobsSound, TasksSound, NEW k \in Tasks, NEW j \in Jobs, job'[j] = LiveRemoved(j),
         Builds(k, j)' => Builds(k, j)
  PROVE  Respects(k, j) /\ HandsOn(k, j) /\ job'[j].heap = 0
<1>1. /\ JobSound(job'[j]) /\ job'[j].heap = 0 /\ job'[j].dequeued
      /\ SameStage(job[j], job'[j])
  BY LiveRemovedFacts
<1>. QED BY <1>1 DEF Respects, HandsOn, SameStage, Begun, TasksSound

\* A step that removes job j and otherwise moves task k.
LEMMA RemovalKept ==
  ASSUME SchedulerInv, UNCHANGED <<app, now, entity, cache, updates, inbox>>,
         NEW k \in Tasks, NEW j \in Jobs, RemoveFromLiveState(j), job' = [job EXCEPT ![j] = LiveRemoved(j)],
         OnlyTask(k), TaskSound(k)', Queue',
         \A i \in Jobs : (Builds(k, i)' => Builds(k, i)) /\ (i # j => (Carries(k, i)' <=> Carries(k, i)))
  PROVE  SchedulerInv'
<1>1. JobsSound /\ TasksSound /\ Occurrences /\ Indexes /\ Queue /\ Wakes
  BY DEF SchedulerInv
<1>2. AllJobs' /\ job'[j] = LiveRemoved(j) /\ \A i \in Jobs : i # j => job'[i] = job[i]
  BY <1>1, OneJob
<1>3. ASSUME NEW i \in Jobs PROVE Respects(k, i) /\ HandsOn(k, i)
  <2>1. CASE i = j
    BY <1>1, <1>2, <2>1, RemovedJob
  <2>2. CASE i # j
    BY <1>1, <1>2, <2>2, Untouched
  <2>. QED BY <2>1, <2>2
<1>4. /\ registry' \in [Rows -> Jobs \cup {None}] /\ names' \in [Rows -> Jobs \cup {None}]
      /\ watch' \in [Rows -> Jobs \cup {None}]
      /\ \A i \in Rows : names'[i] \in {None, names[i]} /\ watch'[i] \in {None, watch[i]}
      /\ serve' \in {serve, Kicked}
  BY <1>1, IndexRemoved
<1>5. Indexes'
  <2>1. \A i \in Jobs : (job[i].hasId => job'[i].hasId) /\ (Begun(job[i]) => Begun(job'[i]))
    BY <1>3 DEF Respects
  <2>2. now' \in 0..MaxTime
    BY <1>1 DEF Indexes
  <2>. QED BY <1>1, <1>4, <2>1, <2>2, IndexesKept
<1>6. Wakes'
  <2>1. job'[j].heap = 0
    BY <1>1, <1>2, LiveRemovedFacts
  <2>. QED BY <1>1, <1>2, <1>4, <2>1, WakesKept
<1>. QED BY <1>2, <1>3, <1>5, <1>6, StepKept

\* A task that goes on to finish the removal of j.
LEMMA Removers ==
  ASSUME TasksSound, NEW k \in Tasks, NEW j \in Jobs, task' = [task EXCEPT ![k] = Spawn("remove", j, "release")]
  PROVE  /\ OnlyTask(k) /\ TaskSound(k)' /\ \A i \in Jobs : ~Builds(k, i)' /\ ~Carries(k, i)'
<1>. DEFINE t == Spawn("remove", j, "release")
<1>1. t = [kind |-> "remove", job |-> j, at |-> "release", rest |-> {}, wrote |-> None]
  BY SpawnFacts
<1>. HIDE DEF t
<1>2. OnlyTask(k) /\ task'[k] = t
  BY OneTask DEF t
<1>3. TaskTyped(t) /\ t.kind = "remove"
  BY <1>1 DEF TaskTyped, TaskRecord
<1>. QED BY <1>2, <1>3, RemoverSound

LEMMA RemoveJobKept ==
  ASSUME SchedulerInv, NEW j \in Jobs, RemoveJob(j)
  PROVE  SchedulerInv'
<1>1. TasksSound /\ Queue
  BY DEF SchedulerInv
<1>2. PICK k : k = NewTask
  OBVIOUS
<1>3. /\ Free # {} /\ RemoveFromLiveState(j) /\ job' = [job EXCEPT ![j] = LiveRemoved(j)]
      /\ task' = [task EXCEPT ![k] = Spawn("remove", j, "release")]
      /\ UNCHANGED <<app, now, entity, cache, updates, inbox, dbq>>
  BY <1>2 DEF RemoveJob, sources
<1>4. k \in Tasks /\ task[k].kind = "free"
  BY <1>2, <1>3, NewTaskIsFree
<1>5. (\A i \in Jobs : ~Builds(k, i) /\ ~Carries(k, i)) /\ ~Queued(task[k])
  BY <1>1, <1>4, FreeSound
<1>6. /\ OnlyTask(k) /\ TaskSound(k)' /\ \A i \in Jobs : ~Builds(k, i)' /\ ~Carries(k, i)'
  BY <1>1, <1>3, <1>4, Removers
<1>7. Queue'
  BY <1>1, <1>3, <1>4, <1>5, <1>6, QueueKept
<1>. QED BY <1>3, <1>4, <1>5, <1>6, <1>7, RemovalKept

LEMMA WatchFailsKept ==
  ASSUME SchedulerInv, NEW k \in Tasks, WatchFails(k)
  PROVE  SchedulerInv'
<1>1. JobsSound /\ TasksSound /\ Occurrences /\ Indexes /\ Queue /\ Wakes
  BY DEF SchedulerInv
<1>2. PICK j : j = task[k].job
  OBVIOUS
<1>3. /\ Served(k) /\ task[k].at = "watch" /\ dbq' = Tail(dbq)
      /\ UNCHANGED <<app, now, entity, cache, updates, inbox>>
      /\ \/ /\ task' = [task EXCEPT ![k] = Idle]
            /\ UNCHANGED <<job, registry, names, watch, serve>>
         \/ /\ RemoveFromLiveState(j)
            /\ job' = [job EXCEPT ![j] = LiveRemoved(j)]
            /\ task' = [task EXCEPT ![k] = Spawn("remove", j, "release")]
  BY <1>2 DEF WatchFails, sources
<1>4. /\ TaskTyped(task[k]) /\ j \in Jobs /\ dbq # <<>> /\ Head(dbq) = k
      /\ \A i \in Jobs : ~Builds(k, i) /\ ~Carries(k, i)
  BY <1>1, <1>2, <1>3, ServedTask, WatchRegisters, WatcherHolds
<1>5. CASE /\ task' = [task EXCEPT ![k] = Idle]
           /\ UNCHANGED <<job, registry, names, watch, serve>>
  <2>1. OnlyTask(k) /\ task'[k] = Idle
    BY <1>1, <1>5, OneTask
  <2>2. TaskSound(k)' /\ \A i \in Jobs : ~Builds(k, i)' /\ ~Carries(k, i)'
    BY <2>1, IdleSound
  <2>3. AllJobs' /\ \A i \in Jobs : Respects(k, i) /\ HandsOn(k, i)
    BY <1>1, <1>4, <1>5, <2>2, SameJobs
  <2>4. Indexes'
    BY <1>1, <1>3, <1>5 DEF Indexes, Begun
  <2>5. Queue'
    BY <1>1, <1>3, <1>4, <2>1, QueueKept
  <2>6. Wakes'
    BY <1>1, <1>5 DEF Wakes, SleepNeverPastDue
  <2>. QED BY <1>3, <2>1, <2>2, <2>3, <2>4, <2>5, <2>6, StepKept
<1>6. CASE /\ RemoveFromLiveState(j)
           /\ job' = [job EXCEPT ![j] = LiveRemoved(j)]
           /\ task' = [task EXCEPT ![k] = Spawn("remove", j, "release")]
  <2>1. /\ OnlyTask(k) /\ TaskSound(k)' /\ \A i \in Jobs : ~Builds(k, i)' /\ ~Carries(k, i)'
    BY <1>1, <1>4, <1>6, Removers
  <2>2. Queue'
    BY <1>1, <1>3, <1>4, <2>1, QueueKept
  <2>. QED BY <1>3, <1>4, <1>6, <2>1, <2>2, RemovalKept
<1>. QED BY <1>3, <1>5, <1>6

LEMMA RegistrationFailsKept ==
  ASSUME SchedulerInv, NEW k \in Tasks, RegistrationFails(k)
  PROVE  SchedulerInv'
<1>1. JobsSound /\ TasksSound /\ Occurrences /\ Indexes /\ Queue /\ Wakes
  BY DEF SchedulerInv
<1>2. PICK j : j = task[k].job
  OBVIOUS
<1>3. /\ Served(k) /\ task[k].kind = "register" /\ task[k].at = "db"
      /\ RemoveFromLiveState(j) /\ job' = [job EXCEPT ![j] = LiveRemoved(j)]
      /\ task' = [task EXCEPT ![k] = Idle] /\ dbq' = Tail(dbq)
      /\ UNCHANGED <<app, now, entity, cache, updates, inbox>>
  BY <1>2 DEF RegistrationFails, sources
<1>4. TaskTyped(task[k]) /\ j \in Jobs /\ dbq # <<>> /\ Head(dbq) = k
  BY <1>1, <1>2, <1>3, ServedTask, WatchRegisters
<1>5. OnlyTask(k) /\ task'[k] = Idle
  BY <1>1, <1>3, OneTask
<1>6. TaskSound(k)' /\ \A i \in Jobs : ~Builds(k, i)' /\ ~Carries(k, i)'
  BY <1>5, IdleSound
<1>7. \A i \in Jobs : i # j => ~Carries(k, i)
  BY <1>2 DEF Carries
<1>8. Queue'
  BY <1>1, <1>3, <1>4, <1>5, QueueKept
<1>. QED BY <1>3, <1>4, <1>5, <1>6, <1>7, <1>8, RemovalKept

\* A step that changes no job and only empties indexes.
LEMMA QuietStep ==
  ASSUME SchedulerInv, UNCHANGED <<app, now, job, registry, entity, cache, updates, inbox, serve>>,
         NEW k \in Tasks, OnlyTask(k), TaskSound(k)', Queue',
         \A i \in Jobs : (Builds(k, i)' => Builds(k, i)) /\ (Carries(k, i)' <=> Carries(k, i)),
         UNCHANGED <<names, watch>> \/ (names' = [r \in Rows |-> None] /\ watch' = [r \in Rows |-> None])
  PROVE  SchedulerInv'
<1>1. JobsSound /\ TasksSound /\ Occurrences /\ Indexes /\ Queue /\ Wakes
  BY DEF SchedulerInv
<1>2. AllJobs' /\ \A i \in Jobs : Respects(k, i) /\ HandsOn(k, i)
  BY <1>1, SameJobs
<1>3. Indexes'
  <2>1. /\ names' \in [Rows -> Jobs \cup {None}] /\ watch' \in [Rows -> Jobs \cup {None}]
        /\ \A i \in Rows : names'[i] \in {None, names[i]} /\ watch'[i] \in {None, watch[i]}
    BY <1>1 DEF Indexes
  <2>2. registry' \in [Rows -> Jobs \cup {None}] /\ now' \in 0..MaxTime
    BY <1>1 DEF Indexes
  <2>. QED BY <1>1, <2>1, <2>2, IndexesKept
<1>4. Wakes'
  BY <1>1 DEF Wakes, SleepNeverPastDue
<1>. QED BY <1>2, <1>3, <1>4, StepKept

LEMMA RemoveAllJobsKept ==
  ASSUME SchedulerInv, RemoveAllJobs
  PROVE  SchedulerInv'
<1>1. JobsSound /\ TasksSound /\ Occurrences /\ Indexes /\ Queue /\ Wakes
  BY DEF SchedulerInv
<1>2. PICK k, all : k = NewTask /\ all = {names[r] : r \in Rows} \ {None}
  OBVIOUS
<1>3. /\ Free # {} /\ names' = [r \in Rows |-> None] /\ watch' = [r \in Rows |-> None]
      /\ task' = [task EXCEPT ![k] = [Spawn("removeall", None, "next") EXCEPT !.rest = all]]
      /\ UNCHANGED <<app, now, job, registry, entity, cache, updates, inbox, serve, dbq>>
  BY <1>2 DEF RemoveAllJobs, sources
<1>4. k \in Tasks /\ task[k].kind = "free"
  BY <1>2, <1>3, NewTaskIsFree
<1>5. (\A i \in Jobs : ~Builds(k, i) /\ ~Carries(k, i)) /\ ~Queued(task[k])
  BY <1>1, <1>4, FreeSound
<1>6. all \subseteq Jobs /\ \A i \in all : Begun(job[i])
  BY <1>1, <1>2 DEF Indexes
<1>. DEFINE t == [Spawn("removeall", None, "next") EXCEPT !.rest = all]
<1>7. t = [kind |-> "removeall", job |-> None, at |-> "next", rest |-> all, wrote |-> None]
  BY DEF Spawn
<1>11. task' = [task EXCEPT ![k] = t]
  BY <1>3
<1>. HIDE DEF t
<1>8. OnlyTask(k) /\ task'[k] = t
  BY <1>1, <1>4, <1>11, OneTask
<1>9. TaskSound(k)' /\ \A i \in Jobs : ~Builds(k, i)' /\ ~Carries(k, i)'
  <2>1. TaskTyped(t)
    BY <1>6, <1>7 DEF TaskTyped, TaskRecord
  <2>. QED BY <1>3, <1>6, <1>7, <1>8, <2>1 DEF TaskSound, Builds, Registers, Carries, Begun
<1>10. Queue'
  BY <1>1, <1>3, <1>4, <1>5, <1>8, QueueKept
<1>. QED BY <1>3, <1>4, <1>5, <1>8, <1>9, <1>10, QuietStep

LEMMA RemoveNextKept ==
  ASSUME SchedulerInv, NEW k \in Tasks, RemoveNext(k)
  PROVE  SchedulerInv'
<1>1. JobsSound /\ TasksSound /\ Occurrences /\ Indexes /\ Queue /\ Wakes
  BY DEF SchedulerInv
<1>2. task[k].at = "next" /\ UNCHANGED <<app, now, entity, cache, updates, inbox, dbq>>
  BY DEF RemoveNext, sources
<1>3. TaskTyped(task[k]) /\ TaskSound(k) /\ task[k].kind = "removeall"
  BY <1>1, <1>2, WatchRegisters DEF TasksSound, TaskSound
<1>4. (\A i \in Jobs : ~Builds(k, i) /\ ~Carries(k, i)) /\ ~Queued(task[k])
  BY <1>2, <1>3 DEF Builds, Registers, Carries, Queued
<1>5. CASE task' = [task EXCEPT ![k] = Idle] /\ UNCHANGED <<job, registry, names, watch, serve>>
  <2>1. OnlyTask(k) /\ task'[k] = Idle
    BY <1>1, <1>5, OneTask
  <2>2. TaskSound(k)' /\ \A i \in Jobs : ~Builds(k, i)' /\ ~Carries(k, i)'
    BY <2>1, IdleSound
  <2>3. Queue'
    BY <1>1, <1>2, <1>4, <2>1, QueueKept
  <2>. QED BY <1>2, <1>4, <1>5, <2>1, <2>2, <2>3, QuietStep
<1>6. ASSUME NEW j \in task[k].rest, RemoveFromLiveState(j), job' = [job EXCEPT ![j] = LiveRemoved(j)],
             task' = [task EXCEPT ![k].job = j, ![k].at = "release", ![k].rest = @ \ {j}]
      PROVE  SchedulerInv'
  <2>1. j \in Jobs /\ task[k].rest \subseteq Jobs
    BY <1>3 DEF TaskTyped, TaskRecord
  <2>. DEFINE t == [task[k] EXCEPT !.job = j, !.at = "release", !.rest = @ \ {j}]
  <2>2. TaskTyped(t) /\ t.kind = "removeall" /\ t.at = "release" /\ t.rest \subseteq task[k].rest
    BY <1>3, <2>1 DEF TaskTyped, TaskRecord
  <2>3. task' = [task EXCEPT ![k] = t]
    BY <1>6
  <2>. HIDE DEF t
  <2>4. OnlyTask(k) /\ task'[k] = t
    BY <1>1, <2>3, OneTask
  <2>5. \A i \in Jobs : ~Builds(k, i)' /\ ~Carries(k, i)' /\ ~Registers(k, i)'
    BY <2>2, <2>4 DEF Builds, Registers, Carries
  <2>6. TaskSound(k)'
    <3>1. \A i \in Jobs : Begun(job[i]) => Begun(job'[i])
      <4>1. AllJobs' /\ job'[j] = LiveRemoved(j) /\ \A i \in Jobs : i # j => job'[i] = job[i]
        BY <1>1, <1>6, <2>1, OneJob
      <4>. QED BY <1>1, <2>1, <4>1, LiveRemovedFacts DEF SameStage, Begun
    <3>2. \A i \in t.rest : Begun(job'[i])
      BY <1>3, <2>1, <2>2, <3>1 DEF TaskSound
    <3>. QED BY <2>2, <2>4, <2>5, <3>2 DEF TaskSound, Begun
  <2>7. Queue'
    BY <1>1, <1>2, <1>4, <2>4, QueueKept
  <2>. QED BY <1>2, <1>4, <1>6, <2>1, <2>4, <2>5, <2>6, <2>7, RemovalKept
<1>. QED BY <1>5, <1>6 DEF RemoveNext

LEMMA ReplaceJobKept ==
  ASSUME SchedulerInv, NEW j \in Jobs, ReplaceJob(j)
  PROVE  SchedulerInv'
<1>1. JobsSound /\ TasksSound /\ Occurrences /\ Indexes /\ Queue /\ Wakes
  BY DEF SchedulerInv
<1>2. PICK k, old : k = NewTask /\ old = names[RowOf[j]]
  OBVIOUS
<1>3. /\ Free # {} /\ job[j].status = "new" /\ old # None /\ RemoveFromLiveState(old)
      /\ UNCHANGED <<app, now, entity, cache, updates, inbox, dbq>>
  BY <1>2 DEF ReplaceJob, sources
<1>4. PICK f \in FirstRuns(j) :
        /\ job' = [job EXCEPT ![old] = LiveRemoved(old), ![j] = Transition(@, "building", f[2])]
        /\ task' = [task EXCEPT ![k] = [Spawn("replace", old, "release") EXCEPT !.rest = {j}, !.wrote = f[1]]]
  BY <1>2 DEF ReplaceJob
<1>5. k \in Tasks /\ task[k].kind = "free"
  BY <1>2, <1>3, NewTaskIsFree
<1>6. old \in Jobs /\ Begun(job[old]) /\ old # j
  <2>1. RowOf[j] \in Rows
    BY Assumptions
  <2>2. old \in Jobs /\ Begun(job[old])
    BY <1>1, <1>2, <1>3, <2>1 DEF Indexes
  <2>. QED BY <1>3, <2>2 DEF Begun
<1>7. /\ f[1] \in {"manual", "waiting", "scheduled"} /\ f[2] \in Times \cup {None}
      /\ f[1] = "scheduled" => f[2] # None
  BY <1>1, FirstRun
<1>. DEFINE s == Transition(job[j], "building", f[2])
            d == LiveRemoved(old)
<1>8. /\ JobSound(s) /\ s.heap = 0 /\ s.status = "building" /\ s.next = f[2] /\ ~s.hasId
      /\ ~job[j].hasId /\ s.dequeued = job[j].dequeued
  <2>1. JobSound(job[j]) /\ job[j].heap = 0 /\ ~job[j].hasId
    BY <1>1, <1>3 DEF JobsSound, JobSound, JobRecord, Begun
  <2>2. "building" \in Statuses
    BY DEF Statuses
  <2>. QED BY <1>7, <2>1, <2>2, TransitionFacts
<1>9. AllJobs' /\ job'[old] = d /\ job'[j] = s /\ \A i \in Jobs : i \notin {j, old} => job'[i] = job[i]
  BY <1>1, <1>4, <1>6 DEF JobsSound, AllJobs
<1>. HIDE DEF s
<1>. DEFINE t == [Spawn("replace", old, "release") EXCEPT !.rest = {j}, !.wrote = f[1]]
<1>10. t = [kind |-> "replace", job |-> old, at |-> "release", rest |-> {j}, wrote |-> f[1]]
  <2>. DEFINE u == Spawn("replace", old, "release")
  <2>1. u = [kind |-> "replace", job |-> old, at |-> "release", rest |-> {}, wrote |-> None]
    BY DEF Spawn
  <2>2. t = [u EXCEPT !.rest = {j}, !.wrote = f[1]]
    OBVIOUS
  <2>. HIDE DEF u, t
  <2>. QED BY <2>1, <2>2
<1>11. task' = [task EXCEPT ![k] = t]
  BY <1>4
<1>. HIDE DEF t
<1>12. OnlyTask(k) /\ task'[k] = t
  BY <1>1, <1>5, <1>11, OneTask
<1>13. (\A i \in Jobs : ~Builds(k, i) /\ ~Carries(k, i)) /\ ~Queued(task[k])
  BY <1>1, <1>5, FreeSound
<1>14. \A i \in Jobs : ~Registers(k, i)' /\ ~Carries(k, i)' /\ (i # j => ~Builds(k, i)')
  BY <1>10, <1>12 DEF Builds, Registers, Carries
<1>15. TaskSound(k)'
  <2>1. TaskTyped(t)
    BY <1>6, <1>7, <1>10 DEF TaskTyped, TaskRecord, Statuses
  <2>2. t.kind = "replace" /\ t.at = "release" /\ t.rest = {j} /\ t.wrote = f[1]
    BY <1>10
  <2>. QED BY <1>7, <1>8, <1>9, <1>12, <1>14, <2>1, <2>2 DEF TaskSound
<1>16. ASSUME NEW i \in Jobs PROVE Respects(k, i) /\ HandsOn(k, i)
  <2>1. CASE i = j
    <3>1. \A n \in Tasks : ~Builds(n, j)
      BY <1>1, <1>3, BuiltByNone
    <3>2. Respects(k, j)
      BY <1>3, <1>8, <1>9, <3>1 DEF Respects, Begun
    <3>3. HandsOn(k, j)
      BY <1>3, <1>8, <1>9, <1>14 DEF HandsOn
    <3>. QED BY <2>1, <3>2, <3>3
  <2>2. CASE i = old
    BY <1>1, <1>5, <1>6, <1>9, <1>14, <2>2, RemovedJob
  <2>3. CASE i \notin {j, old}
    BY <1>1, <1>5, <1>9, <1>13, <1>14, <2>3, Untouched
  <2>. QED BY <2>1, <2>2, <2>3
<1>17. /\ registry' \in [Rows -> Jobs \cup {None}] /\ names' \in [Rows -> Jobs \cup {None}]
       /\ watch' \in [Rows -> Jobs \cup {None}]
       /\ \A i \in Rows : names'[i] \in {None, names[i]} /\ watch'[i] \in {None, watch[i]}
       /\ serve' \in {serve, Kicked}
  BY <1>1, <1>3, <1>6, IndexRemoved
<1>18. Indexes'
  <2>1. \A i \in Jobs : (job[i].hasId => job'[i].hasId) /\ (Begun(job[i]) => Begun(job'[i]))
    BY <1>16 DEF Respects
  <2>2. now' \in 0..MaxTime
    BY <1>1, <1>3 DEF Indexes
  <2>. QED BY <1>1, <1>3, <1>17, <2>1, <2>2, IndexesKept
<1>19. Queue'
  BY <1>1, <1>3, <1>5, <1>12, <1>13, QueueKept
<1>20. Wakes'
  <2>1. job'[old].heap = 0 /\ job'[j].heap = 0
    BY <1>1, <1>6, <1>8, <1>9, LiveRemovedFacts
  <2>2. \A i \in Jobs : job'[i].heap = 0 \/ job'[i] = job[i]
    BY <1>9, <2>1
  <2>. QED BY <1>1, <1>17, <2>2, WakesKept
<1>. QED BY <1>3, <1>5, <1>9, <1>12, <1>15, <1>16, <1>18, <1>19, <1>20, StepKept

\* What a removal task goes on to do.
LEMMA RemovalDoneKept ==
  ASSUME SchedulerInv, UNCHANGED <<app, now, registry, watch, entity, cache, updates, inbox, serve>>,
         NEW k \in Tasks, NEW queue, RemovalDone(k, queue), TaskTyped(task[k]),
         task[k].kind \in {"remove", "replace", "removeall"},
         \/ queue = dbq /\ ~Queued(task[k])
         \/ dbq # <<>> /\ Head(dbq) = k /\ queue = Tail(dbq)
  PROVE  SchedulerInv'
<1>1. JobsSound /\ TasksSound /\ Occurrences /\ Indexes /\ Queue /\ Wakes /\ TaskSound(k)
  BY DEF SchedulerInv, TasksSound
<1>2. \A i \in Jobs : ~Carries(k, i) /\ ~Registers(k, i)
  BY DEF Carries, Registers
<1>4. CASE task[k].kind = "remove"
  <2>1. task' = [task EXCEPT ![k] = Idle] /\ dbq' = queue /\ UNCHANGED <<names, job>>
    BY <1>4 DEF RemovalDone
  <2>2. OnlyTask(k) /\ task'[k] = Idle
    BY <1>1, <2>1, OneTask
  <2>3. TaskSound(k)' /\ \A i \in Jobs : ~Builds(k, i)' /\ ~Carries(k, i)'
    BY <2>2, IdleSound
  <2>4. Queue'
    BY <1>1, <2>1, <2>2, QueueKept
  <2>. QED BY <1>2, <2>1, <2>2, <2>3, <2>4, QuietStep
<1>5. CASE task[k].kind = "removeall"
  <2>1. task' = [task EXCEPT ![k].at = "next"] /\ dbq' = queue /\ UNCHANGED <<names, job>>
    BY <1>5 DEF RemovalDone
  <2>. DEFINE t == [task[k] EXCEPT !.at = "next"]
  <2>2. TaskTyped(t) /\ t.kind = "removeall" /\ t.at = "next" /\ t.rest = task[k].rest
    BY <1>5 DEF TaskTyped, TaskRecord
  <2>3. task' = [task EXCEPT ![k] = t]
    BY <2>1
  <2>. HIDE DEF t
  <2>4. OnlyTask(k) /\ task'[k] = t
    BY <1>1, <2>3, OneTask
  <2>5. \A i \in Jobs : ~Builds(k, i)' /\ ~Carries(k, i)' /\ ~Registers(k, i)'
    BY <2>2, <2>4 DEF Builds, Registers, Carries
  <2>6. TaskSound(k)'
    BY <1>1, <1>5, <2>1, <2>2, <2>4, <2>5 DEF TaskSound, Begun
  <2>7. Queue'
    BY <1>1, <2>1, <2>4, QueueKept
  <2>. QED BY <1>2, <2>1, <2>4, <2>5, <2>6, <2>7, QuietStep
<1>6. CASE task[k].kind = "replace"
  <2>1. PICK j \in task[k].rest : StartRegistration(k, j, Built(k, j), queue)
    BY <1>6 DEF RemovalDone
  <2>2. /\ j \in Jobs /\ Builds(k, j) /\ job[j].status = "building"
        /\ task[k].wrote \in {"scheduled", "waiting", "manual"}
        /\ task[k].wrote = "scheduled" => job[j].next # None
    BY <1>1, <1>6, <2>1 DEF TaskSound, TaskTyped, TaskRecord, Builds
  <2>. DEFINE r == Built(k, j)
  <2>3. JobSound(job[j]) /\ job[j].heap = 0 /\ ~job[j].hasId /\ job[j].next \in Times \cup {None}
    BY <1>1, <2>2 DEF JobsSound, JobSound, JobRecord, Begun
  <2>4. JobSound(r) /\ r.heap = 0 /\ r.status = task[k].wrote /\ ~r.hasId /\ r.dequeued = job[j].dequeued
    <3>1. task[k].wrote \in Statuses
      BY <2>2 DEF Statuses
    <3>2. r = Transition(job[j], task[k].wrote, job[j].next)
      BY DEF Built
    <3>3. LET u == Transition(job[j], task[k].wrote, job[j].next)
          IN  JobSound(u) /\ u.heap = 0 /\ u.status = task[k].wrote /\ u.hasId = job[j].hasId
              /\ u.dequeued = job[j].dequeued
      BY <2>2, <2>3, <3>1, TransitionFacts
    <3>. QED BY <2>3, <3>2, <3>3
  <2>5. StartRegistration(k, j, r, queue)
    BY <2>1
  <2>. HIDE DEF r
  <2>6. \A i \in Tasks : i # k => ~Builds(i, j)
    BY <1>1, <2>2 DEF TasksSound
  <2>7. /\ OnlyTask(k) /\ AllJobs' /\ TaskSound(k)' /\ Queued(task'[k])
        /\ \A i \in Jobs : Respects(k, i) /\ HandsOn(k, i)
        /\ Begun(job'[j]) /\ job'[j].heap = 0 /\ \A i \in Jobs : i # j => job'[i] = job[i]
    BY <1>1, <1>2, <2>2, <2>4, <2>5, <2>6, Starts
  <2>8. names' = [names EXCEPT ![RowOf[j]] = j] /\ dbq' = Append(queue, k)
    BY <2>5 DEF StartRegistration
  <2>9. Indexes'
    <3>1. RowOf[j] \in Rows
      BY <2>2, Assumptions
    <3>2. /\ names' \in [Rows -> Jobs \cup {None}]
          /\ \A i \in Rows : names'[i] \in {None, names[i]} \/ Begun(job'[names'[i]])
      BY <1>1, <2>2, <2>7, <2>8, <3>1 DEF Indexes
    <3>3. \A i \in Jobs : (job[i].hasId => job'[i].hasId) /\ (Begun(job[i]) => Begun(job'[i]))
      BY <2>7 DEF Respects
    <3>4. /\ registry' \in [Rows -> Jobs \cup {None}] /\ watch' \in [Rows -> Jobs \cup {None}]
          /\ now' \in 0..MaxTime /\ \A i \in Rows : watch'[i] \in {None, watch[i]}
      BY <1>1 DEF Indexes
    <3>. QED BY <1>1, <3>2, <3>3, <3>4, IndexesKept
  <2>10. Queue'
    BY <1>1, <2>7, <2>8, QueueKept
  <2>11. Wakes'
    BY <1>1, <2>7, WakesKept
  <2>. QED BY <2>7, <2>9, <2>10, <2>11, StepKept
<1>. QED BY <1>4, <1>5, <1>6

LEMMA GuardReleasedKept ==
  ASSUME SchedulerInv, NEW k \in Tasks, GuardReleased(k)
  PROVE  SchedulerInv'
<1>1. JobsSound /\ TasksSound /\ Occurrences /\ Indexes /\ Queue /\ Wakes
  BY DEF SchedulerInv
<1>2. /\ task[k].at = "release"
      /\ UNCHANGED <<app, now, registry, watch, entity, cache, updates, inbox, serve>>
      /\ \/ task' = [task EXCEPT ![k].at = "db"] /\ dbq' = Append(dbq, k) /\ UNCHANGED <<names, job>>
         \/ RemovalDone(k, dbq)
  BY DEF GuardReleased, sources
<1>3. /\ TaskTyped(task[k]) /\ TaskSound(k) /\ task[k].kind \in {"remove", "replace", "removeall"}
      /\ ~Queued(task[k])
  BY <1>1, <1>2, WatchRegisters DEF TasksSound, TaskSound, Queued
<1>4. CASE task' = [task EXCEPT ![k].at = "db"] /\ dbq' = Append(dbq, k) /\ UNCHANGED <<names, job>>
  <2>. DEFINE t == [task[k] EXCEPT !.at = "db"]
  <2>1. /\ TaskTyped(t) /\ t.kind = task[k].kind /\ t.at = "db" /\ t.rest = task[k].rest
        /\ t.wrote = task[k].wrote
    BY <1>2, <1>3, WatchRegisters DEF TaskTyped, TaskRecord
  <2>2. task' = [task EXCEPT ![k] = t]
    BY <1>4
  <2>. HIDE DEF t
  <2>3. OnlyTask(k) /\ task'[k] = t /\ Queued(task'[k])
    BY <1>1, <2>1, <2>2, OneTask DEF Queued
  <2>4. \A i \in Jobs : /\ ~Registers(k, i)' /\ ~Carries(k, i)' /\ ~Carries(k, i)
                        /\ Builds(k, i)' => Builds(k, i)
    BY <1>3, <2>1, <2>3 DEF Builds, Registers, Carries
  <2>5. TaskSound(k)'
    BY <1>3, <1>4, <2>1, <2>3, <2>4 DEF TaskSound, Begun
  <2>6. Queue'
    BY <1>1, <1>3, <1>4, <2>3, QueueKept
  <2>. QED BY <1>2, <1>4, <2>3, <2>4, <2>5, <2>6, QuietStep
<1>5. CASE RemovalDone(k, dbq)
  BY <1>2, <1>3, <1>5, RemovalDoneKept
<1>. QED BY <1>2, <1>4, <1>5

LEMMA RemovalWrittenKept ==
  ASSUME SchedulerInv, NEW k \in Tasks, RemovalWritten(k)
  PROVE  SchedulerInv'
<1>1. TasksSound /\ Queue
  BY DEF SchedulerInv
<1>2. /\ Served(k) /\ task[k].kind \in {"remove", "replace", "removeall"} /\ RemovalDone(k, Tail(dbq))
      /\ UNCHANGED <<app, now, registry, watch, entity, cache, updates, inbox, serve>>
  BY DEF RemovalWritten, sources
<1>3. TaskTyped(task[k]) /\ dbq # <<>> /\ Head(dbq) = k
  BY <1>1, <1>2, ServedTask
<1>. QED BY <1>2, <1>3, RemovalDoneKept

----------------------------------------------------------------------------
(* Dispatch and the writes that land *)

LEMMA OccurrenceTyped ==
  ASSUME JobsSound, Indexes, NEW j \in Jobs, NEW next \in NextOccurrences(j)
  PROVE  next \in Times \cup {None, WAITING}
<1>1. job[j].pending \in Times \cup {None, WAITING}
  BY DEF JobsSound, JobSound, JobRecord
<1>2. Resolve(cache[j]) \in Times \cup {WAITING}
  <2>1. cache[j] \in Times \cup {None}
    BY DEF Indexes
  <2>. QED BY <2>1, Resolved
<1>3. now \in Times /\ now + 1 \in Times
  BY Assumptions DEF Indexes
<1>4. CASE job[j].pending # None
  BY <1>1, <1>4 DEF NextOccurrences
<1>5. CASE job[j].pending = None
  <2>1. \/ NextOccurrences(j) = {Resolve(cache[j])}
        \/ NextOccurrences(j) = {None, now, now + 1}
        \/ NextOccurrences(j) = {None}
    BY <1>5 DEF NextOccurrences
  <2>. QED BY <1>2, <1>3, <2>1
<1>. QED BY <1>4, <1>5

\* The step that ends a task's part in job j, or passes the job on to its next
\* write.
LEMMA PassesOn ==
  ASSUME SchedulerInv, UNCHANGED <<app, now, registry, names, watch, entity, cache, updates, inbox>>,
         NEW k \in Tasks, NEW j \in Jobs, NEW r, NEW t, job[j].hasId,
         job' = [job EXCEPT ![j] = r], task' = [task EXCEPT ![k] = t],
         JobSound(r), r.hasId, r.dequeued = job[j].dequeued, HandsOn(k, j),
         t = Idle \/ (t = [kind |-> "dispatch", job |-> j, at |-> t.at, rest |-> {}, wrote |-> r.status]
                      /\ t.at \in {"db", "again"}),
         \A i \in Jobs : (~Builds(k, i)) /\ (i # j => ~Carries(k, i)),
         Queue', serve' \in {serve, Kicked},
         serve'.kicked \/ r.heap = 0 \/ (r.heap = job[j].heap /\ r.key = job[j].key)
  PROVE  SchedulerInv'
<1>1. JobsSound /\ TasksSound /\ Occurrences /\ Indexes /\ Queue /\ Wakes
  BY DEF SchedulerInv
<1>2. AllJobs' /\ job'[j] = r /\ \A i \in Jobs : i # j => job'[i] = job[i]
  BY <1>1, OneJob
<1>3. OnlyTask(k) /\ task'[k] = t
  BY <1>1, OneTask
<1>4. TaskSound(k)' /\ \A i \in Jobs : ~Builds(k, i)' /\ (i # j => ~Carries(k, i)')
  <2>1. CASE t = Idle
    BY <1>3, <2>1, IdleSound
  <2>2. CASE /\ t = [kind |-> "dispatch", job |-> j, at |-> t.at, rest |-> {}, wrote |-> r.status]
             /\ t.at \in {"db", "again"}
    <3>1. t.kind = "dispatch" /\ t.job = j /\ t.rest = {} /\ t.wrote = r.status
      BY <2>2
    <3>2. TaskTyped(t)
      <4>1. r.status \in Statuses
        BY DEF JobSound, JobRecord
      <4>. QED BY <2>2, <4>1 DEF TaskTyped, TaskRecord
    <3>3. \A i \in Jobs : ~Builds(k, i)' /\ ~Registers(k, i)' /\ (i # j => ~Carries(k, i)')
      BY <1>3, <3>1 DEF Builds, Registers, Carries
    <3>. QED BY <1>2, <1>3, <2>2, <3>1, <3>2, <3>3 DEF TaskSound
  <2>. QED BY <2>1, <2>2
<1>5. ASSUME NEW i \in Jobs PROVE Respects(k, i) /\ HandsOn(k, i)
  <2>1. CASE i = j
    <3>1. \A n \in Tasks : ~Builds(n, j)
      BY <1>1, BuiltByNone
    <3>2. Begun(r)
      BY DEF JobSound
    <3>3. Respects(k, j)
      BY <1>2, <1>4, <3>1, <3>2 DEF Respects
    <3>. QED BY <2>1, <3>3
  <2>2. CASE i # j
    BY <1>1, <1>2, <1>4, <2>2, Untouched
  <2>. QED BY <2>1, <2>2
<1>6. Indexes'
  <2>1. \A i \in Jobs : (job[i].hasId => job'[i].hasId) /\ (Begun(job[i]) => Begun(job'[i]))
    BY <1>5 DEF Respects
  <2>2. /\ registry' \in [Rows -> Jobs \cup {None}] /\ names' \in [Rows -> Jobs \cup {None}]
        /\ watch' \in [Rows -> Jobs \cup {None}] /\ now' \in 0..MaxTime
    BY <1>1 DEF Indexes
  <2>. QED BY <1>1, <2>1, <2>2, IndexesKept
<1>7. Wakes'
  BY <1>1, <1>2, WakesKept
<1>. QED BY <1>2, <1>3, <1>4, <1>5, <1>6, <1>7, StepKept

\* A task that writes a status holds its job's row id and builds nothing.
LEMMA Holds ==
  ASSUME JobsSound, TasksSound, NEW k \in Tasks, task[k].kind \in {"handler", "dispatch"}
  PROVE  /\ task[k].job \in Jobs /\ job[task[k].job].hasId /\ JobSound(job[task[k].job])
         /\ TaskTyped(task[k])
         /\ \A i \in Jobs : ~Builds(k, i) /\ (i # task[k].job => ~Carries(k, i))
<1>1. TaskSound(k) /\ TaskTyped(task[k])
  BY DEF TasksSound, TaskSound
<1>2. task[k].job \in Jobs
  BY <1>1, WatchRegisters
<1>. QED BY <1>1, <1>2 DEF TaskSound, JobsSound, Builds, Registers, Carries

LEMMA DispatchStartKept ==
  ASSUME SchedulerInv, NEW k \in Tasks, DispatchStart(k)
  PROVE  SchedulerInv'
<1>1. JobsSound /\ TasksSound /\ Occurrences /\ Indexes /\ Queue /\ Wakes
  BY DEF SchedulerInv
<1>2. PICK j : j = task[k].job
  OBVIOUS
<1>3. /\ task[k].kind = "dispatch" /\ task[k].at = "spawned"
      /\ UNCHANGED <<app, now, registry, names, watch, entity, cache, updates, inbox, serve>>
  BY DEF DispatchStart, tables, sources
<1>4. /\ j \in Jobs /\ job[j].hasId /\ JobSound(job[j]) /\ TaskTyped(task[k])
      /\ \A i \in Jobs : ~Builds(k, i) /\ (i # j => ~Carries(k, i))
  BY <1>1, <1>2, <1>3, Holds
<1>5. Carries(k, j) /\ ~Queued(task[k])
  BY <1>2, <1>3 DEF Carries, Queued
<1>6. CASE job[j].dequeued
  <2>1. task' = [task EXCEPT ![k] = Idle] /\ UNCHANGED <<job, dbq>>
    BY <1>2, <1>6 DEF DispatchStart
  <2>2. OnlyTask(k) /\ task'[k] = Idle
    BY <1>1, <2>1, OneTask
  <2>3. HandsOn(k, j)
    BY <1>6, <2>1 DEF HandsOn
  <2>4. job' = [job EXCEPT ![j] = job[j]]
    BY <1>1, <2>1 DEF JobsSound, AllJobs
  <2>5. Queue'
    BY <1>1, <1>5, <2>1, <2>2, QueueKept
  <2>. QED BY <1>3, <1>4, <2>1, <2>3, <2>4, <2>5, PassesOn
<1>7. CASE ~job[j].dequeued
  <2>1. PICK next \in NextOccurrences(j) :
          LET r == [AfterFire(job[j], next) EXCEPT !.pending = None] IN
          /\ job' = [job EXCEPT ![j] = r]
          /\ task' = [task EXCEPT ![k] = Persisting("dispatch", j, "db", r)]
          /\ dbq' = Append(dbq, k)
    BY <1>2, <1>7 DEF DispatchStart
  <2>. DEFINE r == [AfterFire(job[j], next) EXCEPT !.pending = None]
              t == Persisting("dispatch", j, "db", r)
  <2>2. job[j].status = "scheduled" /\ job[j].heap = 0
    BY <1>1, <1>4, <1>5, <1>7 DEF Occurrences, InHand
  <2>3. next \in Times \cup {None, WAITING} /\ now \in 0..MaxTime
    BY <1>1, <1>4, OccurrenceTyped DEF Indexes
  <2>4. /\ JobSound(r) /\ r.heap = 0 /\ r.hasId = job[j].hasId /\ r.dequeued = job[j].dequeued
        /\ r.status \in {"completed", "waiting", "scheduled"}
    BY <1>4, <2>2, <2>3, AfterFireFacts
  <2>5. job' = [job EXCEPT ![j] = r] /\ task' = [task EXCEPT ![k] = t] /\ dbq' = Append(dbq, k)
    BY <2>1
  <2>. HIDE DEF r
  <2>6. t = [kind |-> "dispatch", job |-> j, at |-> "db", rest |-> {}, wrote |-> r.status]
    BY PersistingFacts
  <2>. HIDE DEF t
  <2>7. OnlyTask(k) /\ task'[k] = t
    BY <1>1, <2>5, OneTask
  <2>11. Queued(task'[k])
    BY <2>6, <2>7 DEF Queued
  <2>8. job'[j] = r
    BY <1>1, <1>4, <2>5, OneJob
  <2>9. HandsOn(k, j)
    <3>1. Carries(k, j)' <=> r.status = "scheduled"
      BY <2>6, <2>7 DEF Carries
    <3>. QED BY <1>5, <2>4, <2>8, <3>1 DEF HandsOn
  <2>10. Queue'
    BY <1>1, <1>5, <2>5, <2>7, <2>11, QueueKept
  <2>. QED BY <1>3, <1>4, <2>4, <2>5, <2>6, <2>9, <2>10, PassesOn
<1>. QED BY <1>6, <1>7

\* What becomes of a job when a write of its status has landed: it is enqueued if
\* the write promised an occurrence.
Landed(k, j) == IF task[k].wrote = "scheduled" THEN Push(job[j]) ELSE job[j]

LEMMA LandedFacts ==
  ASSUME SchedulerInv, NEW k \in Tasks, NEW j \in Jobs, task[k].job = j,
         task[k].kind \in {"handler", "dispatch"}, task[k].at \in {"db", "again"}
  PROVE  LET r == Landed(k, j)
         IN  /\ JobSound(r) /\ r.hasId /\ r.dequeued = job[j].dequeued /\ r.status = job[j].status
             /\ r.pending = job[j].pending
             /\ task[k].wrote = "scheduled" =>
                  /\ Carries(k, j) /\ (~r.dequeued => r.status = "scheduled" /\ r.heap = 1)
                  /\ KickIfQueued(r) \in {serve, Kicked} /\ (KickIfQueued(r).kicked \/ r.heap = 0)
             /\ task[k].wrote # "scheduled" => ~Carries(k, j) /\ r = job[j]
<1>1. JobsSound /\ TasksSound /\ Occurrences /\ Wakes
  BY DEF SchedulerInv
<1>2. JobSound(job[j]) /\ job[j].hasId
  BY <1>1, Holds
<1>3. Carries(k, j) <=> task[k].wrote = "scheduled"
  BY DEF Carries
<1>4. CASE task[k].wrote = "scheduled"
  <2>1. ~job[j].dequeued => job[j].status = "scheduled" /\ job[j].heap = 0
    BY <1>1, <1>3, <1>4 DEF Occurrences, InHand
  <2>. DEFINE r == Push(job[j])
  <2>2. /\ JobSound(r) /\ SameStage(job[j], r) /\ r.dequeued = job[j].dequeued /\ r.pending = job[j].pending
        /\ ~job[j].dequeued /\ job[j].status = "scheduled" => r.heap = 1
    BY <1>2, <2>1, PushFacts
  <2>3. KickIfQueued(job[j]) \in {serve, Kicked} /\ (KickIfQueued(job[j]).kicked \/ r.heap = 0)
    BY <1>1, <1>2, <2>1, PushKicks
  <2>. HIDE DEF r
  <2>4. KickIfQueued(r) = KickIfQueued(job[j])
    BY <2>2 DEF KickIfQueued, SameStage
  <2>5. Landed(k, j) = r
    BY <1>4 DEF Landed, r
  <2>. QED BY <1>2, <1>3, <1>4, <2>1, <2>2, <2>3, <2>4, <2>5 DEF SameStage
<1>5. CASE task[k].wrote # "scheduled"
  <2>1. Landed(k, j) = job[j]
    BY <1>5 DEF Landed
  <2>. QED BY <1>2, <1>3, <1>5, <2>1
<1>. QED BY <1>4, <1>5

\* The task is over when its write has landed.
LEMMA Settles ==
  ASSUME SchedulerInv, UNCHANGED <<app, now, registry, names, watch, entity, cache, updates, inbox>>,
         NEW k \in Tasks, NEW j \in Jobs, task[k].job = j,
         task[k].kind \in {"handler", "dispatch"}, NEW r,
         job' = [job EXCEPT ![j] = r], task' = [task EXCEPT ![k] = Idle],
         JobSound(r), r.hasId, r.dequeued = job[j].dequeued,
         r.dequeued \/ (Carries(k, j) /\ r.heap = 1) \/ (~Carries(k, j) /\ r = job[j]),
         Queue', serve' \in {serve, Kicked}, serve'.kicked \/ r.heap = 0 \/ r = job[j]
  PROVE  SchedulerInv'
<1>1. JobsSound /\ TasksSound
  BY DEF SchedulerInv
<1>2. job[j].hasId /\ \A i \in Jobs : (~Builds(k, i)) /\ (i # j => ~Carries(k, i))
  BY <1>1, Holds
<1>3. task'[k] = Idle /\ job'[j] = r
  BY <1>1, OneTask, OneJob
<1>4. ~Carries(k, j)'
  BY <1>3, IdleSound
<1>5. HandsOn(k, j)
  BY <1>3, <1>4 DEF HandsOn
<1>. QED BY <1>2, <1>5, PassesOn

\* Firing leaves the job as it is: one that is not scheduled has no entry.
LEMMA Fires ==
  ASSUME NEW k, NEW r, JobSound(r), Fire(k, r)
  PROVE  /\ job' = [job EXCEPT ![task[k].job] = r]
         /\ task' = [task EXCEPT ![k] = Idle] /\ dbq' = Tail(dbq)
<1>1. r.status # "scheduled" => r.heap = 0
  BY DEF JobSound, JobRecord
<1>2. r.status # "scheduled" => DropEntry(r) = r
  BY <1>1, DropEntryFacts
<1>3. (IF r.status = "scheduled" THEN r ELSE DropEntry(r)) = r
  BY <1>2
<1>. QED BY <1>3 DEF Fire

LEMMA ReschedulePersistedKept ==
  ASSUME SchedulerInv, NEW k \in Tasks, ReschedulePersisted(k)
  PROVE  SchedulerInv'
<1>1. TasksSound /\ JobsSound /\ Queue
  BY DEF SchedulerInv
<1>2. PICK j : j = task[k].job
  OBVIOUS
<1>. DEFINE r == Landed(k, j)
<1>3. /\ Served(k) /\ task[k].kind = "handler" /\ job' = [job EXCEPT ![j] = r]
      /\ serve' = IF task[k].wrote = "scheduled" THEN KickIfQueued(r) ELSE serve
      /\ task' = [task EXCEPT ![k] = Idle] /\ dbq' = Tail(dbq)
      /\ UNCHANGED <<app, now, registry, names, watch, entity, cache, updates, inbox>>
  BY <1>2 DEF ReschedulePersisted, Landed, sources
<1>4. TaskTyped(task[k]) /\ dbq # <<>> /\ Head(dbq) = k /\ task[k].at = "db" /\ j \in Jobs
  BY <1>1, <1>2, <1>3, ServedTask, WatchRegisters DEF TaskTyped
<1>5. /\ JobSound(r) /\ r.hasId /\ r.dequeued = job[j].dequeued
      /\ task[k].wrote = "scheduled" =>
                  /\ Carries(k, j) /\ (~r.dequeued => r.heap = 1)
                  /\ KickIfQueued(r) \in {serve, Kicked} /\ (KickIfQueued(r).kicked \/ r.heap = 0)
      /\ task[k].wrote # "scheduled" => ~Carries(k, j) /\ r = job[j]
  BY <1>2, <1>3, <1>4, LandedFacts
<1>. HIDE DEF r
<1>6. OnlyTask(k)
  BY <1>1, <1>3, OneTask
<1>7. Queue'
  BY <1>1, <1>3, <1>4, <1>6, QueueKept
<1>8. serve' \in {serve, Kicked} /\ (serve'.kicked \/ r.heap = 0 \/ r = job[j])
  BY <1>3, <1>5
<1>9. r.dequeued \/ (Carries(k, j) /\ r.heap = 1) \/ (~Carries(k, j) /\ r = job[j])
  BY <1>5
<1>. QED BY <1>2, <1>3, <1>4, <1>5, <1>7, <1>8, <1>9, Settles

LEMMA DispatchMovedKept ==
  ASSUME SchedulerInv, NEW k \in Tasks, DispatchMoved(k)
  PROVE  SchedulerInv'
<1>1. TasksSound /\ JobsSound /\ Queue
  BY DEF SchedulerInv
<1>2. PICK j : j = task[k].job
  OBVIOUS
<1>. DEFINE r == Landed(k, j)
<1>3. /\ Served(k) /\ task[k].kind = "dispatch" /\ task[k].at = "again" /\ Fire(k, r)
      /\ serve' = IF task[k].wrote = "scheduled" THEN KickIfQueued(r) ELSE serve
      /\ UNCHANGED <<app, now, registry, names, watch, entity, cache, updates, inbox>>
  BY <1>2 DEF DispatchMoved, Landed, sources
<1>4. dbq # <<>> /\ Head(dbq) = k /\ j \in Jobs
  BY <1>1, <1>2, <1>3, ServedTask, WatchRegisters
<1>5. /\ JobSound(r) /\ r.hasId /\ r.dequeued = job[j].dequeued
      /\ task[k].wrote = "scheduled" =>
                  /\ Carries(k, j) /\ (~r.dequeued => r.heap = 1)
                  /\ KickIfQueued(r) \in {serve, Kicked} /\ (KickIfQueued(r).kicked \/ r.heap = 0)
      /\ task[k].wrote # "scheduled" => ~Carries(k, j) /\ r = job[j]
  BY <1>2, <1>3, <1>4, LandedFacts
<1>. HIDE DEF r
<1>6. job' = [job EXCEPT ![j] = r] /\ task' = [task EXCEPT ![k] = Idle] /\ dbq' = Tail(dbq)
  BY <1>2, <1>3, <1>5, Fires
<1>7. OnlyTask(k)
  BY <1>1, <1>6, OneTask
<1>8. Queue'
  BY <1>1, <1>4, <1>6, <1>7, QueueKept
<1>9. serve' \in {serve, Kicked} /\ (serve'.kicked \/ r.heap = 0 \/ r = job[j])
  BY <1>3, <1>5
<1>10. r.dequeued \/ (Carries(k, j) /\ r.heap = 1) \/ (~Carries(k, j) /\ r = job[j])
  BY <1>5
<1>. QED BY <1>2, <1>3, <1>4, <1>5, <1>6, <1>8, <1>9, <1>10, Settles

LEMMA DispatchPersistedKept ==
  ASSUME SchedulerInv, NEW k \in Tasks, DispatchPersisted(k)
  PROVE  SchedulerInv'
<1>1. TasksSound /\ JobsSound /\ Queue
  BY DEF SchedulerInv
<1>2. PICK j : j = task[k].job
  OBVIOUS
<1>. DEFINE r == Landed(k, j)
            q == [r EXCEPT !.pending = None]
            s == Reschedule(q, r.pending)
<1>3. /\ Served(k) /\ task[k].kind = "dispatch" /\ task[k].at = "db"
      /\ serve' = IF task[k].wrote = "scheduled" THEN KickIfQueued(r) ELSE serve
      /\ UNCHANGED <<app, now, registry, names, watch, entity, cache, updates, inbox>>
  BY <1>2 DEF DispatchPersisted, Landed, sources
<1>4. \/ /\ task[k].wrote = "scheduled" /\ r.pending # None /\ Transitions(q)
         /\ job' = [job EXCEPT ![j] = s]
         /\ task' = [task EXCEPT ![k] = Persisting("dispatch", j, "again", s)]
         /\ dbq' = Append(Tail(dbq), k)
      \/ task[k].wrote = "scheduled" /\ r.pending # None /\ ~Transitions(q) /\ Fire(k, s)
      \/ Fire(k, r)
  BY <1>2 DEF DispatchPersisted, Landed
<1>5. dbq # <<>> /\ Head(dbq) = k /\ j \in Jobs
  BY <1>1, <1>2, <1>3, ServedTask, WatchRegisters
<1>6. /\ JobSound(r) /\ r.hasId /\ r.dequeued = job[j].dequeued
      /\ task[k].wrote = "scheduled" =>
                  /\ Carries(k, j) /\ (~r.dequeued => r.status = "scheduled" /\ r.heap = 1)
                  /\ KickIfQueued(r) \in {serve, Kicked} /\ (KickIfQueued(r).kicked \/ r.heap = 0)
      /\ task[k].wrote # "scheduled" => ~Carries(k, j) /\ r = job[j]
  BY <1>2, <1>3, <1>5, LandedFacts
<1>. HIDE DEF r
<1>7. /\ JobSound(q) /\ q.hasId /\ q.dequeued = r.dequeued /\ q.status = r.status /\ q.heap = r.heap
  <2>1. r \in JobRecord
    BY <1>6 DEF JobSound
  <2>2. /\ q \in JobRecord /\ SameStage(r, q) /\ q.fire = r.fire
        /\ q.heap = r.heap /\ q.key = r.key /\ q.dequeued = r.dequeued
    BY <2>1 DEF JobRecord, SameStage
  <2>. HIDE DEF q
  <2>. QED BY <1>6, <2>2 DEF JobSound, Begun, SameStage
<1>. HIDE DEF q
<1>8. serve' \in {serve, Kicked} /\ (serve'.kicked \/ r.heap = 0 \/ r = job[j])
  BY <1>3, <1>6
<1>9. job[j].hasId /\ \A i \in Jobs : (~Builds(k, i)) /\ (i # j => ~Carries(k, i))
  BY <1>1, <1>2, <1>3, Holds
<1>10. r.pending # None =>
         /\ JobSound(s) /\ s.hasId /\ s.dequeued = q.dequeued
         /\ Transitions(q) => s.heap = 0 /\ s.status \in {"waiting", "scheduled"}
         /\ ~Transitions(q) => s.heap = q.heap
  <2>1. r.pending # None => r.pending \in Times \cup {WAITING}
    BY <1>6 DEF JobSound, JobRecord
  <2>. QED BY <1>7, <2>1, RescheduleFacts
<1>. HIDE DEF s
<1>11. CASE /\ task[k].wrote = "scheduled" /\ r.pending # None /\ Transitions(q)
            /\ job' = [job EXCEPT ![j] = s]
            /\ task' = [task EXCEPT ![k] = Persisting("dispatch", j, "again", s)]
            /\ dbq' = Append(Tail(dbq), k)
  <2>. DEFINE t == Persisting("dispatch", j, "again", s)
  <2>1. t = [kind |-> "dispatch", job |-> j, at |-> "again", rest |-> {}, wrote |-> s.status]
    BY PersistingFacts
  <2>2. task' = [task EXCEPT ![k] = t]
    BY <1>11
  <2>. HIDE DEF t
  <2>3. OnlyTask(k) /\ task'[k] = t
    BY <1>1, <2>2, OneTask
  <2>4. Queued(task'[k])
    BY <2>1, <2>3 DEF Queued
  <2>5. job'[j] = s
    BY <1>1, <1>5, <1>11, OneJob
  <2>6. HandsOn(k, j)
    <3>1. Carries(k, j)' <=> s.status = "scheduled"
      BY <2>1, <2>3 DEF Carries
    <3>. QED BY <1>6, <1>7, <1>10, <1>11, <2>5, <3>1 DEF HandsOn
  <2>7. Queue'
    BY <1>1, <1>5, <1>11, <2>3, <2>4, QueueKept
  <2>8. s.dequeued = job[j].dequeued /\ s.heap = 0 /\ JobSound(s) /\ s.hasId
    BY <1>6, <1>7, <1>10, <1>11
  <2>9. t = [kind |-> "dispatch", job |-> j, at |-> t.at, rest |-> {}, wrote |-> s.status] /\ t.at \in {"db", "again"}
    BY <2>1
  <2>. QED BY <1>3, <1>5, <1>8, <1>9, <1>11, <2>2, <2>6, <2>7, <2>8, <2>9, PassesOn
<1>12. ASSUME NEW x, JobSound(x), x.hasId, x.dequeued = job[j].dequeued, Fire(k, x),
              x.dequeued \/ (Carries(k, j) /\ x.heap = 1) \/ (~Carries(k, j) /\ x = job[j]),
              serve'.kicked \/ x.heap = 0 \/ x = job[j]
       PROVE  SchedulerInv'
  <2>1. job' = [job EXCEPT ![j] = x] /\ task' = [task EXCEPT ![k] = Idle] /\ dbq' = Tail(dbq)
    BY <1>2, <1>12, Fires
  <2>2. OnlyTask(k)
    BY <1>1, <2>1, OneTask
  <2>3. Queue'
    BY <1>1, <1>5, <2>1, <2>2, QueueKept
  <2>. QED BY <1>2, <1>3, <1>5, <1>8, <1>12, <2>1, <2>3, Settles
<1>13. CASE task[k].wrote = "scheduled" /\ r.pending # None /\ ~Transitions(q) /\ Fire(k, s)
  <2>1. q.dequeued
    BY <1>6, <1>7, <1>13 DEF Transitions, Remembers
  <2>2. s.dequeued /\ s.heap = 0
    BY <1>10, <1>13, <2>1 DEF JobSound, JobRecord
  <2>. QED BY <1>6, <1>7, <1>10, <1>12, <1>13, <2>1, <2>2
<1>14. CASE Fire(k, r)
  <2>1. r.dequeued \/ (Carries(k, j) /\ r.heap = 1) \/ (~Carries(k, j) /\ r = job[j])
    BY <1>6
  <2>. QED BY <1>6, <1>8, <1>12, <1>14, <2>1
<1>. QED BY <1>4, <1>11, <1>13, <1>14

LEMMA WriteFailsKept ==
  ASSUME SchedulerInv, NEW k \in Tasks, WriteFails(k)
  PROVE  SchedulerInv'
<1>1. JobsSound /\ TasksSound /\ Occurrences /\ Indexes /\ Queue /\ Wakes
  BY DEF SchedulerInv
<1>2. /\ app.dbFails /\ Served(k) /\ task' = [task EXCEPT ![k] = Idle] /\ dbq' = Tail(dbq)
      /\ UNCHANGED <<app, now, job, registry, names, watch, entity, cache, updates, inbox, serve>>
  BY DEF WriteFails, tables, sources
<1>3. dbq # <<>> /\ Head(dbq) = k
  BY <1>1, <1>2, ServedTask
<1>4. OnlyTask(k) /\ task'[k] = Idle
  BY <1>1, <1>2, OneTask
<1>5. TaskSound(k)' /\ \A i \in Jobs : ~Builds(k, i)' /\ ~Carries(k, i)'
  BY <1>4, IdleSound
<1>6. ASSUME NEW i \in Jobs PROVE Respects(k, i) /\ HandsOn(k, i)
  <2>1. job'[i] = job[i]
    BY <1>2
  <2>2. Respects(k, i)
    BY <1>1, <1>5, <2>1, Untouched
  <2>3. HandsOn(k, i)
    BY <1>2, <1>5, <2>1 DEF HandsOn
  <2>. QED BY <2>2, <2>3
<1>7. AllJobs' /\ Indexes'
  BY <1>1, <1>2 DEF JobsSound, AllJobs, Indexes, Begun
<1>8. Queue'
  BY <1>1, <1>2, <1>3, <1>4, QueueKept
<1>9. Wakes'
  BY <1>1, <1>2 DEF Wakes, SleepNeverPastDue
<1>. QED BY <1>2, <1>4, <1>5, <1>6, <1>7, <1>8, <1>9, StepKept

----------------------------------------------------------------------------
(* Steps of the environment *)

LEMMA StillSound ==
  ASSUME SchedulerInv, UNCHANGED <<app, job, task, dbq, serve>>, Indexes'
  PROVE  SchedulerInv'
<1>1. JobsSound'
  BY DEF SchedulerInv, JobsSound, AllJobs
<1>2. TasksSound'
  BY DEF SchedulerInv, TasksSound, TaskSound, Builds, Registers, Begun
<1>3. Occurrences'
  BY DEF SchedulerInv, Occurrences, InHand, Carries
<1>4. Queue'
  BY DEF SchedulerInv, Queue
<1>5. Wakes'
  BY DEF SchedulerInv, Wakes, SleepNeverPastDue
<1>. QED BY <1>1, <1>2, <1>3, <1>4, <1>5 DEF SchedulerInv

LEMMA ChangesMore ==
  ASSUME NEW q \in Seq(Changes), NEW e \in Changes
  PROVE  /\ Append(q, e) \in Seq(Changes)
         /\ \A i \in 1..Len(Append(q, e)) :
               Append(q, e)[i] = e \/ (i \in 1..Len(q) /\ Append(q, e)[i] = q[i])
<1>. DEFINE p == Append(q, e)
<1>1. /\ Len(q) \in Nat /\ Len(p) = Len(q) + 1 /\ p \in Seq(Changes) /\ p[Len(q) + 1] = e
      /\ \A i \in 1..Len(q) : p[i] = q[i]
  OBVIOUS
<1>. HIDE DEF p
<1>2. \A i \in 1..Len(p) : i \in 1..Len(q) \/ i = Len(q) + 1
  BY <1>1
<1>3. \A i \in 1..Len(p) : p[i] = e \/ (i \in 1..Len(q) /\ p[i] = q[i])
  BY <1>1, <1>2
<1>. QED BY <1>1, <1>3 DEF p

LEMMA EntityChangeKept ==
  ASSUME SchedulerInv, NEW j \in Jobs, NEW t \in (1 .. app.until + 1) \cup {None}, EntityChange(j, t)
  PROVE  SchedulerInv'
<1>1. Indexes
  BY DEF SchedulerInv
<1>. DEFINE e == [job |-> j, time |-> t]
<1>2. /\ entity' = [entity EXCEPT ![j] = t]
      /\ cache' \in {cache, entity'} /\ updates' \in {updates, Append(updates, e)}
      /\ inbox' = inbox \/ (watch[RowOf[j]] = j /\ inbox' = Append(inbox, e))
      /\ UNCHANGED <<app, now, job, registry, names, watch, task, dbq, serve>>
  BY DEF EntityChange, tables
<1>3. t \in Times \cup {None}
  <2>1. app.until \in 0..MaxTime
    BY <1>1, Scenes DEF Indexes
  <2>. QED BY <2>1, Assumptions
<1>4. e \in Changes /\ e.job = j
  BY <1>3 DEF Changes
<1>. HIDE DEF e
<1>5. /\ entity' \in [Jobs -> Times \cup {None}] /\ cache' \in [Jobs -> Times \cup {None}]
  BY <1>1, <1>2, <1>3 DEF Indexes
<1>6. updates' \in Seq(Changes)
  <2>1. updates \in Seq(Changes)
    BY <1>1 DEF Indexes
  <2>2. Append(updates, e) \in Seq(Changes)
    BY <1>4, <2>1, ChangesMore
  <2>. QED BY <1>2, <2>1, <2>2
<1>7. inbox' \in Seq(Changes) /\ \A i \in 1..Len(inbox') : job[inbox'[i].job].hasId
  <2>1. CASE inbox' = inbox
    BY <1>1, <2>1 DEF Indexes
  <2>2. CASE watch[RowOf[j]] = j /\ inbox' = Append(inbox, e)
    <3>1. RowOf[j] \in Rows /\ j # None
      BY Assumptions
    <3>2. job[j].hasId
      BY <1>1, <2>2, <3>1 DEF Indexes
    <3>3. inbox \in Seq(Changes) /\ \A i \in 1..Len(inbox) : job[inbox[i].job].hasId
      BY <1>1 DEF Indexes
    <3>4. /\ inbox' \in Seq(Changes)
          /\ \A i \in 1..Len(inbox') : inbox'[i] = e \/ (i \in 1..Len(inbox) /\ inbox'[i] = inbox[i])
      BY <1>4, <2>2, <3>3, ChangesMore
    <3>. QED BY <1>4, <3>2, <3>3, <3>4
  <2>. QED BY <1>2, <2>1, <2>2
<1>8. Indexes'
  BY <1>1, <1>2, <1>5, <1>6, <1>7 DEF Indexes, Begun
<1>. QED BY <1>2, <1>8, StillSound

LEMMA CacheUpdatedKept ==
  ASSUME SchedulerInv, CacheUpdated
  PROVE  SchedulerInv'
<1>1. Indexes
  BY DEF SchedulerInv
<1>2. /\ updates # <<>> /\ updates' = Tail(updates)
      /\ cache' = [cache EXCEPT ![Head(updates).job] = Head(updates).time]
      /\ UNCHANGED <<app, now, job, registry, names, watch, task, dbq, entity, inbox, serve>>
  BY DEF CacheUpdated, tables
<1>3. updates \in Seq(Changes) /\ cache \in [Jobs -> Times \cup {None}]
  BY <1>1 DEF Indexes
<1>4. updates' \in Seq(Changes) /\ Head(updates) \in Changes
  BY <1>2, <1>3
<1>5. cache' \in [Jobs -> Times \cup {None}]
  BY <1>2, <1>3, <1>4 DEF Changes
<1>6. Indexes'
  BY <1>1, <1>2, <1>4, <1>5 DEF Indexes, Begun
<1>. QED BY <1>2, <1>6, StillSound

LEMMA TickKept ==
  ASSUME SchedulerInv, Tick
  PROVE  SchedulerInv'
<1>1. Indexes
  BY DEF SchedulerInv
<1>2. /\ now < app.until /\ now' = now + 1
      /\ UNCHANGED <<app, job, registry, names, watch, task, dbq, entity, cache, updates, inbox, serve>>
  BY DEF Tick, tables, sources
<1>3. now' \in 0..MaxTime
  <2>1. app.until \in 0..MaxTime /\ now \in 0..MaxTime
    BY <1>1, Scenes DEF Indexes
  <2>. QED BY <1>2, <2>1, Assumptions
<1>4. Indexes'
  BY <1>1, <1>2, <1>3 DEF Indexes, Begun
<1>. QED BY <1>2, <1>4, StillSound

LEMMA SameKept ==
  ASSUME SchedulerInv,
         UNCHANGED <<app, now, job, registry, names, watch, task, dbq, entity, cache, updates, inbox, serve>>
  PROVE  SchedulerInv'
<1>1. Indexes'
  BY DEF SchedulerInv, Indexes, Begun
<1>. QED BY <1>1, StillSound

----------------------------------------------------------------------------
(* The serve loop *)

\* How far the loop sleeps: no further than to the first entry, or its minimum.
LEMMA Sleeps ==
  ASSUME NEW left, left \subseteq Times, now \in 0..MaxTime, \A t \in left : now < t
  PROVE  SleepTime(left) \in Nat /\ \A t \in left : now + SleepTime(left) < t + MinDelay
<1>1. left \subseteq Nat
  BY Assumptions
<1>2. CASE left = {}
  <2>1. SleepTime(left) \in {DefaultDelay, MaxDelay}
    BY <1>2 DEF SleepTime
  <2>. QED BY <1>2, <2>1, Assumptions
<1>3. CASE left # {}
  <2>. DEFINE next == CHOOSE t \in left : \A u \in left : t <= u
              delay == IF next - now < MinDelay THEN MinDelay ELSE next - now
  <2>1. \E t \in left : \A u \in left : t <= u
    BY <1>1, <1>3, Smallest
  <2>2. next \in left /\ \A u \in left : next <= u
    BY <2>1
  <2>3. SleepTime(left) = IF delay > MaxDelay THEN MaxDelay ELSE delay
    BY <1>3 DEF SleepTime
  <2>. HIDE DEF next
  <2>4. next \in Nat /\ now \in Nat /\ now < next
    BY <1>1, <2>2
  <2>5. /\ delay \in Nat /\ now + delay < next + MinDelay
    BY <2>4, Assumptions
  <2>. HIDE DEF delay
  <2>6. SleepTime(left) \in Nat /\ SleepTime(left) <= delay
    BY <2>3, <2>5, Assumptions
  <2>7. ASSUME NEW t \in left PROVE now + SleepTime(left) < t + MinDelay
    <3>1. t \in Nat /\ next <= t
      BY <1>1, <2>2
    <3>. QED BY <2>4, <2>5, <2>6, <3>1, Assumptions
  <2>. QED BY <2>6, <2>7
<1>. QED BY <1>2, <1>3

LEMMA ServeSteps ==
  ASSUME SchedulerInv, Serve, NEW D, D = Due
  PROVE  \E f \in [D -> Tasks] :
           /\ \A x, y \in D : x # y => f[x] # f[y]
           /\ \A d \in D : task[f[d]] = Idle
           /\ DOMAIN task' = Tasks
           /\ \A i \in Tasks : IF \E d \in D : f[d] = i
                               THEN \E d \in D : f[d] = i /\ task'[i] = Spawn("dispatch", d, "spawned")
                               ELSE task'[i] = task[i]
<1>1. TasksSound
  BY DEF SchedulerInv
<1>2. IsFiniteSet(D) /\ IsFiniteSet(Free) /\ D \subseteq Jobs
  BY FS_Subset, Assumptions DEF Due, Free
<1>3. Cardinality(D) <= Cardinality(Free)
  BY DEF Serve
<1>. DEFINE slot == CHOOSE f \in [D -> Free] : \A x, y \in D : x # y => f[x] # f[y]
<1>4. \E f \in [D -> Free] : \A x, y \in D : x # y => f[x] # f[y]
  BY <1>2, <1>3, Slots
<1>5. slot \in [D -> Free] /\ \A x, y \in D : x # y => slot[x] # slot[y]
  BY <1>4
<1>6. task' = [k \in Tasks |-> IF \E j \in D : slot[j] = k
                               THEN Spawn("dispatch", CHOOSE j \in D : slot[j] = k, "spawned")
                               ELSE task[k]]
  BY DEF Serve
<1>7. PICK f : f = slot
  OBVIOUS
<1>. HIDE DEF slot
<1>8. \A d \in D : f[d] \in Tasks /\ task[f[d]].kind = "free"
  BY <1>5, <1>7 DEF Free
<1>9. f \in [D -> Tasks] /\ \A d \in D : task[f[d]] = Idle
  BY <1>1, <1>5, <1>7, <1>8 DEF TasksSound, TaskSound, TaskTyped, Free
<1>10. DOMAIN task' = Tasks
  BY <1>6
<1>11. ASSUME NEW i \in Tasks
       PROVE  IF \E d \in D : f[d] = i
              THEN \E d \in D : f[d] = i /\ task'[i] = Spawn("dispatch", d, "spawned")
              ELSE task'[i] = task[i]
  <2>1. CASE \E d \in D : f[d] = i
    <3>. DEFINE c == CHOOSE d \in D : f[d] = i
    <3>1. c \in D /\ f[c] = i
      BY <2>1
    <3>2. task'[i] = Spawn("dispatch", c, "spawned")
      BY <1>6, <1>7, <2>1
    <3>. QED BY <2>1, <3>1, <3>2
  <2>2. CASE ~\E d \in D : f[d] = i
    BY <1>6, <1>7, <2>2
  <2>. QED BY <2>1, <2>2
<1>. QED BY <1>5, <1>7, <1>9, <1>10, <1>11

LEMMA ServeKept ==
  ASSUME SchedulerInv, Serve
  PROVE  SchedulerInv'
<1>1. JobsSound /\ TasksSound /\ Occurrences /\ Indexes /\ Queue /\ Wakes
  BY DEF SchedulerInv
<1>2. PICK D : D = Due
  OBVIOUS
<1>3. PICK f \in [D -> Tasks] :
           /\ \A x, y \in D : x # y => f[x] # f[y]
           /\ \A d \in D : task[f[d]] = Idle
           /\ DOMAIN task' = Tasks
           /\ \A i \in Tasks : IF \E d \in D : f[d] = i
                               THEN \E d \in D : f[d] = i /\ task'[i] = Spawn("dispatch", d, "spawned")
                               ELSE task'[i] = task[i]
  BY <1>2, ServeSteps
<1>4. /\ job' = [j \in Jobs |-> Popped(job[j])]
      /\ UNCHANGED <<app, now, registry, names, watch, entity, cache, updates, inbox, dbq>>
  BY DEF Serve, tables, sources
<1>5. \A j \in Jobs : JobSound(job[j]) /\ job[j].heap \in {0, 1}
  BY <1>1 DEF JobsSound, JobSound, JobRecord
<1>6. D \subseteq Jobs /\ \A j \in Jobs : j \in D <=> job[j].heap > 0 /\ job[j].key <= now
  BY <1>2 DEF Due
<1>7. /\ \A j \in D : /\ JobSound(job'[j]) /\ job'[j].heap = 0 /\ SameStage(job[j], job'[j])
                      /\ job'[j].dequeued = job[j].dequeued
                      /\ job[j].heap = 1 /\ job[j].status = "scheduled" /\ ~job[j].dequeued /\ job[j].hasId
      /\ \A j \in Jobs : j \notin D => job'[j] = job[j]
  <2>1. ASSUME NEW j \in D
        PROVE  /\ JobSound(job'[j]) /\ job'[j].heap = 0 /\ SameStage(job[j], job'[j])
               /\ job'[j].dequeued = job[j].dequeued
               /\ job[j].heap = 1 /\ job[j].status = "scheduled" /\ ~job[j].dequeued /\ job[j].hasId
    <3>1. j \in Jobs /\ job'[j] = DropEntry(job[j]) /\ job[j].heap = 1
      BY <1>4, <1>5, <1>6 DEF Popped
    <3>2. LET s == DropEntry(job[j])
          IN  JobSound(s) /\ s.heap = 0 /\ SameStage(job[j], s) /\ s.dequeued = job[j].dequeued
      BY <1>5, <3>1, DropEntryFacts
    <3>3. job[j].status = "scheduled" /\ ~job[j].dequeued /\ job[j].hasId
      BY <1>5, <3>1 DEF JobSound
    <3>. QED BY <3>1, <3>2, <3>3
  <2>2. \A j \in Jobs : j \notin D => job'[j] = job[j]
    BY <1>4, <1>6 DEF Popped
  <2>. QED BY <2>1, <2>2
<1>8. JobsSound'
  <2>1. AllJobs'
    BY <1>4 DEF AllJobs
  <2>2. \A j \in Jobs : JobSound(job'[j])
    BY <1>5, <1>7
  <2>. QED BY <2>1, <2>2 DEF JobsSound
<1>9. \A j \in Jobs : job'[j].hasId = job[j].hasId /\ job'[j].status = job[j].status /\ job'[j].next = job[j].next
  BY <1>7 DEF SameStage
<1>10. \A i \in Tasks : \/ task'[i] = task[i] /\ \A d \in D : f[d] # i
                        \/ /\ task[i] = Idle
                           /\ \E d \in D : f[d] = i /\ task'[i] = Spawn("dispatch", d, "spawned")
  BY <1>3
<1>11. ASSUME NEW i \in Tasks, NEW d \in D, task'[i] = Spawn("dispatch", d, "spawned")
       PROVE  /\ task'[i].kind = "dispatch" /\ task'[i].job = d /\ task'[i].at = "spawned"
              /\ TaskTyped(task'[i])
  <2>1. task'[i] = [kind |-> "dispatch", job |-> d, at |-> "spawned", rest |-> {}, wrote |-> None]
    BY <1>11 DEF Spawn
  <2>. QED BY <1>6, <2>1 DEF TaskTyped, TaskRecord
<1>12. \A i \in Tasks : \A j \in Jobs : Builds(i, j)' => Builds(i, j)
  <2>1. ASSUME NEW i \in Tasks, NEW d \in D, task'[i] = Spawn("dispatch", d, "spawned"), NEW j \in Jobs
        PROVE  ~Builds(i, j)'
    BY <1>11, <2>1 DEF Builds, Registers
  <2>2. ASSUME NEW i \in Tasks, task'[i] = task[i], NEW j \in Jobs PROVE Builds(i, j)' => Builds(i, j)
    BY <2>2 DEF Builds, Registers
  <2>. QED BY <1>10, <2>1, <2>2
<1>13. ASSUME NEW i \in Tasks PROVE TaskSound(i)'
  <2>1. CASE task'[i] = task[i]
    <3>1. TaskSound(i) /\ TaskTyped(task[i])
      BY <1>1 DEF TasksSound, TaskSound
    <3>2. task[i].kind \in {"handler", "dispatch"} \/ task[i].at = "watch" => task[i].job \in Jobs
      BY <3>1, WatchRegisters
    <3>3. task[i].rest \subseteq Jobs
      BY <3>1 DEF TaskTyped, TaskRecord
    <3>4. task'[i].kind \in {"handler", "dispatch"} \/ task'[i].at = "watch" => job'[task'[i].job].hasId
      BY <1>9, <2>1, <3>1, <3>2 DEF TaskSound
    <3>5. \A j \in Jobs : Registers(i, j)' => ~job'[j].hasId /\ Begun(job'[j]) /\ job'[j].status = task'[i].wrote
      BY <1>9, <2>1, <3>1 DEF TaskSound, Registers, Begun
    <3>6. task'[i].kind = "replace" =>
         /\ task'[i].wrote \in {"scheduled", "waiting", "manual"}
         /\ \E j \in Jobs : task'[i].rest = {j}
         /\ \A j \in task'[i].rest : /\ job'[j].status = "building"
                                     /\ task'[i].wrote = "scheduled" => job'[j].next # None
      BY <1>9, <2>1, <3>1, <3>3 DEF TaskSound
    <3>7. task'[i].kind = "removeall" => \A j \in task'[i].rest : Begun(job'[j])
      BY <1>9, <2>1, <3>1, <3>3 DEF TaskSound, Begun
    <3>. QED BY <2>1, <3>1, <3>4, <3>5, <3>6, <3>7 DEF TaskSound
  <2>2. ASSUME NEW d \in D, task'[i] = Spawn("dispatch", d, "spawned") PROVE TaskSound(i)'
    <3>1. /\ task'[i].kind = "dispatch" /\ task'[i].job = d /\ task'[i].at = "spawned" /\ TaskTyped(task'[i])
      BY <1>11, <2>2
    <3>2. job'[d].hasId
      BY <1>6, <1>7, <1>9
    <3>. QED BY <3>1, <3>2 DEF TaskSound, Registers
  <2>. QED BY <1>10, <2>1, <2>2
<1>14. TasksSound'
  BY <1>1, <1>3, <1>12, <1>13 DEF TasksSound
<1>15. Occurrences'
  <2>. SUFFICES ASSUME NEW j \in Jobs, ~job'[j].dequeued PROVE InHand(j)'
    BY DEF Occurrences
  <2>1. CASE j \in D
    <3>1. \A i \in Tasks : ~Carries(i, j)
      BY <1>1, <1>7, <2>1 DEF Occurrences, InHand
    <3>2. ASSUME NEW i \in Tasks PROVE Carries(i, j)' <=> i = f[j]
      <4>1. CASE task'[i] = task[i] /\ \A d \in D : f[d] # i
        <5>1. Carries(i, j)' <=> Carries(i, j)
          BY <4>1 DEF Carries
        <5>. QED BY <2>1, <3>1, <4>1, <5>1
      <4>2. ASSUME NEW d \in D, f[d] = i, task'[i] = Spawn("dispatch", d, "spawned")
            PROVE  Carries(i, j)' <=> i = f[j]
        <5>1. task'[i].kind = "dispatch" /\ task'[i].job = d /\ task'[i].at = "spawned"
          BY <1>11, <4>2
        <5>2. Carries(i, j)' <=> d = j
          BY <5>1 DEF Carries
        <5>. QED BY <1>3, <2>1, <4>2, <5>2
      <4>. QED BY <1>10, <4>1, <4>2
    <3>3. f[j] \in Tasks
      BY <2>1
    <3>. QED BY <1>7, <1>9, <2>1, <3>2, <3>3 DEF InHand
  <2>2. CASE j \notin D
    <3>1. InHand(j) /\ job'[j] = job[j]
      BY <1>1, <1>7, <2>2 DEF Occurrences
    <3>2. ASSUME NEW i \in Tasks PROVE Carries(i, j)' <=> Carries(i, j)
      <4>1. CASE task'[i] = task[i]
        BY <4>1 DEF Carries
      <4>2. ASSUME NEW d \in D, task[i] = Idle, task'[i] = Spawn("dispatch", d, "spawned")
            PROVE  Carries(i, j)' <=> Carries(i, j)
        <5>1. task'[i].job = d
          BY <1>11, <4>2
        <5>2. ~Carries(i, j)
          BY <4>2 DEF Carries, Idle
        <5>3. ~Carries(i, j)'
          BY <2>2, <5>1 DEF Carries
        <5>. QED BY <5>2, <5>3
      <4>. QED BY <1>10, <4>1, <4>2
    <3>. QED BY <1>4, <3>1, <3>2 DEF InHand
  <2>. QED BY <2>1, <2>2
<1>16. Indexes'
  <2>1. \A j \in Jobs : (job[j].hasId => job'[j].hasId) /\ (Begun(job[j]) => Begun(job'[j]))
    BY <1>9 DEF Begun
  <2>2. /\ registry' \in [Rows -> Jobs \cup {None}] /\ names' \in [Rows -> Jobs \cup {None}]
        /\ watch' \in [Rows -> Jobs \cup {None}] /\ now' \in 0..MaxTime
    BY <1>1, <1>4 DEF Indexes
  <2>. QED BY <1>1, <1>4, <2>1, <2>2, IndexesKept
<1>17. Queue'
  <2>1. dbq' = dbq /\ dbq \in Seq(Tasks) /\ Distinct(dbq)
    BY <1>1, <1>4 DEF Queue
  <2>2. ASSUME NEW i \in 1..Len(dbq) PROVE task'[dbq[i]].at \in {"db", "again", "watch"}
    <3>1. dbq[i] \in Tasks /\ task[dbq[i]].at \in {"db", "again", "watch"}
      BY <1>1, <2>1 DEF Queue
    <3>2. task[dbq[i]] # Idle
      BY <3>1 DEF Idle
    <3>. QED BY <1>10, <3>1, <3>2
  <2>. QED BY <2>1, <2>2 DEF Queue, Distinct
<1>18. Wakes'
  <2>. DEFINE after == [j \in Jobs |-> Popped(job[j])]
  <2>1. PICK left : left = {after[j].key : j \in {i \in Jobs : after[i].heap > 0}}
    OBVIOUS
  <2>2. serve' = [until |-> now + SleepTime(left), kicked |-> FALSE]
    BY <2>1 DEF Serve
  <2>3. ASSUME NEW j \in Jobs, job'[j].heap > 0
        PROVE  job'[j].key \in left /\ job'[j].key \in Times /\ now < job'[j].key
    <3>1. j \notin D /\ job'[j] = job[j]
      BY <1>7, <2>3
    <3>2. job[j].key \in Times
      BY <1>5, <2>3, <3>1 DEF JobSound, JobRecord
    <3>3. now \in 0..MaxTime /\ ~(job[j].key <= now)
      BY <1>1, <1>6, <2>3, <3>1 DEF Indexes
    <3>4. now < job[j].key
      BY <3>2, <3>3, Assumptions
    <3>5. job'[j].key \in left
      BY <1>4, <2>1, <2>3
    <3>. QED BY <3>1, <3>2, <3>4, <3>5
  <2>4. left \subseteq Times /\ \A t \in left : now < t
    <3>1. \A t \in left : \E j \in Jobs : job'[j].heap > 0 /\ job'[j].key = t
      BY <1>4, <2>1
    <3>. QED BY <2>3, <3>1
  <2>5. now \in 0..MaxTime /\ now \in Nat
    BY <1>1, Assumptions DEF Indexes
  <2>6. SleepTime(left) \in Nat /\ \A t \in left : now + SleepTime(left) < t + MinDelay
    BY <2>4, <2>5, Sleeps
  <2>7. serve' \in [until : Nat, kicked : BOOLEAN]
    BY <2>2, <2>5, <2>6
  <2>8. \A j \in Jobs : job'[j].heap > 0 => serve'.until < job'[j].key + MinDelay
    BY <2>2, <2>3, <2>6
  <2>. QED BY <2>7, <2>8 DEF Wakes, SleepNeverPastDue
<1>. QED BY <1>8, <1>14, <1>15, <1>16, <1>17, <1>18 DEF SchedulerInv

----------------------------------------------------------------------------
(* The order of the write queue *)

In(q, x) == \E i \in 1..Len(q) : q[i] = x
Before(q, x, y) == \E i, n \in 1..Len(q) : i < n /\ q[i] = x /\ q[n] = y

\* Task k leaves the head of the queue, or joins its end, or both.
QueueStep(q, s, k) ==
    /\ q \in Seq(Tasks) /\ Distinct(q)
    /\ \/ s = q
       \/ ~In(q, k) /\ s = Append(q, k)
       \/ q # <<>> /\ Head(q) = k /\ s \in {Tail(q), Append(Tail(q), k)}

LEMMA OrderIn ==
  ASSUME NEW q, NEW x, NEW y, Before(q, x, y)
  PROVE  In(q, x) /\ In(q, y)
BY DEF Before, In

LEMMA OrderMore ==
  ASSUME NEW q \in Seq(Tasks), NEW k \in Tasks
  PROVE  /\ Append(q, k) \in Seq(Tasks)
         /\ \A x \in Tasks : In(Append(q, k), x) <=> In(q, x) \/ x = k
         /\ \A x, y \in Tasks : Before(Append(q, k), x, y) <=> Before(q, x, y) \/ (In(q, x) /\ y = k)
<1> DEFINE s == Append(q, k)
<1>1. s \in Seq(Tasks) /\ Len(s) = Len(q) + 1 /\ s[Len(q) + 1] = k
      /\ Len(q) \in Nat /\ \A i \in 1..Len(q) : s[i] = q[i]
  OBVIOUS
<1> HIDE DEF s
<1>2. ASSUME NEW x \in Tasks PROVE In(s, x) <=> In(q, x) \/ x = k
  <2>1. ASSUME In(q, x) \/ x = k PROVE In(s, x)
    BY <1>1, <2>1 DEF In
  <2>2. ASSUME In(s, x), x # k PROVE In(q, x)
    <3>1. PICK i \in 1..Len(s) : s[i] = x
      BY <2>2 DEF In
    <3>2. i \in 1..Len(q)
      BY <1>1, <2>2, <3>1
    <3> QED
      BY <1>1, <3>1, <3>2 DEF In
  <2> QED
    BY <2>1, <2>2
<1>3. ASSUME NEW x \in Tasks, NEW y \in Tasks
      PROVE  Before(s, x, y) <=> Before(q, x, y) \/ (In(q, x) /\ y = k)
  <2>1. ASSUME Before(q, x, y) PROVE Before(s, x, y)
    <3>1. PICK i, n \in 1..Len(q) : i < n /\ q[i] = x /\ q[n] = y
      BY <2>1 DEF Before
    <3> QED
      BY <1>1, <3>1 DEF Before
  <2>2. ASSUME In(q, x), y = k PROVE Before(s, x, y)
    <3>1. PICK i \in 1..Len(q) : q[i] = x
      BY <2>2 DEF In
    <3>2. i < Len(q) + 1 /\ i \in 1..Len(s) /\ Len(q) + 1 \in 1..Len(s)
      BY <1>1
    <3> QED
      BY <1>1, <2>2, <3>1, <3>2 DEF Before
  <2>3. ASSUME Before(s, x, y) PROVE Before(q, x, y) \/ (In(q, x) /\ y = k)
    <3>1. PICK i, n \in 1..Len(s) : i < n /\ s[i] = x /\ s[n] = y
      BY <2>3 DEF Before
    <3>2. i \in 1..Len(q) /\ q[i] = x
      BY <1>1, <3>1
    <3>3. CASE n \in 1..Len(q)
      BY <1>1, <3>1, <3>2, <3>3 DEF Before
    <3>4. CASE n = Len(q) + 1
      BY <1>1, <3>1, <3>2, <3>4 DEF In
    <3> QED
      BY <1>1, <3>3, <3>4
  <2> QED
    BY <2>1, <2>2, <2>3
<1> QED
  BY <1>1, <1>2, <1>3 DEF s

LEMMA OrderLess ==
  ASSUME NEW q \in Seq(Tasks), Distinct(q), q # <<>>
  PROVE  /\ Tail(q) \in Seq(Tasks) /\ Distinct(Tail(q)) /\ Head(q) \in Tasks
         /\ In(q, Head(q)) /\ ~In(Tail(q), Head(q))
         /\ \A x \in Tasks : In(Tail(q), x) <=> In(q, x) /\ x # Head(q)
         /\ \A x, y \in Tasks : Before(Tail(q), x, y) <=> Before(q, x, y) /\ x # Head(q)
         /\ \A x \in Tasks : In(q, x) /\ x # Head(q) => Before(q, Head(q), x)
         /\ \A x \in Tasks : ~Before(q, x, Head(q))
<1> DEFINE s == Tail(q)  h == Head(q)
<1>1. /\ s \in Seq(Tasks) /\ Len(q) \in Nat /\ Len(q) >= 1 /\ Len(s) = Len(q) - 1
      /\ h \in Tasks /\ q[1] = h /\ \A i \in 1..Len(s) : s[i] = q[i + 1]
  OBVIOUS
<1>2. Distinct(s)
  BY QueueLess
<1> HIDE DEF s, h
<1>3. ASSUME NEW i \in 1..Len(q), q[i] = h PROVE i = 1
  BY <1>1, <1>3 DEF Distinct
<1>4. \A i \in 1..Len(s) : i + 1 \in 1..Len(q) /\ s[i] # h /\ s[i] = q[i + 1]
  BY <1>1, <1>3
<1>5. \A i \in 1..Len(q) : q[i] # h => i - 1 \in 1..Len(s) /\ s[i - 1] = q[i]
  BY <1>1
<1>6. ASSUME NEW x \in Tasks PROVE In(s, x) <=> In(q, x) /\ x # h
  <2>1. ASSUME In(s, x) PROVE In(q, x) /\ x # h
    <3>1. PICK i \in 1..Len(s) : s[i] = x
      BY <2>1 DEF In
    <3> QED
      BY <1>4, <3>1 DEF In
  <2>2. ASSUME In(q, x), x # h PROVE In(s, x)
    <3>1. PICK i \in 1..Len(q) : q[i] = x
      BY <2>2 DEF In
    <3> QED
      BY <1>5, <2>2, <3>1 DEF In
  <2> QED
    BY <2>1, <2>2
<1>7. ASSUME NEW x \in Tasks, NEW y \in Tasks PROVE Before(s, x, y) <=> Before(q, x, y) /\ x # h
  <2>1. ASSUME Before(s, x, y) PROVE Before(q, x, y) /\ x # h
    <3>1. PICK i, n \in 1..Len(s) : i < n /\ s[i] = x /\ s[n] = y
      BY <2>1 DEF Before
    <3>2. i + 1 < n + 1
      BY <3>1, <1>1
    <3> QED
      BY <1>4, <3>1, <3>2 DEF Before
  <2>2. ASSUME Before(q, x, y), x # h PROVE Before(s, x, y)
    <3>1. PICK i, n \in 1..Len(q) : i < n /\ q[i] = x /\ q[n] = y
      BY <2>2 DEF Before
    <3>2. q[n] # h
      BY <1>1, <1>3, <3>1
    <3>3. i - 1 < n - 1
      BY <1>1, <3>1
    <3> QED
      BY <1>5, <2>2, <3>1, <3>2, <3>3 DEF Before
  <2> QED
    BY <2>1, <2>2
<1>8. ASSUME NEW x \in Tasks, In(q, x), x # h PROVE Before(q, h, x)
  <2>1. PICK i \in 1..Len(q) : q[i] = x
    BY <1>8 DEF In
  <2>2. 1 < i /\ 1 \in 1..Len(q)
    BY <1>1, <1>8, <2>1
  <2> QED
    BY <1>1, <2>1, <2>2 DEF Before
<1>9. ASSUME NEW x \in Tasks, Before(q, x, h) PROVE FALSE
  <2>1. PICK i, n \in 1..Len(q) : i < n /\ q[i] = x /\ q[n] = h
    BY <1>9 DEF Before
  <2> QED
    BY <1>1, <1>3, <2>1
<1>10. In(q, h) /\ ~In(s, h)
  <2>1. 1 \in 1..Len(q)
    BY <1>1
  <2> QED
    BY <1>1, <1>4, <2>1 DEF In
<1> QED
  BY <1>1, <1>2, <1>6, <1>7, <1>8, <1>9, <1>10 DEF s, h

\* The order of the other tasks stays.
LEMMA OrderKept ==
  ASSUME NEW q, NEW s, NEW k \in Tasks, QueueStep(q, s, k)
  PROVE  /\ \A x \in Tasks : x # k => (In(s, x) <=> In(q, x))
         /\ \A x, y \in Tasks : x # k /\ y # k => (Before(s, x, y) <=> Before(q, x, y))
<1>1. CASE s = q
  BY <1>1
<1>2. CASE ~In(q, k) /\ s = Append(q, k)
  BY <1>2, OrderMore DEF QueueStep
<1>3. CASE q # <<>> /\ Head(q) = k /\ s = Tail(q)
  BY <1>3, OrderLess DEF QueueStep
<1>4. CASE q # <<>> /\ Head(q) = k /\ s = Append(Tail(q), k)
  <2>1. /\ Tail(q) \in Seq(Tasks)
        /\ \A x \in Tasks : In(Tail(q), x) <=> In(q, x) /\ x # k
        /\ \A x, y \in Tasks : Before(Tail(q), x, y) <=> Before(q, x, y) /\ x # k
    BY <1>4, OrderLess DEF QueueStep
  <2> QED
    BY <1>4, <2>1, OrderMore
<1> QED
  BY <1>1, <1>2, <1>3, <1>4 DEF QueueStep

----------------------------------------------------------------------------
(* One row and the writes to it *)

\* A job that was begun and not removed.
Live(r) == Begun(r) /\ ~r.dequeued

\* In queue q, task x is to enter its job in row r, or to write its status to it.
Enters(q, t, x, r) == In(q, x) /\ t[x].kind = "register" /\ t[x].at = "db" /\ RowOf[t[x].job] = r
Moves(q, t, x, r)  == In(q, x) /\ t[x].kind \in {"handler", "dispatch"} /\ RowOf[t[x].job] = r
Writes(q, t, x, r) == Enters(q, t, x, r) \/ Moves(q, t, x, r)

\* A status is written for the job that is registered, before any other job is
\* entered.
MovesFirst(r, q, t, reg) ==
    \A x \in Tasks : Moves(q, t, x, r) =>
        /\ reg \in {None, t[x].job}
        /\ \A y \in Tasks : Enters(q, t, y, r) => Before(q, x, y)

\* A live job with a row id is the one registered, and nobody follows it.
LiveRegistered(r, q, t, jb, reg) ==
    \A j \in Jobs : RowOf[j] = r /\ Live(jb[j]) /\ jb[j].hasId =>
        reg = j /\ \A x \in Tasks : ~Enters(q, t, x, r)

\* Only the last job that is to be entered is live.
LastEnters(r, q, t, jb) ==
    \A x, y \in Tasks : Enters(q, t, x, r) /\ Enters(q, t, y, r) /\ Before(q, x, y) =>
        jb[t[x].job].dequeued

\* The last write is of its job's status.
LastWrites(r, q, t, jb) ==
    \A x \in Tasks : Writes(q, t, x, r) /\ (\A y \in Tasks : Before(q, x, y) => ~Writes(q, t, y, r)) =>
        t[x].wrote = jb[t[x].job].status

Shows(r, q, t, jb, reg, shown) ==
    (\A x \in Tasks : ~Writes(q, t, x, r)) /\ reg # None => shown = jb[reg].status

RowAgrees(r, q, t, jb, reg, shown) ==
    /\ MovesFirst(r, q, t, reg) /\ LiveRegistered(r, q, t, jb, reg)
    /\ LastEnters(r, q, t, jb) /\ LastWrites(r, q, t, jb)
    /\ Shows(r, q, t, jb, reg, shown)

\* The registration of row r is of a job of that row which has its row id, and so
\* have the jobs of the queued writes that need one.
RowTyped(r, q, t, jb, reg) ==
    /\ reg # None => reg \in Jobs /\ RowOf[reg] = r /\ jb[reg].hasId
    /\ \A x \in Tasks : Enters(q, t, x, r) => t[x].job \in Jobs /\ Begun(jb[t[x].job]) /\ ~jb[t[x].job].hasId
    /\ \A x \in Tasks : Moves(q, t, x, r) => t[x].job \in Jobs /\ jb[t[x].job].hasId

\* What a job's record must keep while its row is left alone.
SameWritten(a, b) ==
    /\ b.hasId => a.hasId
    /\ a.hasId \/ Begun(a) => b.status = a.status
    /\ a.dequeued => b.dequeued

\* Nobody writes to the row, or other writes, and at most its job is removed.
LEMMA RowQuiet ==
  ASSUME NEW r, NEW q, NEW s, NEW t, NEW u, NEW jb, NEW kb, NEW reg, NEW sreg, NEW shown,
         RowTyped(r, q, t, jb, reg), RowAgrees(r, q, t, jb, reg, shown),
         \A x \in Tasks : Writes(s, u, x, r) \/ Writes(q, t, x, r) =>
            /\ In(s, x) /\ In(q, x) /\ u[x] = t[x]
            /\ \A y \in Tasks : Writes(s, u, y, r) \/ Writes(q, t, y, r) => (Before(s, x, y) <=> Before(q, x, y)),
         \A j \in Jobs : RowOf[j] = r => SameWritten(jb[j], kb[j]),
         sreg = reg \/ (sreg = None /\ (reg # None => kb[reg].dequeued))
  PROVE  RowAgrees(r, s, u, kb, sreg, shown)
<1>1. /\ \A x \in Tasks : Writes(s, u, x, r) <=> Writes(q, t, x, r)
      /\ \A x \in Tasks : Enters(s, u, x, r) <=> Enters(q, t, x, r)
      /\ \A x \in Tasks : Moves(s, u, x, r) <=> Moves(q, t, x, r)
      /\ \A x \in Tasks : Writes(q, t, x, r) => u[x] = t[x]
      /\ \A x, y \in Tasks : Writes(q, t, x, r) /\ Writes(q, t, y, r) => (Before(s, x, y) <=> Before(q, x, y))
  BY DEF Writes, Enters, Moves
<1>2. /\ \A x \in Tasks : Enters(q, t, x, r) \/ Moves(q, t, x, r) <=> Writes(q, t, x, r)
      /\ \A x \in Tasks : Writes(q, t, x, r) => t[x].job \in Jobs /\ RowOf[t[x].job] = r
                                              /\ kb[t[x].job].status = jb[t[x].job].status
  BY DEF Writes, Enters, Moves, RowTyped, SameWritten
<1>3. MovesFirst(r, s, u, sreg)
  BY <1>1, <1>2 DEF RowAgrees, MovesFirst
<1>4. LiveRegistered(r, s, u, kb, sreg)
  <2> SUFFICES ASSUME NEW j \in Jobs, RowOf[j] = r, Live(kb[j]), kb[j].hasId
               PROVE  sreg = j /\ \A x \in Tasks : ~Enters(q, t, x, r)
    BY <1>1 DEF LiveRegistered
  <2>1. jb[j].hasId /\ Live(jb[j])
    BY DEF SameWritten, Live, Begun
  <2>2. reg = j /\ \A x \in Tasks : ~Enters(q, t, x, r)
    BY <2>1 DEF RowAgrees, LiveRegistered
  <2> QED
    BY <2>2, Assumptions DEF Live
<1>5. LastEnters(r, s, u, kb)
  BY <1>1, <1>2 DEF RowAgrees, LastEnters, SameWritten
<1>6. LastWrites(r, s, u, kb)
  BY <1>1, <1>2 DEF RowAgrees, LastWrites
<1>7. Shows(r, s, u, kb, sreg, shown)
  BY <1>1 DEF RowAgrees, Shows, RowTyped, SameWritten
<1> QED
  BY <1>3, <1>4, <1>5, <1>6, <1>7 DEF RowAgrees

\* A step of a task that writes to another row, if it writes.
LEMMA RowElsewhere ==
  ASSUME NEW r, NEW q, NEW s, NEW t, NEW u, NEW jb, NEW kb, NEW reg, NEW sreg, NEW shown,
         RowTyped(r, q, t, jb, reg), RowAgrees(r, q, t, jb, reg, shown),
         NEW k \in Tasks, QueueStep(q, s, k), \A x \in Tasks : x # k => u[x] = t[x],
         ~Writes(q, t, k, r), ~Writes(s, u, k, r),
         \A j \in Jobs : RowOf[j] = r => SameWritten(jb[j], kb[j]),
         sreg = reg \/ (sreg = None /\ (reg # None => kb[reg].dequeued))
  PROVE  RowAgrees(r, s, u, kb, sreg, shown)
<1>1. /\ \A x \in Tasks : x # k => (In(s, x) <=> In(q, x))
      /\ \A x, y \in Tasks : x # k /\ y # k => (Before(s, x, y) <=> Before(q, x, y))
  BY OrderKept
<1>2. \A x \in Tasks : Writes(s, u, x, r) \/ Writes(q, t, x, r) => x # k /\ In(s, x) /\ In(q, x) /\ u[x] = t[x]
  BY <1>1 DEF Writes, Enters, Moves
<1> QED
  BY <1>1, <1>2, RowQuiet

\* The write of a status lands.
LEMMA RowMoved ==
  ASSUME NEW r, NEW q \in Seq(Tasks), Distinct(q), q # <<>>, NEW t, NEW jb, NEW reg, NEW shown,
         RowAgrees(r, q, t, jb, reg, shown), Moves(q, t, Head(q), r)
  PROVE  RowAgrees(r, Tail(q), t, jb, reg, t[Head(q)].wrote)
<1> DEFINE s == Tail(q)  h == Head(q)
<1>1. /\ h \in Tasks /\ In(q, h) /\ ~In(s, h)
      /\ \A x \in Tasks : In(s, x) <=> In(q, x) /\ x # h
      /\ \A x, y \in Tasks : Before(s, x, y) <=> Before(q, x, y) /\ x # h
      /\ \A x \in Tasks : ~Before(q, x, h)
  BY OrderLess
<1>2. Moves(q, t, h, r)
  OBVIOUS
<1> HIDE DEF s, h
<1>3. /\ \A x \in Tasks : Enters(s, t, x, r) <=> Enters(q, t, x, r) /\ x # h
      /\ \A x \in Tasks : Moves(s, t, x, r) <=> Moves(q, t, x, r) /\ x # h
      /\ \A x \in Tasks : Writes(s, t, x, r) <=> Writes(q, t, x, r) /\ x # h
  BY <1>1 DEF Writes, Enters, Moves
<1>4. MovesFirst(r, s, t, reg)
  BY <1>1, <1>3 DEF RowAgrees, MovesFirst
<1>5. LiveRegistered(r, s, t, jb, reg)
  BY <1>3 DEF RowAgrees, LiveRegistered
<1>6. LastEnters(r, s, t, jb)
  BY <1>1, <1>3 DEF RowAgrees, LastEnters
<1>7. LastWrites(r, s, t, jb)
  BY <1>1, <1>3 DEF RowAgrees, LastWrites
<1>8. Shows(r, s, t, jb, reg, t[h].wrote)
  <2> SUFFICES ASSUME \A x \in Tasks : ~Writes(s, t, x, r), reg # None
               PROVE  t[h].wrote = jb[reg].status
    BY DEF Shows
  <2>1. \A y \in Tasks : Before(q, h, y) => ~Writes(q, t, y, r)
    BY <1>1, <1>3
  <2>2. t[h].wrote = jb[t[h].job].status
    BY <1>1, <1>2, <2>1 DEF RowAgrees, LastWrites, Writes
  <2>3. reg = t[h].job
    BY <1>1, <1>2 DEF RowAgrees, MovesFirst
  <2> QED
    BY <2>2, <2>3
<1>9. RowAgrees(r, s, t, jb, reg, t[h].wrote)
  BY <1>4, <1>5, <1>6, <1>7, <1>8 DEF RowAgrees
<1> QED
  BY <1>9 DEF s, h

\* A registration lands: the job gets its row id and is the one registered.
LEMMA RowEntered ==
  ASSUME NEW r, NEW q \in Seq(Tasks), Distinct(q), q # <<>>, NEW t, NEW jb, NEW kb, NEW reg, NEW shown,
         RowTyped(r, q, t, jb, reg), RowAgrees(r, q, t, jb, reg, shown), Enters(q, t, Head(q), r),
         NEW j \in Jobs, j = t[Head(q)].job, \A i \in Jobs : i # j => kb[i] = jb[i],
         kb[j].status = jb[j].status, kb[j].dequeued = jb[j].dequeued
  PROVE  RowAgrees(r, Tail(q), t, kb, j, t[Head(q)].wrote)
<1> DEFINE s == Tail(q)  h == Head(q)
<1>1. /\ h \in Tasks /\ In(q, h) /\ ~In(s, h)
      /\ \A x \in Tasks : In(s, x) <=> In(q, x) /\ x # h
      /\ \A x, y \in Tasks : Before(s, x, y) <=> Before(q, x, y) /\ x # h
      /\ \A x \in Tasks : In(q, x) /\ x # h => Before(q, h, x)
      /\ \A x \in Tasks : ~Before(q, x, h)
  BY OrderLess
<1>2. Enters(q, t, h, r) /\ j = t[h].job
  OBVIOUS
<1> HIDE DEF s, h
<1>3. /\ \A x \in Tasks : Enters(s, t, x, r) <=> Enters(q, t, x, r) /\ x # h
      /\ \A x \in Tasks : ~Moves(s, t, x, r)
      /\ \A x \in Tasks : ~Moves(q, t, x, r)
  <2>1. \A x \in Tasks : ~Moves(q, t, x, r)
    BY <1>1, <1>2 DEF RowAgrees, MovesFirst
  <2> QED
    BY <1>1, <2>1 DEF Enters, Moves
<1>4. MovesFirst(r, s, t, j)
  BY <1>3 DEF MovesFirst
<1>5. LiveRegistered(r, s, t, kb, j)
  <2> SUFFICES ASSUME NEW i \in Jobs, RowOf[i] = r, Live(kb[i]), kb[i].hasId
               PROVE  i = j /\ \A x \in Tasks : ~Enters(s, t, x, r)
    BY DEF LiveRegistered
  <2>1. i = j
    BY <1>1, <1>2 DEF RowAgrees, LiveRegistered
  <2>2. ~jb[j].dequeued
    BY <2>1 DEF Live
  <2>3. ASSUME NEW x \in Tasks, Enters(s, t, x, r) PROVE FALSE
    <3>1. Enters(q, t, x, r) /\ Before(q, h, x)
      BY <1>1, <1>3, <2>3 DEF Enters
    <3> QED
      BY <1>1, <1>2, <2>2, <3>1 DEF RowAgrees, LastEnters
  <2> QED
    BY <2>1, <2>3
<1>6. \A i \in Jobs : kb[i].status = jb[i].status /\ kb[i].dequeued = jb[i].dequeued
  OBVIOUS
<1>7. \A x \in Tasks : Enters(q, t, x, r) => t[x].job \in Jobs
  BY DEF RowTyped
<1>8. LastEnters(r, s, t, kb)
  BY <1>1, <1>3, <1>6, <1>7 DEF RowAgrees, LastEnters
<1>9. LastWrites(r, s, t, kb)
  BY <1>1, <1>3, <1>6, <1>7 DEF RowAgrees, LastWrites, Writes
<1>10. Shows(r, s, t, kb, j, t[h].wrote)
  <2> SUFFICES ASSUME \A x \in Tasks : ~Writes(s, t, x, r)
               PROVE  t[h].wrote = kb[j].status
    BY DEF Shows
  <2>1. \A y \in Tasks : Before(q, h, y) => ~Writes(q, t, y, r)
    BY <1>1, <1>3 DEF Writes
  <2> QED
    BY <1>1, <1>2, <1>6, <2>1 DEF RowAgrees, LastWrites, Writes
<1>11. RowAgrees(r, s, t, kb, j, t[h].wrote)
  BY <1>4, <1>5, <1>8, <1>9, <1>10 DEF RowAgrees
<1> QED
  BY <1>11 DEF s, h

\* A write of a live job's new status is submitted.
LEMMA RowMoves ==
  ASSUME NEW r, NEW q \in Seq(Tasks), NEW t, NEW u, NEW jb, NEW kb, NEW reg, NEW shown,
         RowTyped(r, q, t, jb, reg), RowAgrees(r, q, t, jb, reg, shown),
         NEW k \in Tasks, ~In(q, k), \A x \in Tasks : x # k => u[x] = t[x],
         NEW j \in Jobs, RowOf[j] = r, Live(jb[j]), jb[j].hasId,
         u[k].kind \in {"handler", "dispatch"}, u[k].job = j, u[k].wrote = kb[j].status,
         \A i \in Jobs : i # j => kb[i] = jb[i], kb[j].dequeued = jb[j].dequeued
  PROVE  RowAgrees(r, Append(q, k), u, kb, reg, shown)
<1> DEFINE s == Append(q, k)
<1>1. /\ \A x \in Tasks : In(s, x) <=> In(q, x) \/ x = k
      /\ \A x, y \in Tasks : Before(s, x, y) <=> Before(q, x, y) \/ (In(q, x) /\ y = k)
  BY OrderMore
<1> HIDE DEF s
<1>2. /\ \A x \in Tasks : ~Enters(q, t, x, r)
      /\ reg = j
  BY DEF RowAgrees, LiveRegistered
<1>3. /\ \A x \in Tasks : ~Enters(s, u, x, r)
      /\ \A x \in Tasks : Moves(s, u, x, r) <=> Moves(q, t, x, r) \/ x = k
      /\ \A x \in Tasks : Moves(q, t, x, r) => x # k
  BY <1>1, <1>2 DEF Enters, Moves
<1>4. MovesFirst(r, s, u, reg)
  BY <1>2, <1>3 DEF RowAgrees, MovesFirst
<1>5. LiveRegistered(r, s, u, kb, reg)
  <2> SUFFICES ASSUME NEW i \in Jobs, RowOf[i] = r, Live(kb[i]), kb[i].hasId
               PROVE  reg = i
    BY <1>3 DEF LiveRegistered
  <2>1. CASE i = j
    BY <1>2, <2>1
  <2>2. CASE i # j
    BY <2>2 DEF RowAgrees, LiveRegistered
  <2> QED
    BY <2>1, <2>2
<1>6. LastEnters(r, s, u, kb)
  BY <1>3 DEF LastEnters
<1>7. LastWrites(r, s, u, kb)
  BY <1>1, <1>3 DEF LastWrites, Writes, Moves
<1>8. Shows(r, s, u, kb, reg, shown)
  BY <1>3 DEF Shows, Writes
<1>9. RowAgrees(r, s, u, kb, reg, shown)
  BY <1>4, <1>5, <1>6, <1>7, <1>8 DEF RowAgrees
<1> QED
  BY <1>9 DEF s

\* The registration of a job under a name that no live job has is submitted.
LEMMA RowStarts ==
  ASSUME NEW r, NEW q \in Seq(Tasks), NEW t, NEW u, NEW jb, NEW kb, NEW reg, NEW shown,
         RowTyped(r, q, t, jb, reg), RowAgrees(r, q, t, jb, reg, shown),
         NEW k \in Tasks, ~In(q, k), \A x \in Tasks : x # k => u[x] = t[x],
         NEW j \in Jobs, RowOf[j] = r, ~Begun(jb[j]), ~jb[j].hasId,
         \A i \in Jobs : RowOf[i] = r => ~Live(jb[i]),
         u[k].kind = "register", u[k].at = "db", u[k].job = j, u[k].wrote = kb[j].status,
         \A i \in Jobs : i # j => kb[i] = jb[i], ~kb[j].hasId
  PROVE  RowAgrees(r, Append(q, k), u, kb, reg, shown)
<1> DEFINE s == Append(q, k)
<1>1. /\ \A x \in Tasks : In(s, x) <=> In(q, x) \/ x = k
      /\ \A x, y \in Tasks : Before(s, x, y) <=> Before(q, x, y) \/ (In(q, x) /\ y = k)
  BY OrderMore
<1> HIDE DEF s
<1>2. /\ \A x \in Tasks : Enters(s, u, x, r) <=> Enters(q, t, x, r) \/ x = k
      /\ \A x \in Tasks : Moves(s, u, x, r) <=> Moves(q, t, x, r)
      /\ \A x \in Tasks : Moves(q, t, x, r) \/ Enters(q, t, x, r) => x # k /\ In(q, x)
  BY <1>1 DEF Enters, Moves
<1>3. MovesFirst(r, s, u, reg)
  BY <1>1, <1>2 DEF RowAgrees, MovesFirst
<1>4. LiveRegistered(r, s, u, kb, reg)
  BY DEF LiveRegistered
<1>5. \A x \in Tasks : Enters(q, t, x, r) => /\ t[x].job \in Jobs /\ jb[t[x].job].dequeued
                                             /\ kb[t[x].job] = jb[t[x].job]
  BY DEF RowTyped, Enters, Live
<1>6. LastEnters(r, s, u, kb)
  <2> SUFFICES ASSUME NEW x \in Tasks, NEW y \in Tasks, Enters(s, u, x, r), Before(s, x, y), Enters(s, u, y, r)
               PROVE  kb[u[x].job].dequeued
    BY DEF LastEnters
  <2>1. CASE x = k
    BY <1>1, <1>2, <2>1, OrderIn DEF Enters
  <2>2. CASE x # k
    BY <1>2, <1>5, <2>2
  <2> QED
    BY <2>1, <2>2
<1>7. LastWrites(r, s, u, kb)
  BY <1>1, <1>2 DEF LastWrites, Writes
<1>8. Shows(r, s, u, kb, reg, shown)
  BY <1>2 DEF Shows, Writes
<1>9. RowAgrees(r, s, u, kb, reg, shown)
  BY <1>3, <1>4, <1>6, <1>7, <1>8 DEF RowAgrees
<1> QED
  BY <1>9 DEF s

----------------------------------------------------------------------------
(* The invariant of names, rows and live jobs *)

RowTable == row \in [Rows -> [status : Statuses \cup {None}, removed : BOOLEAN]]

\* A live job has its name, or is one that remove_all_jobs() is to remove.
Named ==
    ~(app.dbFails /\ "all" \in app.removals) => \A j \in Jobs :
        Live(job[j]) /\ RowOf[j] \notin contested =>
            \/ names[RowOf[j]] = j
            \/ \E k \in Tasks : task[k].kind = "removeall" /\ j \in task[k].rest

\* Indexes and replacements keep to one row.
Homes ==
    /\ \A r \in Rows : names[r] # None => RowOf[names[r]] = r
    /\ \A r \in Rows : registry[r] # None => RowOf[registry[r]] = r /\ job[registry[r]].hasId
    /\ \A k \in Tasks : task[k].kind = "replace" =>
         \A j \in task[k].rest : RowOf[j] = RowOf[task[k].job]

Kinds == \A k \in Tasks :
    /\ task[k].kind = "removeall" => "all" \in app.removals
    /\ task[k].kind = "remove" => "remove" \in app.removals \/ app.dbFails

Replaces(k, r) == task[k].kind = "replace" /\ RowOf[task[k].job] = r

\* The name under replacement is free, and only one replacement is under way.
Unnamed ==
    \A k \in Tasks, r \in Rows : Replaces(k, r) =>
        \/ names[r] = None /\ \A i \in Tasks : Replaces(i, r) => i = k
        \/ r \in contested

RowsAgree ==
    ~app.dbFails /\ "all" \notin app.removals => \A r \in Rows \ contested :
        RowAgrees(r, dbq, task, job, registry[r], row[r].status)

Kept ==
    app.removals \subseteq {"replace"} /\ ~app.dbFails => \A r \in Rows \ contested :
        registry[r] # None /\ row[r].removed => job[registry[r]].dequeued

NamesInv == Named /\ Homes /\ Kinds /\ Unnamed

AgreeInv == RowTable /\ NamesInv /\ RowsAgree /\ Kept

----------------------------------------------------------------------------
(* What steps keep of it *)

\* Task k leaves no job behind that it is to remove, and what it becomes is
\* allowed.
GoesOn(k) ==
    /\ task[k].kind = "removeall" =>
         \/ app.dbFails
         \/ \A j \in task[k].rest : job'[j].dequeued \/ (task'[k].kind = "removeall" /\ j \in task'[k].rest)
    /\ task'[k].kind = "removeall" => task[k].kind = "removeall"
    /\ task'[k].kind = "remove" => task[k].kind = "remove" \/ "remove" \in app.removals \/ app.dbFails
    /\ task'[k].kind = "replace" =>
         \/ task[k].kind = "replace" /\ task'[k].job = task[k].job /\ task'[k].rest = task[k].rest
         \/ /\ names[RowOf[task'[k].job]] # None /\ names'[RowOf[task'[k].job]] = None
            /\ \A j \in task'[k].rest : RowOf[j] = RowOf[task'[k].job]

LEMMA NamesQuiet ==
  ASSUME NamesInv, Indexes, Indexes', TasksSound', UNCHANGED <<app, contested>>,
         NEW k \in Tasks, OnlyTask(k),
         \A j \in Jobs : (job[j].hasId => job'[j].hasId) /\ (Live(job'[j]) => Live(job[j])),
         \A r \in Rows : names'[r] = names[r] \/ (names'[r] = None /\ job'[names[r]].dequeued),
         \A r \in Rows : registry'[r] \in {None, registry[r]} \/ (RowOf[registry'[r]] = r /\ job'[registry'[r]].hasId),
         GoesOn(k)
  PROVE  NamesInv'
<1> USE Assumptions
<1>1. \A i \in Tasks : i # k => task'[i] = task[i]
  BY DEF OnlyTask
<1>2. Named'
  <2> SUFFICES ASSUME ~(app.dbFails /\ "all" \in app.removals), NEW j \in Jobs, Live(job'[j]), RowOf[j] \notin contested
               PROVE  \/ names'[RowOf[j]] = j
                      \/ \E i \in Tasks : task'[i].kind = "removeall" /\ j \in task'[i].rest
    BY DEF Named
  <2>1. Live(job[j]) /\ ~job'[j].dequeued /\ RowOf[j] \in Rows
    BY DEF Live
  <2>2. CASE names[RowOf[j]] = j
    BY <2>1, <2>2
  <2>3. ASSUME NEW i \in Tasks, task[i].kind = "removeall", j \in task[i].rest
        PROVE  \E n \in Tasks : task'[n].kind = "removeall" /\ j \in task'[n].rest
    <3>1. CASE i # k
      BY <1>1, <2>3, <3>1
    <3>2. CASE i = k
      BY <2>1, <2>3, <3>2 DEF NamesInv, Kinds, GoesOn
    <3> QED
      BY <3>1, <3>2
  <2> QED
    BY <2>1, <2>2, <2>3 DEF NamesInv, Named
<1>3. Homes'
  <2>1. \A r \in Rows : names'[r] # None => RowOf[names'[r]] = r
    BY DEF NamesInv, Homes
  <2>2. \A r \in Rows : registry'[r] # None => RowOf[registry'[r]] = r /\ job'[registry'[r]].hasId
    BY DEF NamesInv, Homes, Indexes
  <2>3. \A i \in Tasks : task'[i].kind = "replace" => \A j \in task'[i].rest : RowOf[j] = RowOf[task'[i].job]
    BY <1>1 DEF NamesInv, Homes, GoesOn
  <2> QED
    BY <2>1, <2>2, <2>3 DEF Homes
<1>4. Kinds'
  BY <1>1 DEF NamesInv, Kinds, GoesOn
<1>5. Unnamed'
  <2> SUFFICES ASSUME NEW i \in Tasks, NEW r \in Rows, Replaces(i, r)', r \notin contested
               PROVE  names'[r] = None /\ \A n \in Tasks : Replaces(n, r)' => n = i
    BY DEF Unnamed
  <2>1. \A n \in Tasks : Replaces(n, r)' => Replaces(n, r) \/ (n = k /\ names[r] # None /\ names'[r] = None)
    BY <1>1 DEF Replaces, GoesOn
  <2>2. ASSUME NEW n \in Tasks, Replaces(n, r)
        PROVE  names[r] = None /\ names'[r] = None /\ \A m \in Tasks : Replaces(m, r) => m = n
    BY <2>2 DEF NamesInv, Unnamed
  <2> QED
    BY <2>1, <2>2
<1> QED
  BY <1>2, <1>3, <1>4, <1>5 DEF NamesInv

LEMMA KeptQuiet ==
  ASSUME Kept, NamesInv, Indexes, UNCHANGED app, contested \subseteq contested',
         \A j \in Jobs : job[j].dequeued => job'[j].dequeued,
         \A r \in Rows : registry'[r] \in {None, registry[r]},
         \A r \in Rows : row'[r].removed => row[r].removed
  PROVE  Kept'
BY DEF Kept, Indexes

LEMMA RowsTyped ==
  ASSUME SchedulerInv, AgreeInv, NEW r \in Rows
  PROVE  RowTyped(r, dbq, task, job, registry[r])
<1>1. registry[r] # None => registry[r] \in Jobs /\ RowOf[registry[r]] = r /\ job[registry[r]].hasId
  BY DEF SchedulerInv, Indexes, AgreeInv, NamesInv, Homes
<1>2. ASSUME NEW x \in Tasks, Enters(dbq, task, x, r)
      PROVE  task[x].job \in Jobs /\ Begun(job[task[x].job]) /\ ~job[task[x].job].hasId
  <2>1. TaskTyped(task[x]) /\ TaskSound(x)
    BY DEF SchedulerInv, TasksSound, TaskSound
  <2>2. task[x].job \in Jobs
    BY <1>2, <2>1, WatchRegisters DEF Enters
  <2> QED
    BY <1>2, <2>1, <2>2 DEF Enters, TaskSound, Registers
<1>3. ASSUME NEW x \in Tasks, Moves(dbq, task, x, r)
      PROVE  task[x].job \in Jobs /\ job[task[x].job].hasId
  <2>1. TaskTyped(task[x]) /\ TaskSound(x)
    BY DEF SchedulerInv, TasksSound, TaskSound
  <2>2. task[x].job \in Jobs
    BY <1>3, <2>1, WatchRegisters DEF Moves
  <2> QED
    BY <1>3, <2>1, <2>2 DEF Moves, TaskSound
<1> QED
  BY <1>1, <1>2, <1>3 DEF RowTyped

\* A task that served its write, or had none, ends or submits a write of the
\* status it has given the job.
LEMMA WriterAgrees ==
  ASSUME SchedulerInv, SchedulerInv', AgreeInv, UNCHANGED <<app, contested, registry, names>>, RowTable',
         NEW k \in Tasks, NEW j \in Jobs, OnlyTask(k),
         task[k].kind \notin {"replace", "removeall"}, task'[k].kind \in {"free", "handler", "dispatch"},
         job[j].hasId, job'[j].hasId, job'[j].dequeued = job[j].dequeued,
         \A i \in Jobs : i # j => job'[i] = job[i],
         \A r \in Rows : row'[r].removed = row[r].removed,
         NEW queue \in Seq(Tasks), ~In(queue, k), \A x \in Tasks : In(queue, x) => In(dbq, x), Distinct(queue),
         ~app.dbFails /\ "all" \notin app.removals => \A r \in Rows \ contested :
            RowAgrees(r, queue, task, job, registry[r], row'[r].status),
         \/ dbq' = queue /\ job'[j].status = job[j].status
         \/ /\ dbq' = Append(queue, k) /\ ~job[j].dequeued /\ task'[k].kind # "free"
            /\ task'[k].job = j /\ task'[k].wrote = job'[j].status
  PROVE  AgreeInv'
<1>1. /\ JobsSound /\ JobsSound' /\ Indexes /\ Indexes' /\ TasksSound /\ TasksSound'
      /\ RowTable /\ NamesInv /\ RowsAgree /\ Kept
  BY DEF SchedulerInv, AgreeInv
<1>2. \A i \in Tasks : i # k => task'[i] = task[i]
  BY DEF OnlyTask
<1>3. \A i \in Jobs : Live(job'[i]) <=> Live(job[i])
  <2>1. Begun(job[j]) /\ Begun(job'[j])
    BY <1>1 DEF JobsSound, JobSound
  <2> QED
    BY <2>1 DEF Live
<1>4. NamesInv'
  <2>1. GoesOn(k)
    BY DEF GoesOn
  <2> QED
    BY <1>1, <1>3, <2>1, NamesQuiet DEF Indexes
<1>5. Kept'
  BY <1>1, KeptQuiet
<1>6. RowsAgree'
  <2> SUFFICES ASSUME ~app.dbFails, "all" \notin app.removals, NEW r \in Rows, r \notin contested
               PROVE  RowAgrees(r, dbq', task', job', registry[r], row'[r].status)
    BY DEF RowsAgree
  <2>1. RowAgrees(r, queue, task, job, registry[r], row'[r].status)
    OBVIOUS
  <2>2. RowTyped(r, queue, task, job, registry[r])
    <3>1. RowTyped(r, dbq, task, job, registry[r])
      BY RowsTyped
    <3> QED
      BY <3>1 DEF RowTyped, Enters, Moves
  <2>3. CASE dbq' = queue /\ job'[j].status = job[j].status
    <3>1. QueueStep(queue, dbq', k) /\ ~Writes(queue, task, k, r) /\ ~Writes(dbq', task', k, r)
      BY <2>3 DEF QueueStep, Writes, Enters, Moves
    <3>2. \A i \in Jobs : SameWritten(job[i], job'[i])
      BY <2>3 DEF SameWritten
    <3> QED
      BY <1>2, <2>1, <2>2, <3>1, <3>2, RowElsewhere
  <2>4. CASE /\ dbq' = Append(queue, k) /\ ~job[j].dequeued /\ task'[k].kind # "free"
             /\ task'[k].job = j /\ task'[k].wrote = job'[j].status
    <3>1. CASE RowOf[j] = r
      <4>1. Live(job[j])
        BY <1>1, <2>4 DEF JobsSound, JobSound, Live
      <4> QED
        BY <1>2, <2>1, <2>2, <2>4, <3>1, <4>1, RowMoves
    <3>2. CASE RowOf[j] # r
      <4>1. QueueStep(queue, dbq', k) /\ ~Writes(queue, task, k, r) /\ ~Writes(dbq', task', k, r)
        BY <2>4, <3>2 DEF QueueStep, Writes, Enters, Moves
      <4>2. \A i \in Jobs : RowOf[i] = r => SameWritten(job[i], job'[i])
        BY <3>2 DEF SameWritten
      <4> QED
        BY <1>2, <2>1, <2>2, <4>1, <4>2, RowElsewhere
    <3> QED
      BY <3>1, <3>2
  <2> QED
    BY <2>3, <2>4
<1> QED
  BY <1>4, <1>5, <1>6 DEF AgreeInv

\* Environment steps.
LEMMA AgreeSame ==
  ASSUME AgreeInv, UNCHANGED <<app, contested, job, registry, names, row, task, dbq>>
  PROVE  AgreeInv'
BY DEF AgreeInv, RowTable, NamesInv, Named, Homes, Kinds, Unnamed, Replaces, RowsAgree, Kept

\* A task that is not waiting for the database is not in its queue.
LEMMA NotQueued ==
  ASSUME Queue, NEW k \in Tasks, task[k].at \notin {"db", "again", "watch"}
  PROVE  ~In(dbq, k)
BY DEF Queue, In

\* When the head of the queue is served, the rest is as before.
LEMMA ServedRest ==
  ASSUME SchedulerInv, AgreeInv, NEW k \in Tasks, Served(k), ~app.dbFails, "all" \notin app.removals,
         NEW r \in Rows, r \notin contested, NEW shown,
         \/ ~Writes(dbq, task, k, r) /\ shown = row[r].status
         \/ Moves(dbq, task, k, r) /\ shown = task[k].wrote
  PROVE  RowAgrees(r, Tail(dbq), task, job, registry[r], shown)
<1>1. dbq \in Seq(Tasks) /\ Distinct(dbq) /\ dbq # <<>> /\ Head(dbq) = k
  BY DEF SchedulerInv, Queue, Served
<1>2. RowAgrees(r, dbq, task, job, registry[r], row[r].status) /\ RowTyped(r, dbq, task, job, registry[r])
  BY RowsTyped DEF AgreeInv, RowsAgree
<1>3. CASE ~Writes(dbq, task, k, r) /\ shown = row[r].status
  <2>1. ~In(Tail(dbq), k)
    BY <1>1, OrderLess
  <2>2. QueueStep(dbq, Tail(dbq), k) /\ ~Writes(Tail(dbq), task, k, r)
    BY <1>1, <2>1 DEF QueueStep, Writes, Enters, Moves
  <2>3. \A j \in Jobs : SameWritten(job[j], job[j])
    BY DEF SameWritten
  <2> QED
    BY <1>2, <1>3, <2>2, <2>3, RowElsewhere
<1>4. CASE Moves(dbq, task, k, r) /\ shown = task[k].wrote
  BY <1>1, <1>2, <1>4, RowMoved
<1> QED
  BY <1>3, <1>4

LEMMA RowWritten ==
  ASSUME RowTable, NEW j \in Jobs, NEW w \in Statuses \cup {None}, row' = [row EXCEPT ![RowOf[j]].status = w]
  PROVE  /\ RowTable'
         /\ \A r \in Rows : row'[r].removed = row[r].removed
         /\ \A r \in Rows : row'[r].status = IF r = RowOf[j] THEN w ELSE row[r].status
<1>1. RowOf[j] \in Rows
  BY Assumptions
<1> QED
  BY <1>1 DEF RowTable

----------------------------------------------------------------------------
(* Steps that write a status *)

\* A call of reschedule_job() by a task that has nothing else in hand.
LEMMA CallAgrees ==
  ASSUME SchedulerInv, SchedulerInv', AgreeInv, UNCHANGED <<app, contested, registry, names, row>>,
         NEW k \in Tasks, task[k].kind \notin {"replace", "removeall"},
         NEW j \in Jobs, job[j].hasId, NEW to \in Times \cup {WAITING},
         NEW queue \in Seq(Tasks), ~In(queue, k), \A x \in Tasks : In(queue, x) => In(dbq, x), Distinct(queue),
         CallReschedule(k, j, job[j], to, queue),
         ~app.dbFails /\ "all" \notin app.removals => \A r \in Rows \ contested :
            RowAgrees(r, queue, task, job, registry[r], row[r].status)
  PROVE  AgreeInv'
<1> DEFINE s == Reschedule(job[j], to)
<1>1. JobsSound /\ TasksSound
  BY DEF SchedulerInv
<1>2. /\ s.hasId /\ s.dequeued = job[j].dequeued
      /\ ~Transitions(job[j]) => SameStage(job[j], s)
  <2>1. JobSound(job[j])
    BY <1>1 DEF JobsSound
  <2> QED
    BY <2>1, RescheduleFacts
<1>3. job' = [job EXCEPT ![j] = s]
  BY DEF CallReschedule
<1>4. \/ /\ Transitions(job[j])
         /\ task' = [task EXCEPT ![k] = Persisting("handler", j, "db", s)]
         /\ dbq' = Append(queue, k)
      \/ ~Transitions(job[j]) /\ task' = [task EXCEPT ![k] = Idle] /\ dbq' = queue
  BY DEF CallReschedule
<1> HIDE DEF s
<1>5. job'[j] = s /\ \A i \in Jobs : i # j => job'[i] = job[i]
  BY <1>1, <1>3, OneJob
<1>6. OnlyTask(k) /\ task'[k].kind \in {"free", "handler"}
  <2>1. Persisting("handler", j, "db", s).kind = "handler" /\ Idle.kind = "free"
    BY PersistingFacts DEF Idle
  <2> QED
    BY <1>1, <1>4, <2>1, OneTask
<1>7. \/ dbq' = queue /\ job'[j].status = job[j].status
      \/ /\ dbq' = Append(queue, k) /\ ~job[j].dequeued /\ task'[k].kind # "free"
         /\ task'[k].job = j /\ task'[k].wrote = job'[j].status
  <2>1. CASE ~Transitions(job[j])
    BY <1>2, <1>4, <1>5, <2>1 DEF SameStage
  <2>2. CASE Transitions(job[j])
    <3>1. task'[k] = [kind |-> "handler", job |-> j, at |-> "db", rest |-> {}, wrote |-> s.status]
      BY <1>1, <1>4, <2>2, PersistingFacts, OneTask
    <3> QED
      BY <1>4, <1>5, <2>2, <3>1 DEF Transitions
  <2> QED
    BY <2>1, <2>2
<1>8. RowTable'
  BY DEF AgreeInv, RowTable
<1> QED
  BY <1>2, <1>5, <1>6, <1>7, <1>8, WriterAgrees

LEMMA HandlerStartAgrees ==
  ASSUME SchedulerInv, SchedulerInv', AgreeInv, HandlerStart
  PROVE  AgreeInv'
<1>1. JobsSound /\ TasksSound /\ Indexes /\ Queue
  BY DEF SchedulerInv
<1>2. PICK k, e : k = NewTask /\ e = Head(inbox)
  OBVIOUS
<1>3. PICK to : to = Resolve(e.time)
  OBVIOUS
<1>4. /\ inbox # <<>> /\ Free # {}
      /\ UNCHANGED <<app, contested, registry, names, row>>
      /\ UNCHANGED <<job, task, dbq>> \/ CallReschedule(k, e.job, job[e.job], to, dbq)
  BY <1>2, <1>3 DEF HandlerStart, tables
<1>5. k \in Tasks /\ task[k].kind = "free"
  BY <1>2, <1>4, NewTaskIsFree
<1>6. e.job \in Jobs /\ job[e.job].hasId /\ to \in Times \cup {WAITING}
  <2>1. inbox \in Seq(Changes) /\ e = inbox[1] /\ 1 \in 1..Len(inbox)
    BY <1>1, <1>2, <1>4 DEF Indexes
  <2>2. e \in Changes /\ job[e.job].hasId
    BY <1>1, <2>1 DEF Indexes
  <2>3. e.job \in Jobs /\ e.time \in Times \cup {None}
    BY <2>2 DEF Changes
  <2> QED
    BY <1>1, <1>3, <2>2, <2>3, Resolved
<1>7. CASE UNCHANGED <<job, task, dbq>>
  BY <1>4, <1>7, AgreeSame
<1>8. CASE CallReschedule(k, e.job, job[e.job], to, dbq)
  <2>1. ~In(dbq, k)
    <3>1. TaskTyped(task[k])
      BY <1>1, <1>5 DEF TasksSound, TaskSound
    <3> QED
      BY <1>1, <1>5, <3>1, WatchRegisters, NotQueued
  <2>2. dbq \in Seq(Tasks) /\ Distinct(dbq)
    BY <1>1 DEF Queue
  <2>3. ~app.dbFails /\ "all" \notin app.removals => \A r \in Rows \ contested :
            RowAgrees(r, dbq, task, job, registry[r], row[r].status)
    BY DEF AgreeInv, RowsAgree
  <2> QED
    BY <1>4, <1>5, <1>6, <1>8, <2>1, <2>2, <2>3, CallAgrees
<1> QED
  BY <1>4, <1>7, <1>8

\* The rest of the queue of a task that is served.
LEMMA ServedQueue ==
  ASSUME SchedulerInv, NEW k \in Tasks, Served(k)
  PROVE  /\ dbq \in Seq(Tasks) /\ Distinct(dbq) /\ dbq # <<>> /\ Head(dbq) = k
         /\ Tail(dbq) \in Seq(Tasks) /\ Distinct(Tail(dbq)) /\ ~In(Tail(dbq), k)
         /\ \A x \in Tasks : In(Tail(dbq), x) => In(dbq, x)
         /\ task[k].at \in {"db", "again", "watch"} /\ TaskTyped(task[k]) /\ TaskSound(k)
         /\ task[k].job \in Jobs
<1>1. Queue /\ TasksSound
  BY DEF SchedulerInv
<1>2. dbq \in Seq(Tasks) /\ Distinct(dbq) /\ dbq # <<>> /\ Head(dbq) = k
  BY <1>1 DEF Queue, Served
<1>3. task[k].at \in {"db", "again", "watch"} /\ TaskTyped(task[k]) /\ TaskSound(k)
  BY <1>1, ServedTask
<1> QED
  BY <1>2, <1>3, OrderLess, WatchRegisters

LEMMA WatchInstalledAgrees ==
  ASSUME SchedulerInv, SchedulerInv', AgreeInv, NEW k \in Tasks, WatchInstalled(k)
  PROVE  AgreeInv'
<1>1. JobsSound /\ TasksSound /\ Indexes /\ Queue /\ RowTable /\ RowTable'
  BY DEF SchedulerInv, AgreeInv, RowTable, WatchInstalled
<1>2. PICK j, to : j = task[k].job /\ to = Resolve(cache[j])
  OBVIOUS
<1>3. /\ Served(k) /\ task[k].at = "watch"
      /\ UNCHANGED <<app, contested, registry, names, row>>
      /\ \/ task' = [task EXCEPT ![k] = Idle] /\ dbq' = Tail(dbq) /\ UNCHANGED job
         \/ CallReschedule(k, j, job[j], to, Tail(dbq))
  BY <1>2 DEF WatchInstalled
<1>4. /\ TaskTyped(task[k]) /\ TaskSound(k) /\ j \in Jobs /\ task[k].kind = "register"
      /\ Tail(dbq) \in Seq(Tasks) /\ Distinct(Tail(dbq)) /\ ~In(Tail(dbq), k)
      /\ \A x \in Tasks : In(Tail(dbq), x) => In(dbq, x)
  BY <1>2, <1>3, ServedQueue, WatchRegisters
<1>5. job[j].hasId /\ to \in Times \cup {WAITING}
  <2>1. cache[j] \in Times \cup {None}
    BY <1>1, <1>4 DEF Indexes
  <2> QED
    BY <1>1, <1>2, <1>3, <1>4, <2>1, Resolved DEF TaskSound
<1>6. \A r \in Rows : ~Writes(dbq, task, k, r)
  BY <1>3, <1>4 DEF Writes, Enters, Moves
<1>7. ~app.dbFails /\ "all" \notin app.removals => \A r \in Rows \ contested :
        RowAgrees(r, Tail(dbq), task, job, registry[r], row[r].status)
  BY <1>3, <1>6, ServedRest
<1>8. CASE task' = [task EXCEPT ![k] = Idle] /\ dbq' = Tail(dbq) /\ UNCHANGED job
  <2>1. OnlyTask(k) /\ task'[k] = Idle
    BY <1>1, <1>8, OneTask
  <2>2. task'[k].kind = "free"
    BY <2>1 DEF Idle
  <2> QED
    BY <1>1, <1>3, <1>4, <1>5, <1>7, <1>8, <2>1, <2>2, WriterAgrees
<1>9. CASE CallReschedule(k, j, job[j], to, Tail(dbq))
  BY <1>3, <1>4, <1>5, <1>7, <1>9, CallAgrees
<1> QED
  BY <1>3, <1>8, <1>9

LEMMA DispatchStartAgrees ==
  ASSUME SchedulerInv, SchedulerInv', AgreeInv, NEW k \in Tasks, DispatchStart(k)
  PROVE  AgreeInv'
<1>1. JobsSound /\ TasksSound /\ JobsSound' /\ Indexes /\ Queue /\ RowTable /\ RowTable'
  BY DEF SchedulerInv, AgreeInv, RowTable, DispatchStart, tables
<1>2. PICK j : j = task[k].job
  OBVIOUS
<1>3. /\ task[k].kind = "dispatch" /\ task[k].at = "spawned"
      /\ UNCHANGED <<app, contested, registry, names, row>>
  BY DEF DispatchStart, tables
<1>4. j \in Jobs /\ job[j].hasId /\ JobSound(job[j])
  BY <1>1, <1>2, <1>3, Holds
<1>5. ~In(dbq, k) /\ dbq \in Seq(Tasks) /\ Distinct(dbq)
  BY <1>1, <1>3, NotQueued DEF Queue
<1>6. ~app.dbFails /\ "all" \notin app.removals => \A r \in Rows \ contested :
        RowAgrees(r, dbq, task, job, registry[r], row'[r].status)
  BY <1>3 DEF AgreeInv, RowsAgree
<1>7. CASE job[j].dequeued
  <2>1. task' = [task EXCEPT ![k] = Idle] /\ UNCHANGED <<job, dbq>>
    BY <1>2, <1>7 DEF DispatchStart
  <2>2. OnlyTask(k) /\ task'[k] = Idle
    BY <1>1, <2>1, OneTask
  <2>3. task'[k].kind = "free"
    BY <2>2 DEF Idle
  <2> QED
    BY <1>1, <1>3, <1>4, <1>5, <1>6, <2>1, <2>2, <2>3, WriterAgrees
<1>8. CASE ~job[j].dequeued
  <2>1. PICK next \in NextOccurrences(j) :
          LET r == [AfterFire(job[j], next) EXCEPT !.pending = None] IN
          /\ job' = [job EXCEPT ![j] = r]
          /\ task' = [task EXCEPT ![k] = Persisting("dispatch", j, "db", r)]
          /\ dbq' = Append(dbq, k)
    BY <1>2, <1>8 DEF DispatchStart
  <2> DEFINE r == [AfterFire(job[j], next) EXCEPT !.pending = None]
  <2>2. job[j].heap = 0
    <3>1. Carries(k, j)
      BY <1>2, <1>3 DEF Carries
    <3> QED
      BY <1>4, <1>8, <3>1 DEF SchedulerInv, Occurrences, InHand
  <2>3. next \in Times \cup {None, WAITING} /\ now \in 0..MaxTime
    BY <1>1, <1>4, OccurrenceTyped DEF Indexes
  <2>4. r.hasId /\ r.dequeued = job[j].dequeued
    BY <1>4, <2>2, <2>3, AfterFireFacts
  <2>5. job' = [job EXCEPT ![j] = r] /\ task' = [task EXCEPT ![k] = Persisting("dispatch", j, "db", r)]
        /\ dbq' = Append(dbq, k)
    BY <2>1
  <2> HIDE DEF r
  <2>6. OnlyTask(k) /\ task'[k] = [kind |-> "dispatch", job |-> j, at |-> "db", rest |-> {}, wrote |-> r.status]
    BY <1>1, <2>5, OneTask, PersistingFacts
  <2>7. job'[j] = r /\ \A i \in Jobs : i # j => job'[i] = job[i]
    BY <1>1, <1>4, <2>5, OneJob
  <2> QED
    BY <1>1, <1>3, <1>4, <1>5, <1>6, <1>8, <2>4, <2>5, <2>6, <2>7, WriterAgrees
<1> QED
  BY <1>7, <1>8

\* A status write of task k lands.
LEMMA LandedRest ==
  ASSUME SchedulerInv, AgreeInv, NEW k \in Tasks, Served(k), task[k].kind \in {"handler", "dispatch"},
         WriteStatus(k)
  PROVE  /\ RowTable' /\ \A r \in Rows : row'[r].removed = row[r].removed
         /\ ~app.dbFails /\ "all" \notin app.removals => \A r \in Rows \ contested :
              RowAgrees(r, Tail(dbq), task, job, registry[r], row'[r].status)
<1>1. task[k].job \in Jobs /\ TaskTyped(task[k])
  BY ServedQueue
<1>2. task[k].wrote \in Statuses \cup {None}
  BY <1>1 DEF TaskTyped, TaskRecord
<1>3. row' = [row EXCEPT ![RowOf[task[k].job]].status = task[k].wrote]
  BY DEF WriteStatus
<1>4. /\ RowTable'
      /\ \A r \in Rows : row'[r].removed = row[r].removed
      /\ \A r \in Rows : row'[r].status = IF r = RowOf[task[k].job] THEN task[k].wrote ELSE row[r].status
  BY <1>1, <1>2, <1>3, RowWritten DEF AgreeInv
<1>5. ASSUME ~app.dbFails, "all" \notin app.removals, NEW r \in Rows, r \notin contested
      PROVE  RowAgrees(r, Tail(dbq), task, job, registry[r], row'[r].status)
  <2>1. In(dbq, k)
    BY ServedQueue, OrderLess
  <2>2. CASE r = RowOf[task[k].job]
    BY <1>4, <1>5, <2>1, <2>2, ServedRest DEF Moves
  <2>3. CASE r # RowOf[task[k].job]
    BY <1>4, <1>5, <2>3, ServedRest DEF Writes, Enters, Moves
  <2> QED
    BY <2>2, <2>3
<1> QED
  BY <1>4, <1>5

\* The task is over when its write has landed.
LEMMA SettledAgrees ==
  ASSUME SchedulerInv, SchedulerInv', AgreeInv, UNCHANGED <<app, contested, registry, names>>,
         NEW k \in Tasks, Served(k), task[k].kind \in {"handler", "dispatch"}, WriteStatus(k),
         NEW j \in Jobs, task[k].job = j, NEW r, r.hasId, r.dequeued = job[j].dequeued, r.status = job[j].status,
         job' = [job EXCEPT ![j] = r], task' = [task EXCEPT ![k] = Idle], dbq' = Tail(dbq)
  PROVE  AgreeInv'
<1>1. JobsSound /\ TasksSound
  BY DEF SchedulerInv
<1>2. job[j].hasId
  BY <1>1, Holds
<1>3. OnlyTask(k) /\ task'[k] = Idle
  BY <1>1, OneTask
<1>4. task'[k].kind = "free"
  BY <1>3 DEF Idle
<1>5. job'[j] = r /\ \A i \in Jobs : i # j => job'[i] = job[i]
  BY <1>1, OneJob
<1>6. Tail(dbq) \in Seq(Tasks) /\ Distinct(Tail(dbq)) /\ ~In(Tail(dbq), k) /\ \A x \in Tasks : In(Tail(dbq), x) => In(dbq, x)
  BY ServedQueue
<1>7. /\ RowTable' /\ \A i \in Rows : row'[i].removed = row[i].removed
      /\ ~app.dbFails /\ "all" \notin app.removals => \A i \in Rows \ contested :
           RowAgrees(i, Tail(dbq), task, job, registry[i], row'[i].status)
  BY LandedRest
<1>8. task[k].kind \notin {"replace", "removeall"} /\ task'[k].kind \in {"free", "handler", "dispatch"}
  BY <1>4
<1>9. dbq' = Tail(dbq) /\ job'[j].status = job[j].status /\ job'[j].hasId /\ job'[j].dequeued = job[j].dequeued
  BY <1>5
<1> QED
  BY <1>2, <1>3, <1>5, <1>6, <1>7, <1>8, <1>9, WriterAgrees

LEMMA ReschedulePersistedAgrees ==
  ASSUME SchedulerInv, SchedulerInv', AgreeInv, NEW k \in Tasks, ReschedulePersisted(k)
  PROVE  AgreeInv'
<1>1. PICK j : j = task[k].job
  OBVIOUS
<1>2. /\ Served(k) /\ task[k].kind = "handler" /\ job' = [job EXCEPT ![j] = Landed(k, j)]
      /\ task' = [task EXCEPT ![k] = Idle] /\ dbq' = Tail(dbq) /\ WriteStatus(k)
      /\ UNCHANGED <<app, contested, registry, names>>
  BY <1>1 DEF ReschedulePersisted, Landed
<1>3. task[k].at = "db" /\ j \in Jobs
  BY <1>1, <1>2, ServedQueue DEF TaskTyped
<1>4. /\ Landed(k, j).hasId /\ Landed(k, j).dequeued = job[j].dequeued /\ Landed(k, j).status = job[j].status
  BY <1>1, <1>2, <1>3, LandedFacts
<1> QED
  BY <1>1, <1>2, <1>3, <1>4, SettledAgrees

LEMMA DispatchMovedAgrees ==
  ASSUME SchedulerInv, SchedulerInv', AgreeInv, NEW k \in Tasks, DispatchMoved(k)
  PROVE  AgreeInv'
<1>1. PICK j : j = task[k].job
  OBVIOUS
<1>2. /\ Served(k) /\ task[k].kind = "dispatch" /\ task[k].at = "again" /\ Fire(k, Landed(k, j))
      /\ WriteStatus(k) /\ UNCHANGED <<app, contested, registry, names>>
  BY <1>1 DEF DispatchMoved, Landed
<1>3. j \in Jobs
  BY <1>1, <1>2, ServedQueue
<1>4. /\ JobSound(Landed(k, j)) /\ Landed(k, j).hasId
      /\ Landed(k, j).dequeued = job[j].dequeued /\ Landed(k, j).status = job[j].status
  BY <1>1, <1>2, <1>3, LandedFacts
<1>5. /\ job' = [job EXCEPT ![j] = Landed(k, j)] /\ task' = [task EXCEPT ![k] = Idle] /\ dbq' = Tail(dbq)
  BY <1>1, <1>2, <1>4, Fires
<1> QED
  BY <1>1, <1>2, <1>3, <1>4, <1>5, SettledAgrees

LEMMA DispatchPersistedAgrees ==
  ASSUME SchedulerInv, SchedulerInv', AgreeInv, NEW k \in Tasks, DispatchPersisted(k)
  PROVE  AgreeInv'
<1>1. TasksSound /\ JobsSound /\ Queue
  BY DEF SchedulerInv
<1>2. PICK j : j = task[k].job
  OBVIOUS
<1> DEFINE r == Landed(k, j)
           q == [r EXCEPT !.pending = None]
           s == Reschedule(q, r.pending)
<1>3. /\ Served(k) /\ task[k].kind = "dispatch" /\ task[k].at = "db" /\ WriteStatus(k)
      /\ UNCHANGED <<app, contested, registry, names>>
  BY <1>2 DEF DispatchPersisted, Landed
<1>4. \/ /\ r.pending # None /\ Transitions(q)
         /\ job' = [job EXCEPT ![j] = s]
         /\ task' = [task EXCEPT ![k] = Persisting("dispatch", j, "again", s)]
         /\ dbq' = Append(Tail(dbq), k)
      \/ r.pending # None /\ ~Transitions(q) /\ Fire(k, s)
      \/ Fire(k, r)
  BY <1>2 DEF DispatchPersisted, Landed
<1>5. j \in Jobs
  BY <1>2, <1>3, ServedQueue
<1>6. /\ JobSound(r) /\ r.hasId /\ r.dequeued = job[j].dequeued /\ r.status = job[j].status
  BY <1>2, <1>3, <1>5, LandedFacts
<1> HIDE DEF r
<1>7. /\ JobSound(q) /\ q.hasId /\ q.dequeued = r.dequeued /\ q.status = r.status
  <2>1. r \in JobRecord
    BY <1>6 DEF JobSound
  <2>2. /\ q \in JobRecord /\ SameStage(r, q) /\ q.fire = r.fire
        /\ q.heap = r.heap /\ q.key = r.key /\ q.dequeued = r.dequeued
    BY <2>1, Assumptions, PendingFields
  <2> HIDE DEF q
  <2> QED
    BY <1>6, <2>2 DEF JobSound, Begun, SameStage
<1> HIDE DEF q
<1>8. r.pending # None =>
        /\ JobSound(s) /\ s.hasId /\ s.dequeued = q.dequeued
        /\ ~Transitions(q) => s.status = q.status
  <2>1. r.pending # None => r.pending \in Times \cup {WAITING}
    BY <1>6 DEF JobSound, JobRecord
  <2> QED
    BY <1>7, <2>1, RescheduleFacts DEF SameStage
<1> HIDE DEF s
<1>9. CASE /\ r.pending # None /\ Transitions(q)
           /\ job' = [job EXCEPT ![j] = s]
           /\ task' = [task EXCEPT ![k] = Persisting("dispatch", j, "again", s)]
           /\ dbq' = Append(Tail(dbq), k)
  <2>1. OnlyTask(k) /\ task'[k] = [kind |-> "dispatch", job |-> j, at |-> "again", rest |-> {}, wrote |-> s.status]
    BY <1>1, <1>9, OneTask, PersistingFacts
  <2>2. job'[j] = s /\ \A i \in Jobs : i # j => job'[i] = job[i]
    BY <1>1, <1>5, <1>9, OneJob
  <2>3. ~job[j].dequeued /\ s.dequeued = job[j].dequeued /\ s.hasId
    BY <1>6, <1>7, <1>8, <1>9 DEF Transitions
  <2>4. job[j].hasId
    BY <1>1, <1>2, <1>3, Holds
  <2>5. Tail(dbq) \in Seq(Tasks) /\ Distinct(Tail(dbq)) /\ ~In(Tail(dbq), k) /\ \A x \in Tasks : In(Tail(dbq), x) => In(dbq, x)
    BY <1>3, ServedQueue
  <2>6. /\ RowTable' /\ \A i \in Rows : row'[i].removed = row[i].removed
        /\ ~app.dbFails /\ "all" \notin app.removals => \A i \in Rows \ contested :
             RowAgrees(i, Tail(dbq), task, job, registry[i], row'[i].status)
    BY <1>3, LandedRest
  <2>7. /\ task[k].kind \notin {"replace", "removeall"} /\ task'[k].kind = "dispatch"
        /\ task'[k].job = j /\ task'[k].wrote = job'[j].status
    BY <1>3, <2>1, <2>2
  <2> QED
    BY <1>3, <1>5, <1>9, <2>1, <2>2, <2>3, <2>4, <2>5, <2>6, <2>7, WriterAgrees
<1>10. ASSUME NEW x, JobSound(x), x.hasId, x.dequeued = job[j].dequeued, x.status = job[j].status, Fire(k, x)
       PROVE  AgreeInv'
  <2>1. job' = [job EXCEPT ![j] = x] /\ task' = [task EXCEPT ![k] = Idle] /\ dbq' = Tail(dbq)
    BY <1>2, <1>10, Fires
  <2> QED
    BY <1>2, <1>3, <1>5, <1>10, <2>1, SettledAgrees
<1>11. CASE r.pending # None /\ ~Transitions(q) /\ Fire(k, s)
  BY <1>6, <1>7, <1>8, <1>10, <1>11
<1>12. CASE Fire(k, r)
  BY <1>6, <1>10, <1>12
<1> QED
  BY <1>4, <1>9, <1>11, <1>12

----------------------------------------------------------------------------
(* Steps that write no status *)

\* A step that changes no job and no index.
LEMMA PlainAgrees ==
  ASSUME SchedulerInv, SchedulerInv', AgreeInv, UNCHANGED <<app, contested, job, registry, names>>,
         NEW k \in Tasks, OnlyTask(k), GoesOn(k), RowTable', Kept',
         \A r \in Rows : row'[r].status = row[r].status,
         ~app.dbFails /\ "all" \notin app.removals =>
            /\ QueueStep(dbq, dbq', k)
            /\ \A r \in Rows : ~Writes(dbq, task, k, r) /\ ~Writes(dbq', task', k, r)
  PROVE  AgreeInv'
<1>1. Indexes /\ Indexes' /\ TasksSound' /\ NamesInv /\ RowsAgree
  BY DEF SchedulerInv, AgreeInv
<1>2. NamesInv'
  BY <1>1, NamesQuiet
<1>3. RowsAgree'
  <2> SUFFICES ASSUME ~app.dbFails, "all" \notin app.removals, NEW r \in Rows, r \notin contested
               PROVE  RowAgrees(r, dbq', task', job, registry[r], row[r].status)
    BY DEF RowsAgree
  <2>1. RowTyped(r, dbq, task, job, registry[r])
    BY RowsTyped
  <2>2. \A x \in Tasks : x # k => task'[x] = task[x]
    BY DEF OnlyTask
  <2>3. \A j \in Jobs : SameWritten(job[j], job[j])
    BY DEF SameWritten
  <2> QED
    BY <1>1, <2>1, <2>2, <2>3, RowElsewhere DEF RowsAgree
<1> QED
  BY <1>2, <1>3 DEF AgreeInv

\* A step that removes job j.
LEMMA RemovalAgrees ==
  ASSUME SchedulerInv, SchedulerInv', AgreeInv, UNCHANGED <<app, contested, row>>,
         NEW k \in Tasks, OnlyTask(k), GoesOn(k), NEW j \in Jobs, RemoveFromLiveState(j), job'[j].dequeued,
         \A i \in Jobs : /\ SameWritten(job[i], job'[i]) /\ (job[i].hasId => job'[i].hasId)
                         /\ Live(job'[i]) => Live(job[i]),
         ~app.dbFails /\ "all" \notin app.removals => dbq' = dbq /\ ~In(dbq, k)
  PROVE  AgreeInv'
<1>1. Indexes /\ Indexes' /\ TasksSound' /\ NamesInv /\ RowsAgree /\ Kept /\ RowTable /\ Queue
  BY DEF SchedulerInv, AgreeInv
<1>2. RowOf[j] \in Rows
  BY Assumptions
<1>3. \A r \in Rows : names'[r] = names[r] \/ (names'[r] = None /\ names[r] = j)
  BY <1>1, <1>2 DEF RemoveFromLiveState, Indexes
<1>4. \A r \in Rows : registry'[r] = registry[r] \/ (registry'[r] = None /\ registry[r] = j)
  BY <1>1, <1>2 DEF RemoveFromLiveState, Deregistered, Indexes
<1>5. NamesInv'
  BY <1>1, <1>3, <1>4, NamesQuiet
<1>6. Kept'
  BY <1>1, <1>4, KeptQuiet DEF SameWritten
<1>7. RowsAgree'
  <2> SUFFICES ASSUME ~app.dbFails, "all" \notin app.removals, NEW r \in Rows, r \notin contested
               PROVE  RowAgrees(r, dbq, task', job', registry'[r], row[r].status)
    BY DEF RowsAgree
  <2>1. RowTyped(r, dbq, task, job, registry[r]) /\ RowAgrees(r, dbq, task, job, registry[r], row[r].status)
    BY <1>1, RowsTyped DEF RowsAgree
  <2>2. \A x \in Tasks : x # k => task'[x] = task[x]
    BY DEF OnlyTask
  <2>3. QueueStep(dbq, dbq, k) /\ ~Writes(dbq, task, k, r) /\ ~Writes(dbq, task', k, r)
    BY <1>1 DEF Queue, QueueStep, Writes, Enters, Moves
  <2>4. registry'[r] = registry[r] \/ (registry'[r] = None /\ (registry[r] # None => job'[registry[r]].dequeued))
    BY <1>4
  <2> QED
    BY <2>1, <2>2, <2>3, <2>4, RowElsewhere
<1>8. RowTable'
  BY <1>1 DEF RowTable
<1> QED
  BY <1>5, <1>6, <1>7, <1>8 DEF AgreeInv

\* What a removal does to the jobs' records.
LEMMA RemovedRecords ==
  ASSUME JobsSound, NEW j \in Jobs, job' = [job EXCEPT ![j] = LiveRemoved(j)]
  PROVE  /\ job'[j].dequeued
         /\ \A i \in Jobs : /\ SameWritten(job[i], job'[i]) /\ (job[i].hasId => job'[i].hasId)
                            /\ Live(job'[i]) => Live(job[i])
<1>1. job'[j] = LiveRemoved(j) /\ \A i \in Jobs : i # j => job'[i] = job[i]
  BY OneJob DEF JobsSound
<1>2. LiveRemoved(j).dequeued /\ SameStage(job[j], LiveRemoved(j))
  BY LiveRemovedFacts
<1> QED
  BY <1>1, <1>2 DEF SameStage, SameWritten, Live

\* The registration of job j under a free name begins.
LEMMA StartAgrees ==
  ASSUME SchedulerInv, SchedulerInv', AgreeInv, UNCHANGED <<app, registry>>, contested \subseteq contested',
         NEW k \in Tasks, task[k].kind \in {"free", "replace"}, RowTable', Kept',
         NEW j \in Jobs, job[j].status \in {"new", "building"}, NEW rec, ~rec.hasId,
         NEW queue \in Seq(Tasks), ~In(queue, k), \A x \in Tasks : In(queue, x) => In(dbq, x), Distinct(queue),
         StartRegistration(k, j, rec, queue),
         RowOf[j] \notin contested' => names[RowOf[j]] = None /\ \A i \in Tasks : i # k => ~Replaces(i, RowOf[j]),
         ~app.dbFails /\ "all" \notin app.removals => \A r \in Rows \ contested :
            RowAgrees(r, queue, task, job, registry[r], row'[r].status)
  PROVE  AgreeInv'
<1>1. /\ JobsSound /\ TasksSound /\ TasksSound' /\ Indexes /\ Indexes' /\ NamesInv
  BY DEF SchedulerInv, AgreeInv
<1>2. /\ OnlyTask(k) /\ task'[k] = [kind |-> "register", job |-> j, at |-> "db", rest |-> {}, wrote |-> rec.status]
      /\ \A i \in Tasks : i # k => task'[i] = task[i]
  BY <1>1, OneTask, PersistingFacts DEF StartRegistration, OnlyTask
<1>3. job'[j] = rec /\ \A i \in Jobs : i # j => job'[i] = job[i]
  BY <1>1, OneJob DEF StartRegistration
<1>4. dbq' = Append(queue, k) /\ RowOf[j] \in Rows
      /\ names'[RowOf[j]] = j /\ \A r \in Rows : r # RowOf[j] => names'[r] = names[r]
  BY <1>1, Assumptions DEF StartRegistration, Indexes
<1>5. ~job[j].hasId /\ ~Begun(job[j])
  BY <1>1 DEF JobsSound, JobSound, Begun
<1>6. Named'
  <2> SUFFICES ASSUME ~(app.dbFails /\ "all" \in app.removals), NEW i \in Jobs, Live(job'[i]), RowOf[i] \notin contested'
               PROVE  \/ names'[RowOf[i]] = i
                      \/ \E n \in Tasks : task'[n].kind = "removeall" /\ i \in task'[n].rest
    BY DEF Named
  <2>1. CASE i = j
    BY <1>4, <2>1
  <2>2. CASE i # j
    <3>1. \/ names[RowOf[i]] = i
          \/ \E n \in Tasks : task[n].kind = "removeall" /\ i \in task[n].rest
      BY <1>1, <1>3, <2>2 DEF NamesInv, Named
    <3>2. ASSUME NEW n \in Tasks, task[n].kind = "removeall", i \in task[n].rest
          PROVE  task'[n].kind = "removeall" /\ i \in task'[n].rest
      BY <1>2, <3>2
    <3>3. names[RowOf[i]] = i => RowOf[i] # RowOf[j]
      BY Assumptions
    <3>4. RowOf[i] \in Rows
      BY Assumptions
    <3> QED
      BY <1>4, <3>1, <3>2, <3>3, <3>4
  <2> QED
    BY <2>1, <2>2
<1>7. Homes'
  <2>1. \A r \in Rows : names'[r] # None => RowOf[names'[r]] = r
    BY <1>1, <1>4 DEF NamesInv, Homes
  <2>2. \A r \in Rows : registry'[r] # None => RowOf[registry'[r]] = r /\ job'[registry'[r]].hasId
    <3>1. \A i \in Jobs : job[i].hasId => job'[i].hasId
      BY <1>3, <1>5
    <3>2. \A r \in Rows : registry[r] # None => RowOf[registry[r]] = r /\ job[registry[r]].hasId
      BY <1>1 DEF NamesInv, Homes
    <3>3. \A r \in Rows : registry[r] \in Jobs \cup {None}
      BY <1>1 DEF Indexes
    <3>4. registry' = registry
      OBVIOUS
    <3> QED
      BY <3>1, <3>2, <3>3, <3>4
  <2>3. \A i \in Tasks : task'[i].kind = "replace" => \A n \in task'[i].rest : RowOf[n] = RowOf[task'[i].job]
    BY <1>1, <1>2 DEF NamesInv, Homes
  <2> QED
    BY <2>1, <2>2, <2>3 DEF Homes
<1>8. Kinds'
  BY <1>1, <1>2 DEF NamesInv, Kinds
<1>9. Unnamed'
  <2> SUFFICES ASSUME NEW i \in Tasks, NEW r \in Rows, Replaces(i, r)', r \notin contested'
               PROVE  names'[r] = None /\ \A n \in Tasks : Replaces(n, r)' => n = i
    BY DEF Unnamed
  <2>1. \A n \in Tasks : Replaces(n, r)' => n # k /\ Replaces(n, r)
    BY <1>2 DEF Replaces
  <2>2. r # RowOf[j]
    BY <2>1
  <2> QED
    BY <1>1, <1>4, <2>1, <2>2 DEF NamesInv, Unnamed
<1>10. RowsAgree'
  <2> SUFFICES ASSUME ~app.dbFails, "all" \notin app.removals, NEW r \in Rows, r \notin contested'
               PROVE  RowAgrees(r, dbq', task', job', registry[r], row'[r].status)
    BY DEF RowsAgree
  <2>1. RowAgrees(r, queue, task, job, registry[r], row'[r].status)
    OBVIOUS
  <2>2. RowTyped(r, queue, task, job, registry[r])
    <3>1. RowTyped(r, dbq, task, job, registry[r])
      BY RowsTyped
    <3> QED
      BY <3>1 DEF RowTyped, Enters, Moves
  <2>3. CASE RowOf[j] = r
    <3>1. \A i \in Jobs : RowOf[i] = r => ~Live(job[i])
      BY <1>1, <2>3, Assumptions DEF NamesInv, Named, Kinds
    <3> QED
      BY <1>2, <1>3, <1>4, <1>5, <2>1, <2>2, <2>3, <3>1, RowStarts
  <2>4. CASE RowOf[j] # r
    <3>1. QueueStep(queue, dbq', k) /\ ~Writes(queue, task, k, r) /\ ~Writes(dbq', task', k, r)
      BY <1>2, <1>4, <2>4 DEF QueueStep, Writes, Enters, Moves
    <3>2. \A i \in Jobs : RowOf[i] = r => SameWritten(job[i], job'[i])
      BY <1>3, <2>4 DEF SameWritten
    <3> QED
      BY <1>2, <2>1, <2>2, <3>1, <3>2, RowElsewhere
  <2> QED
    BY <2>3, <2>4
<1> QED
  BY <1>6, <1>7, <1>8, <1>9, <1>10 DEF AgreeInv, NamesInv

LEMMA AddJobAgrees ==
  ASSUME SchedulerInv, SchedulerInv', AgreeInv, NEW j \in Jobs, AddJob(j)
  PROVE  AgreeInv'
<1>1. JobsSound /\ TasksSound /\ Indexes /\ Queue /\ AgreeInv
  BY DEF SchedulerInv
<1>2. PICK k : k = NewTask
  OBVIOUS
<1>3. PICK f \in FirstRuns(j) : StartRegistration(k, j, Transition(job[j], f[1], f[2]), dbq)
  BY <1>2 DEF AddJob
<1>4. /\ Free # {} /\ job[j].status = "new" /\ names[RowOf[j]] = None
      /\ UNCHANGED <<app, registry, row>>
      /\ contested' = IF UnderReplacement(RowOf[j]) THEN contested \cup {RowOf[j]} ELSE contested
  BY DEF AddJob
<1>5. k \in Tasks /\ task[k].kind = "free"
  BY <1>2, <1>4, NewTaskIsFree
<1> DEFINE r == Transition(job[j], f[1], f[2])
<1>6. ~r.hasId
  BY <1>1, <1>4 DEF JobsSound, JobSound, JobRecord, Begun, Transition
<1>7. StartRegistration(k, j, r, dbq)
  BY <1>3
<1> HIDE DEF r
<1>8. ~In(dbq, k) /\ dbq \in Seq(Tasks) /\ Distinct(dbq)
  <2>1. TaskTyped(task[k])
    BY <1>1, <1>5 DEF TasksSound, TaskSound
  <2> QED
    BY <1>1, <1>5, <2>1, WatchRegisters, NotQueued DEF Queue
<1>9. RowOf[j] \notin contested' => \A i \in Tasks : ~Replaces(i, RowOf[j])
  BY <1>4 DEF UnderReplacement, Replaces
<1>10. \A i \in Jobs : job[i].dequeued => job'[i].dequeued
  <2>1. r.dequeued = job[j].dequeued
    BY <1>1 DEF JobsSound, JobSound, JobRecord, Transition, r
  <2>2. job' = [job EXCEPT ![j] = r]
    BY <1>7 DEF StartRegistration
  <2> QED
    BY <1>1, <2>1, <2>2, OneJob
<1>11. contested \subseteq contested'
  BY <1>4
<1>12. RowTable' /\ Kept'
  <2>1. Kept'
    BY <1>1, <1>4, <1>10, <1>11, KeptQuiet DEF AgreeInv
  <2> QED
    BY <1>1, <1>4, <2>1 DEF AgreeInv, RowTable
<1>13. ~app.dbFails /\ "all" \notin app.removals => \A i \in Rows \ contested :
         RowAgrees(i, dbq, task, job, registry[i], row'[i].status)
  BY <1>1, <1>4 DEF AgreeInv, RowsAgree
<1> QED
  BY <1>4, <1>5, <1>6, <1>7, <1>8, <1>9, <1>11, <1>12, <1>13, StartAgrees

LEMMA RemoveJobAgrees ==
  ASSUME SchedulerInv, SchedulerInv', AgreeInv, NEW j \in Jobs, RemoveJob(j)
  PROVE  AgreeInv'
<1>1. JobsSound /\ TasksSound /\ Queue
  BY DEF SchedulerInv
<1>2. PICK k : k = NewTask
  OBVIOUS
<1>3. /\ Free # {} /\ RemoveFromLiveState(j) /\ job' = [job EXCEPT ![j] = LiveRemoved(j)]
      /\ task' = [task EXCEPT ![k] = Spawn("remove", j, "release")]
      /\ UNCHANGED <<app, contested, row, dbq>> /\ "remove" \in app.removals
  BY <1>2 DEF RemoveJob
<1>4. k \in Tasks /\ task[k].kind = "free"
  BY <1>2, <1>3, NewTaskIsFree
<1>5. OnlyTask(k) /\ task'[k] = [kind |-> "remove", job |-> j, at |-> "release", rest |-> {}, wrote |-> None]
  BY <1>1, <1>3, <1>4, OneTask, SpawnFacts
<1>6. GoesOn(k)
  BY <1>3, <1>4, <1>5 DEF GoesOn
<1>7. ~In(dbq, k)
  <2>1. TaskTyped(task[k])
    BY <1>1, <1>4 DEF TasksSound, TaskSound
  <2> QED
    BY <1>1, <1>4, <2>1, WatchRegisters, NotQueued
<1> QED
  BY <1>1, <1>3, <1>4, <1>5, <1>6, <1>7, RemovedRecords, RemovalAgrees

LEMMA ReplaceJobAgrees ==
  ASSUME SchedulerInv, SchedulerInv', AgreeInv, NEW j \in Jobs, ReplaceJob(j)
  PROVE  AgreeInv'
<1>1. JobsSound /\ TasksSound /\ Indexes /\ Queue /\ NamesInv
  BY DEF SchedulerInv, AgreeInv
<1>2. PICK k, old : k = NewTask /\ old = names[RowOf[j]]
  OBVIOUS
<1>3. /\ Free # {} /\ job[j].status = "new" /\ old # None /\ RemoveFromLiveState(old)
      /\ UNCHANGED <<app, contested, row, dbq>>
  BY <1>2 DEF ReplaceJob
<1>4. PICK f \in FirstRuns(j) :
        /\ job' = [job EXCEPT ![old] = LiveRemoved(old), ![j] = Transition(@, "building", f[2])]
        /\ task' = [task EXCEPT ![k] = [Spawn("replace", old, "release") EXCEPT !.rest = {j}, !.wrote = f[1]]]
  BY <1>2 DEF ReplaceJob
<1>5. k \in Tasks /\ task[k].kind = "free"
  BY <1>2, <1>3, NewTaskIsFree
<1>6. old \in Jobs /\ old # j /\ RowOf[old] = RowOf[j] /\ RowOf[j] \in Rows
  <2>1. RowOf[j] \in Rows
    BY Assumptions
  <2>2. old \in Jobs /\ Begun(job[old])
    BY <1>1, <1>2, <1>3, <2>1 DEF Indexes
  <2> QED
    BY <1>1, <1>2, <1>3, <2>1, <2>2 DEF Begun, NamesInv, Homes
<1> DEFINE s == Transition(job[j], "building", f[2])
<1>7. s.status = "building" /\ ~s.hasId /\ ~job[j].hasId /\ s.dequeued = job[j].dequeued
  BY <1>1, <1>3 DEF JobsSound, JobSound, JobRecord, Begun, Transition
<1>8. job'[old] = LiveRemoved(old) /\ job'[j] = s /\ \A i \in Jobs : i \notin {j, old} => job'[i] = job[i]
  BY <1>1, <1>4, <1>6 DEF JobsSound, AllJobs
<1> HIDE DEF s
<1>9. /\ job'[old].dequeued
      /\ \A i \in Jobs : /\ SameWritten(job[i], job'[i]) /\ (job[i].hasId => job'[i].hasId)
                         /\ Live(job'[i]) => Live(job[i])
  <2>1. LiveRemoved(old).dequeued /\ SameStage(job[old], LiveRemoved(old))
    BY <1>1, <1>6, LiveRemovedFacts
  <2>2. ~Begun(job[j]) /\ ~Begun(s)
    BY <1>3, <1>7 DEF Begun
  <2> QED
    BY <1>6, <1>7, <1>8, <2>1, <2>2 DEF SameStage, SameWritten, Live
<1>10. /\ OnlyTask(k)
       /\ task'[k].kind = "replace" /\ task'[k].job = old /\ task'[k].rest = {j}
  <2> DEFINE u == Spawn("replace", old, "release")
             t == [u EXCEPT !.rest = {j}, !.wrote = f[1]]
  <2>1. u = [kind |-> "replace", job |-> old, at |-> "release", rest |-> {}, wrote |-> None]
    BY SpawnFacts
  <2> HIDE DEF u
  <2>2. t.kind = "replace" /\ t.job = old /\ t.rest = {j}
    BY <2>1
  <2>3. task' = [task EXCEPT ![k] = t]
    BY <1>4 DEF u
  <2> HIDE DEF t
  <2> QED
    BY <1>1, <1>5, <2>2, <2>3, OneTask
<1>11. names'[RowOf[j]] = None
  BY <1>1, <1>2, <1>3, <1>6 DEF RemoveFromLiveState, Indexes
<1>12. GoesOn(k)
  BY <1>2, <1>3, <1>5, <1>6, <1>10, <1>11 DEF GoesOn
<1>13. ~In(dbq, k)
  <2>1. TaskTyped(task[k])
    BY <1>1, <1>5 DEF TasksSound, TaskSound
  <2> QED
    BY <1>1, <1>5, <2>1, WatchRegisters, NotQueued
<1> QED
  BY <1>3, <1>5, <1>6, <1>9, <1>10, <1>12, <1>13, RemovalAgrees

LEMMA RemoveNextAgrees ==
  ASSUME SchedulerInv, SchedulerInv', AgreeInv, NEW k \in Tasks, RemoveNext(k)
  PROVE  AgreeInv'
<1>1. JobsSound /\ TasksSound /\ Queue /\ NamesInv /\ Kept /\ RowTable
  BY DEF SchedulerInv, AgreeInv
<1>2. task[k].at = "next" /\ UNCHANGED <<app, contested, row, dbq>>
  BY DEF RemoveNext
<1>3. TaskTyped(task[k]) /\ task[k].kind = "removeall"
  BY <1>1, <1>2, WatchRegisters DEF TasksSound, TaskSound
<1>4. "all" \in app.removals
  BY <1>1, <1>3 DEF NamesInv, Kinds
<1>5. CASE /\ task[k].rest = {}
           /\ task' = [task EXCEPT ![k] = Idle]
           /\ UNCHANGED <<job, registry, names, watch, serve>>
  <2>1. OnlyTask(k) /\ task'[k] = Idle
    BY <1>1, <1>5, OneTask
  <2>2. GoesOn(k)
    BY <1>5, <2>1 DEF GoesOn, Idle
  <2>3. Kept' /\ RowTable'
    BY <1>1, <1>2, <1>5 DEF Kept, RowTable
  <2> QED
    BY <1>2, <1>4, <1>5, <2>1, <2>2, <2>3, PlainAgrees
<1>6. ASSUME NEW j \in task[k].rest, RemoveFromLiveState(j), job' = [job EXCEPT ![j] = LiveRemoved(j)],
             task' = [task EXCEPT ![k].job = j, ![k].at = "release", ![k].rest = @ \ {j}]
      PROVE  AgreeInv'
  <2>1. j \in Jobs
    BY <1>3 DEF TaskTyped, TaskRecord
  <2> DEFINE t == [task[k] EXCEPT !.job = j, !.at = "release", !.rest = @ \ {j}]
  <2>2. t.kind = "removeall" /\ t.rest = task[k].rest \ {j}
    BY <1>3 DEF TaskTyped, TaskRecord
  <2>3. task' = [task EXCEPT ![k] = t]
    BY <1>6
  <2> HIDE DEF t
  <2>4. OnlyTask(k) /\ task'[k] = t
    BY <1>1, <2>3, OneTask
  <2>5. /\ job'[j].dequeued
        /\ \A i \in Jobs : /\ SameWritten(job[i], job'[i]) /\ (job[i].hasId => job'[i].hasId)
                           /\ Live(job'[i]) => Live(job[i])
    BY <1>1, <1>6, <2>1, RemovedRecords
  <2>6. GoesOn(k)
    BY <1>3, <2>2, <2>4, <2>5 DEF GoesOn
  <2> QED
    BY <1>2, <1>4, <1>6, <2>1, <2>4, <2>5, <2>6, RemovalAgrees
<1> QED
  BY <1>5, <1>6 DEF RemoveNext

LEMMA WatchFailsAgrees ==
  ASSUME SchedulerInv, SchedulerInv', AgreeInv, NEW k \in Tasks, WatchFails(k)
  PROVE  AgreeInv'
<1>1. JobsSound /\ TasksSound /\ Kept /\ RowTable
  BY DEF SchedulerInv, AgreeInv
<1>2. PICK j : j = task[k].job
  OBVIOUS
<1>3. /\ Served(k) /\ task[k].at = "watch" /\ app.dbFails
      /\ UNCHANGED <<app, contested, row>>
      /\ \/ /\ task' = [task EXCEPT ![k] = Idle]
            /\ UNCHANGED <<job, registry, names, watch, serve>>
         \/ /\ RemoveFromLiveState(j)
            /\ job' = [job EXCEPT ![j] = LiveRemoved(j)]
            /\ task' = [task EXCEPT ![k] = Spawn("remove", j, "release")]
  BY <1>2 DEF WatchFails
<1>4. j \in Jobs /\ task[k].kind = "register"
  BY <1>2, <1>3, ServedQueue, WatchRegisters
<1>5. CASE /\ task' = [task EXCEPT ![k] = Idle]
           /\ UNCHANGED <<job, registry, names, watch, serve>>
  <2>1. OnlyTask(k) /\ task'[k] = Idle
    BY <1>1, <1>5, OneTask
  <2>2. GoesOn(k)
    BY <1>4, <2>1 DEF GoesOn, Idle
  <2>3. Kept' /\ RowTable'
    BY <1>1, <1>3, <1>5 DEF Kept, RowTable
  <2> QED
    BY <1>3, <1>5, <2>1, <2>2, <2>3, PlainAgrees
<1>6. CASE /\ RemoveFromLiveState(j)
           /\ job' = [job EXCEPT ![j] = LiveRemoved(j)]
           /\ task' = [task EXCEPT ![k] = Spawn("remove", j, "release")]
  <2>1. OnlyTask(k) /\ task'[k] = [kind |-> "remove", job |-> j, at |-> "release", rest |-> {}, wrote |-> None]
    BY <1>1, <1>6, OneTask, SpawnFacts
  <2>2. GoesOn(k)
    BY <1>3, <1>4, <2>1 DEF GoesOn
  <2> QED
    BY <1>1, <1>3, <1>4, <1>6, <2>1, <2>2, RemovedRecords, RemovalAgrees
<1> QED
  BY <1>3, <1>5, <1>6

LEMMA RegistrationFailsAgrees ==
  ASSUME SchedulerInv, SchedulerInv', AgreeInv, NEW k \in Tasks, RegistrationFails(k)
  PROVE  AgreeInv'
<1>1. JobsSound /\ TasksSound
  BY DEF SchedulerInv
<1>2. PICK j : j = task[k].job
  OBVIOUS
<1>3. /\ Served(k) /\ task[k].kind = "register" /\ app.dbFails
      /\ RemoveFromLiveState(j) /\ job' = [job EXCEPT ![j] = LiveRemoved(j)]
      /\ task' = [task EXCEPT ![k] = Idle]
      /\ UNCHANGED <<app, contested, row>>
  BY <1>2 DEF RegistrationFails
<1>4. j \in Jobs
  BY <1>2, <1>3, ServedQueue
<1>5. OnlyTask(k) /\ task'[k] = Idle
  BY <1>1, <1>3, OneTask
<1>6. GoesOn(k)
  BY <1>3, <1>5 DEF GoesOn, Idle
<1> QED
  BY <1>1, <1>3, <1>4, <1>5, <1>6, RemovedRecords, RemovalAgrees

LEMMA WriteFailsAgrees ==
  ASSUME SchedulerInv, SchedulerInv', AgreeInv, NEW k \in Tasks, WriteFails(k)
  PROVE  AgreeInv'
<1>1. TasksSound /\ Kept /\ RowTable
  BY DEF SchedulerInv, AgreeInv
<1>2. /\ app.dbFails /\ task' = [task EXCEPT ![k] = Idle]
      /\ UNCHANGED <<app, contested, job, registry, names, row>>
  BY DEF WriteFails, tables
<1>3. OnlyTask(k) /\ task'[k] = Idle
  BY <1>1, <1>2, OneTask
<1>4. GoesOn(k)
  BY <1>2, <1>3 DEF GoesOn, Idle
<1>5. Kept' /\ RowTable'
  BY <1>1, <1>2 DEF Kept, RowTable
<1> QED
  BY <1>2, <1>3, <1>4, <1>5, PlainAgrees

LEMMA DoneKeeps ==
  ASSUME JobsSound, NEW k, TaskTyped(task[k]), task[k].kind \in {"remove", "replace", "removeall"},
         NEW queue, RemovalDone(k, queue)
  PROVE  \A j \in Jobs : job[j].dequeued => job'[j].dequeued
<1>1. CASE task[k].kind \in {"remove", "removeall"}
  BY <1>1 DEF RemovalDone
<1>2. CASE task[k].kind = "replace"
  <2>1. PICK j \in task[k].rest : job' = [job EXCEPT ![j] = Built(k, j)]
    BY <1>2 DEF RemovalDone, StartRegistration
  <2>2. j \in Jobs
    BY <2>1 DEF TaskTyped, TaskRecord
  <2>3. Built(k, j).dequeued = job[j].dequeued
    BY <2>2 DEF JobsSound, JobSound, JobRecord, Built, Transition
  <2> QED
    BY <2>1, <2>2, <2>3, OneJob
<1> QED
  BY <1>1, <1>2

\* What a removal task goes on to do.
LEMMA RemovalDoneAgrees ==
  ASSUME SchedulerInv, SchedulerInv', AgreeInv, UNCHANGED <<app, contested, registry>>, RowTable', Kept',
         \A r \in Rows : row'[r].status = row[r].status,
         NEW k \in Tasks, task[k].kind \in {"remove", "replace", "removeall"}, NEW queue, RemovalDone(k, queue),
         (queue = dbq /\ task[k].at = "release") \/ (Served(k) /\ queue = Tail(dbq))
  PROVE  AgreeInv'
<1>1. JobsSound /\ TasksSound /\ Queue /\ NamesInv /\ TaskTyped(task[k]) /\ TaskSound(k)
  BY DEF SchedulerInv, TasksSound, TaskSound, AgreeInv
<1>2. \A r \in Rows : ~Writes(dbq, task, k, r)
  BY DEF Writes, Enters, Moves
<1>3. /\ queue \in Seq(Tasks) /\ Distinct(queue) /\ ~In(queue, k) /\ \A x \in Tasks : In(queue, x) => In(dbq, x)
      /\ QueueStep(dbq, queue, k)
  <2>1. CASE queue = dbq /\ task[k].at = "release"
    <3>1. ~In(dbq, k)
      BY <1>1, <2>1, NotQueued
    <3> QED
      BY <1>1, <2>1, <3>1 DEF Queue, QueueStep
  <2>2. CASE Served(k) /\ queue = Tail(dbq)
    BY <2>2, ServedQueue DEF QueueStep
  <2> QED
    BY <2>1, <2>2
<1>4. CASE task[k].kind = "remove"
  <2>1. task' = [task EXCEPT ![k] = Idle] /\ dbq' = queue /\ UNCHANGED <<names, job>>
    BY <1>4 DEF RemovalDone
  <2>2. OnlyTask(k) /\ task'[k] = Idle
    BY <1>1, <2>1, OneTask
  <2>3. GoesOn(k) /\ \A r \in Rows : ~Writes(dbq', task', k, r)
    BY <1>4, <2>2 DEF GoesOn, Idle, Writes, Enters, Moves
  <2> QED
    BY <1>2, <1>3, <2>1, <2>2, <2>3, PlainAgrees
<1>5. CASE task[k].kind = "removeall"
  <2>1. task' = [task EXCEPT ![k].at = "next"] /\ dbq' = queue /\ UNCHANGED <<names, job>>
    BY <1>5 DEF RemovalDone
  <2> DEFINE t == [task[k] EXCEPT !.at = "next"]
  <2>2. t.kind = "removeall" /\ t.rest = task[k].rest
    BY <1>1, <1>5 DEF TaskTyped, TaskRecord
  <2>3. task' = [task EXCEPT ![k] = t]
    BY <2>1
  <2> HIDE DEF t
  <2>4. OnlyTask(k) /\ task'[k] = t
    BY <1>1, <2>3, OneTask
  <2>5. GoesOn(k) /\ \A r \in Rows : ~Writes(dbq', task', k, r)
    BY <1>5, <2>2, <2>4 DEF GoesOn, Writes, Enters, Moves
  <2> QED
    BY <1>2, <1>3, <2>1, <2>4, <2>5, PlainAgrees
<1>6. CASE task[k].kind = "replace"
  <2>1. PICK j \in task[k].rest : StartRegistration(k, j, Built(k, j), queue)
    BY <1>6 DEF RemovalDone
  <2>2. j \in Jobs /\ job[j].status = "building" /\ RowOf[j] = RowOf[task[k].job] /\ RowOf[j] \in Rows
    <3>1. j \in Jobs /\ job[j].status = "building"
      BY <1>1, <1>6, <2>1 DEF TaskSound, TaskTyped, TaskRecord
    <3> QED
      BY <1>1, <1>6, <2>1, <3>1, Assumptions DEF NamesInv, Homes
  <2> DEFINE rec == Built(k, j)
  <2>3. ~rec.hasId
    BY <1>1, <2>2 DEF JobsSound, JobSound, JobRecord, Begun, Transition, Built
  <2>4. StartRegistration(k, j, rec, queue)
    BY <2>1
  <2> HIDE DEF rec
  <2>5. RowOf[j] \notin contested => names[RowOf[j]] = None /\ \A i \in Tasks : i # k => ~Replaces(i, RowOf[j])
    BY <1>1, <1>6, <2>2 DEF NamesInv, Unnamed, Replaces
  <2>6. ASSUME ~app.dbFails, "all" \notin app.removals, NEW r \in Rows, r \notin contested
        PROVE  RowAgrees(r, queue, task, job, registry[r], row'[r].status)
    <3>1. RowAgrees(r, dbq, task, job, registry[r], row[r].status) /\ RowTyped(r, dbq, task, job, registry[r])
      BY <2>6, RowsTyped DEF AgreeInv, RowsAgree
    <3>2. ~Writes(queue, task, k, r)
      BY <1>2, <1>6 DEF Writes, Enters, Moves
    <3>3. \A i \in Jobs : SameWritten(job[i], job[i])
      BY DEF SameWritten
    <3>4. RowAgrees(r, queue, task, job, registry[r], row[r].status)
      BY <1>2, <1>3, <3>1, <3>2, <3>3, RowElsewhere
    <3> QED
      BY <3>4
  <2> QED
    BY <1>3, <1>6, <2>2, <2>3, <2>4, <2>5, <2>6, StartAgrees
<1> QED
  BY <1>4, <1>5, <1>6

LEMMA GuardReleasedAgrees ==
  ASSUME SchedulerInv, SchedulerInv', AgreeInv, NEW k \in Tasks, GuardReleased(k)
  PROVE  AgreeInv'
<1>1. TasksSound /\ Queue /\ Kept /\ NamesInv /\ RowTable /\ JobsSound /\ Indexes
  BY DEF SchedulerInv, AgreeInv
<1>2. /\ task[k].at = "release"
      /\ UNCHANGED <<app, contested, registry, row>>
      /\ \/ task' = [task EXCEPT ![k].at = "db"] /\ dbq' = Append(dbq, k) /\ UNCHANGED <<names, job>>
         \/ RemovalDone(k, dbq)
  BY DEF GuardReleased
<1>3. TaskTyped(task[k]) /\ TaskSound(k) /\ task[k].kind \in {"remove", "replace", "removeall"}
  BY <1>1, <1>2, WatchRegisters DEF TasksSound, TaskSound
<1>4. RowTable'
  BY <1>1, <1>2 DEF RowTable
<1>5. CASE task' = [task EXCEPT ![k].at = "db"] /\ dbq' = Append(dbq, k) /\ UNCHANGED <<names, job>>
  <2> DEFINE t == [task[k] EXCEPT !.at = "db"]
  <2>1. t.kind = task[k].kind /\ t.rest = task[k].rest /\ t.job = task[k].job
    BY <1>3 DEF TaskTyped, TaskRecord
  <2>2. task' = [task EXCEPT ![k] = t]
    BY <1>5
  <2> HIDE DEF t
  <2>3. OnlyTask(k) /\ task'[k] = t
    BY <1>1, <2>2, OneTask
  <2>4. GoesOn(k) /\ \A r \in Rows : ~Writes(dbq, task, k, r) /\ ~Writes(dbq', task', k, r)
    BY <1>3, <2>1, <2>3 DEF GoesOn, Writes, Enters, Moves
  <2>5. QueueStep(dbq, dbq', k)
    <3>1. ~In(dbq, k)
      BY <1>1, <1>2, NotQueued
    <3> QED
      BY <1>1, <1>5, <3>1 DEF Queue, QueueStep
  <2>6. Kept'
    BY <1>1, <1>2, <1>5 DEF Kept
  <2> QED
    BY <1>2, <1>4, <1>5, <2>3, <2>4, <2>5, <2>6, PlainAgrees
<1>6. CASE RemovalDone(k, dbq)
  <2>1. \A j \in Jobs : job[j].dequeued => job'[j].dequeued
    BY <1>1, <1>3, <1>6, DoneKeeps
  <2>2. Kept'
    BY <1>1, <1>2, <2>1, KeptQuiet
  <2>3. \A r \in Rows : row'[r].status = row[r].status
    BY <1>2
  <2> QED
    BY <1>2, <1>3, <1>4, <1>6, <2>2, <2>3, RemovalDoneAgrees
<1> QED
  BY <1>2, <1>5, <1>6

LEMMA RemovalWrittenAgrees ==
  ASSUME SchedulerInv, SchedulerInv', AgreeInv, NEW k \in Tasks, RemovalWritten(k)
  PROVE  AgreeInv'
<1>1. TasksSound /\ JobsSound /\ Kept /\ NamesInv /\ RowTable /\ Indexes
  BY DEF SchedulerInv, AgreeInv
<1>2. /\ Served(k) /\ task[k].kind \in {"remove", "replace", "removeall"} /\ RemovalDone(k, Tail(dbq))
      /\ row' = [row EXCEPT ![RowOf[task[k].job]].removed = TRUE]
      /\ UNCHANGED <<app, contested, registry>>
  BY DEF RemovalWritten
<1>3. TaskTyped(task[k]) /\ TaskSound(k) /\ task[k].job \in Jobs /\ RowOf[task[k].job] \in Rows
  BY <1>2, ServedQueue, Assumptions
<1>4. /\ RowTable' /\ \A r \in Rows : row'[r].status = row[r].status
      /\ \A r \in Rows : r # RowOf[task[k].job] => row'[r].removed = row[r].removed
  BY <1>1, <1>2, <1>3 DEF RowTable
<1>5. \A j \in Jobs : job[j].dequeued => job'[j].dequeued
  BY <1>1, <1>2, <1>3, DoneKeeps
<1>6. Kept'
  <2> SUFFICES ASSUME app.removals \subseteq {"replace"}, ~app.dbFails, NEW r \in Rows, r \notin contested,
                      registry[r] # None, row'[r].removed
               PROVE  job[registry[r]].dequeued
    BY <1>1, <1>2, <1>5 DEF Kept, Indexes
  <2>1. CASE r # RowOf[task[k].job]
    BY <1>1, <1>4, <2>1 DEF Kept
  <2>2. CASE r = RowOf[task[k].job]
    <3>1. task[k].kind = "replace"
      BY <1>1, <1>2 DEF NamesInv, Kinds
    <3>2. names[r] = None
      BY <1>1, <2>2, <3>1 DEF NamesInv, Unnamed, Replaces
    <3>3. registry[r] \in Jobs /\ RowOf[registry[r]] = r /\ Begun(job[registry[r]])
      BY <1>1 DEF NamesInv, Homes, Indexes, JobsSound, JobSound
    <3>4. \A i \in Tasks : task[i].kind # "removeall"
      BY <1>1 DEF NamesInv, Kinds
    <3> QED
      BY <1>1, <3>2, <3>3, <3>4, Assumptions DEF NamesInv, Named, Live
  <2> QED
    BY <2>1, <2>2
<1> QED
  BY <1>2, <1>4, <1>6, RemovalDoneAgrees

LEMMA RemoveAllJobsAgrees ==
  ASSUME SchedulerInv, SchedulerInv', AgreeInv, RemoveAllJobs
  PROVE  AgreeInv'
<1>1. TasksSound /\ NamesInv /\ Kept /\ RowTable /\ Indexes
  BY DEF SchedulerInv, AgreeInv
<1>2. PICK k : k = NewTask
  OBVIOUS
<1> DEFINE t == [Spawn("removeall", None, "next") EXCEPT !.rest = {names[r] : r \in Rows} \ {None}]
<1>3. /\ Free # {} /\ names' = [r \in Rows |-> None] /\ task' = [task EXCEPT ![k] = t]
      /\ "all" \in app.removals
      /\ UNCHANGED <<app, contested, job, registry, row, dbq>>
  BY <1>2 DEF RemoveAllJobs
<1>4. t.kind = "removeall" /\ t.rest = {names[r] : r \in Rows} \ {None}
  BY DEF Spawn
<1> HIDE DEF t
<1>5. k \in Tasks /\ task[k].kind = "free"
  BY <1>2, <1>3, NewTaskIsFree
<1>6. task'[k] = t /\ \A i \in Tasks : i # k => task'[i] = task[i]
  BY <1>1, <1>3, <1>5, OneTask DEF OnlyTask
<1>7. Named'
  <2> SUFFICES ASSUME ~app.dbFails, NEW j \in Jobs, Live(job[j]), RowOf[j] \notin contested
               PROVE  \E i \in Tasks : task'[i].kind = "removeall" /\ j \in task'[i].rest
    BY <1>3 DEF Named
  <2>1. CASE names[RowOf[j]] = j
    <3>1. RowOf[j] \in Rows /\ j # None
      BY Assumptions
    <3>2. j \in task'[k].rest
      BY <1>4, <1>6, <2>1, <3>1
    <3> QED
      BY <1>4, <1>5, <1>6, <3>2
  <2>2. ASSUME NEW i \in Tasks, task[i].kind = "removeall", j \in task[i].rest
        PROVE  task'[i].kind = "removeall" /\ j \in task'[i].rest
    BY <1>5, <1>6, <2>2
  <2> QED
    BY <1>1, <2>1, <2>2 DEF NamesInv, Named
<1>8. Homes'
  <2>1. \A r \in Rows : registry[r] # None => RowOf[registry[r]] = r /\ job[registry[r]].hasId
    BY <1>1 DEF NamesInv, Homes
  <2>2. \A i \in Tasks : task'[i].kind = "replace" => \A j \in task'[i].rest : RowOf[j] = RowOf[task'[i].job]
    BY <1>1, <1>4, <1>6 DEF NamesInv, Homes
  <2> QED
    BY <1>3, <2>1, <2>2 DEF Homes
<1>9. Kinds'
  BY <1>1, <1>3, <1>4, <1>6 DEF NamesInv, Kinds
<1>10. Unnamed'
  <2>1. \A i \in Tasks, r \in Rows : Replaces(i, r)' => Replaces(i, r)
    BY <1>4, <1>6 DEF Replaces
  <2> QED
    BY <1>1, <1>3, <2>1 DEF NamesInv, Unnamed
<1>11. RowsAgree' /\ RowTable'
  BY <1>1, <1>3 DEF RowsAgree, RowTable
<1>12. Kept'
  BY <1>1, <1>3 DEF Kept
<1> QED
  BY <1>7, <1>8, <1>9, <1>10, <1>11, <1>12 DEF AgreeInv, NamesInv

LEMMA RegisteredAgrees ==
  ASSUME SchedulerInv, SchedulerInv', AgreeInv, NEW k \in Tasks, Registered(k)
  PROVE  AgreeInv'
<1>1. /\ JobsSound /\ TasksSound /\ TasksSound' /\ Indexes /\ Indexes' /\ NamesInv /\ Kept
      /\ RowTable /\ RowsAgree
  BY DEF SchedulerInv, AgreeInv
<1>2. PICK j, e : j = task[k].job /\ e = [job[j] EXCEPT !.hasId = TRUE]
  OBVIOUS
<1> DEFINE h == Push(e)
<1>3. /\ Served(k) /\ task[k].kind = "register" /\ task[k].at = "db"
      /\ row' = [row EXCEPT ![RowOf[j]] = [status |-> task[k].wrote, removed |-> FALSE]]
      /\ registry' = [registry EXCEPT ![RowOf[j]] = j] /\ job' = [job EXCEPT ![j] = h]
      /\ UNCHANGED <<app, contested, names>>
      /\ \/ task' = [task EXCEPT ![k].at = "watch"] /\ dbq' = Append(Tail(dbq), k)
         \/ task' = [task EXCEPT ![k] = Idle] /\ dbq' = Tail(dbq)
  BY <1>2 DEF Registered
<1>4. /\ TaskTyped(task[k]) /\ TaskSound(k) /\ j \in Jobs /\ RowOf[j] \in Rows
      /\ dbq \in Seq(Tasks) /\ Distinct(dbq) /\ dbq # <<>> /\ Head(dbq) = k
  BY <1>2, <1>3, ServedQueue, Assumptions
<1>5. ~job[j].hasId /\ Begun(job[j]) /\ JobSound(job[j])
  BY <1>1, <1>2, <1>3, <1>4 DEF TaskSound, Registers, JobsSound
<1>6. h.hasId /\ h.status = job[j].status /\ h.dequeued = job[j].dequeued
  <2>1. e.hasId /\ e.status = job[j].status /\ e.dequeued = job[j].dequeued
    BY <1>2, <1>5, IdFields DEF JobSound
  <2>2. \/ h = e
        \/ h = [e EXCEPT !.heap = e.heap + 1, !.key = e.fire]
    BY DEF Push
  <2>3. e \in JobRecord
    BY <1>2, <1>5, IdFields DEF JobSound
  <2> HIDE DEF h
  <2> QED
    BY <2>1, <2>2, <2>3 DEF JobRecord
<1> HIDE DEF h
<1>7. job'[j] = h /\ \A i \in Jobs : i # j => job'[i] = job[i]
  BY <1>1, <1>3, <1>4, OneJob
<1>8. /\ OnlyTask(k)
      /\ \/ task'[k].at = "watch" /\ task'[k].kind = "register"
         \/ task'[k] = Idle
  <2>1. CASE task' = [task EXCEPT ![k].at = "watch"]
    <3> DEFINE t == [task[k] EXCEPT !.at = "watch"]
    <3>1. t.at = "watch" /\ t.kind = "register"
      BY <1>3, <1>4 DEF TaskTyped, TaskRecord
    <3>2. task' = [task EXCEPT ![k] = t]
      BY <2>1
    <3> HIDE DEF t
    <3> QED
      BY <1>1, <3>1, <3>2, OneTask
  <2>2. CASE task' = [task EXCEPT ![k] = Idle]
    BY <1>1, <2>2, OneTask
  <2> QED
    BY <1>3, <2>1, <2>2
<1>9. /\ registry'[RowOf[j]] = j /\ \A r \in Rows : r # RowOf[j] => registry'[r] = registry[r]
      /\ row'[RowOf[j]].status = task[k].wrote /\ ~row'[RowOf[j]].removed
      /\ \A r \in Rows : r # RowOf[j] => row'[r] = row[r]
  BY <1>1, <1>3, <1>4 DEF Indexes, RowTable
<1>10. RowTable'
  <2>1. task[k].wrote \in Statuses \cup {None}
    BY <1>4 DEF TaskTyped, TaskRecord
  <2> QED
    BY <1>1, <1>3, <1>4, <2>1 DEF RowTable
<1>11. NamesInv'
  <2>1. GoesOn(k)
    BY <1>3, <1>8 DEF GoesOn, Idle
  <2>2. \A i \in Jobs : (job[i].hasId => job'[i].hasId) /\ (Live(job'[i]) => Live(job[i]))
    BY <1>6, <1>7 DEF Live, Begun
  <2>3. \A r \in Rows : registry'[r] \in {None, registry[r]} \/ (RowOf[registry'[r]] = r /\ job'[registry'[r]].hasId)
    BY <1>6, <1>7, <1>9
  <2> QED
    BY <1>1, <1>3, <1>8, <2>1, <2>2, <2>3, NamesQuiet
<1>12. Kept'
  <2> SUFFICES ASSUME app.removals \subseteq {"replace"}, ~app.dbFails, NEW r \in Rows, r \notin contested,
                      registry'[r] # None, row'[r].removed
               PROVE  job'[registry'[r]].dequeued
    BY <1>3 DEF Kept
  <2>1. r # RowOf[j] /\ registry'[r] = registry[r] /\ row[r].removed /\ registry[r] \in Jobs
    BY <1>1, <1>9 DEF Indexes
  <2>2. job[registry[r]].dequeued
    BY <1>1, <2>1 DEF Kept
  <2> QED
    BY <1>6, <1>7, <2>1, <2>2
<1>13. RowsAgree'
  <2> SUFFICES ASSUME ~app.dbFails, "all" \notin app.removals, NEW r \in Rows, r \notin contested
               PROVE  RowAgrees(r, dbq', task', job', registry'[r], row'[r].status)
    BY <1>3 DEF RowsAgree
  <2>1. RowTyped(r, dbq, task, job, registry[r]) /\ RowAgrees(r, dbq, task, job, registry[r], row[r].status)
    BY <1>1, RowsTyped DEF RowsAgree
  <2>2. \A x \in Tasks : x # k => task'[x] = task[x]
    BY <1>8 DEF OnlyTask
  <2>3. ~Writes(dbq', task', k, r)
    BY <1>8 DEF Writes, Enters, Moves, Idle
  <2>4. /\ Tail(dbq) \in Seq(Tasks) /\ Distinct(Tail(dbq)) /\ ~In(Tail(dbq), k)
        /\ \A x \in Tasks : In(Tail(dbq), x) => In(dbq, x)
    BY <1>3, ServedQueue
  <2>5. CASE r = RowOf[j]
    <3>1. Enters(dbq, task, k, r)
      BY <1>2, <1>3, <1>4, <2>5, OrderLess DEF Enters
    <3>2. RowAgrees(r, Tail(dbq), task, job', j, task[k].wrote)
      BY <1>2, <1>4, <1>6, <1>7, <2>1, <3>1, RowEntered
    <3>3. RowTyped(r, Tail(dbq), task, job', j)
      <4>1. ASSUME NEW x \in Tasks, Enters(Tail(dbq), task, x, r)
            PROVE  task[x].job \in Jobs /\ Begun(job'[task[x].job]) /\ ~job'[task[x].job].hasId
        <5>1. Enters(dbq, task, x, r) /\ x # k
          BY <2>4, <4>1 DEF Enters
        <5>2. task[x].job # j
          BY <1>1, <1>2, <1>3, <1>4, <4>1, <5>1 DEF TasksSound, Builds, Registers, Enters
        <5> QED
          BY <1>7, <2>1, <5>1, <5>2 DEF RowTyped
      <4>2. ASSUME NEW x \in Tasks, Moves(Tail(dbq), task, x, r)
            PROVE  task[x].job \in Jobs /\ job'[task[x].job].hasId
        <5>1. Moves(dbq, task, x, r)
          BY <2>4, <4>2 DEF Moves
        <5> QED
          BY <1>6, <1>7, <2>1, <5>1 DEF RowTyped
      <4> QED
        BY <1>4, <1>6, <1>7, <2>5, <4>1, <4>2 DEF RowTyped
    <3>4. QueueStep(Tail(dbq), dbq', k) /\ ~Writes(Tail(dbq), task, k, r)
      BY <1>3, <2>4 DEF QueueStep, Writes, Enters, Moves
    <3>5. \A i \in Jobs : SameWritten(job'[i], job'[i])
      BY DEF SameWritten
    <3> QED
      BY <1>9, <2>2, <2>3, <2>5, <3>2, <3>3, <3>4, <3>5, RowElsewhere
  <2>6. CASE r # RowOf[j]
    <3>1. ~Writes(dbq, task, k, r)
      BY <1>2, <2>6 DEF Writes, Enters, Moves
    <3>2. QueueStep(dbq, dbq', k)
      BY <1>3, <1>4 DEF QueueStep
    <3>3. \A i \in Jobs : RowOf[i] = r => SameWritten(job[i], job'[i])
      BY <1>7, <2>6 DEF SameWritten
    <3> QED
      BY <1>9, <2>1, <2>2, <2>3, <2>6, <3>1, <3>2, <3>3, RowElsewhere
  <2> QED
    BY <2>5, <2>6
<1> QED
  BY <1>10, <1>11, <1>12, <1>13 DEF AgreeInv

LEMMA ServeAgrees ==
  ASSUME SchedulerInv, SchedulerInv', AgreeInv, Serve
  PROVE  AgreeInv'
<1>1. /\ JobsSound /\ Indexes /\ Queue
      /\ RowTable /\ Named /\ Homes /\ Kinds /\ Unnamed /\ RowsAgree /\ Kept
  BY DEF SchedulerInv, AgreeInv, NamesInv
<1>2. /\ job' = [j \in Jobs |-> Popped(job[j])]
      /\ UNCHANGED <<app, contested, registry, names, row, dbq>>
  BY DEF Serve, tables
<1>3. \A i \in Tasks : task'[i] = task[i] \/ (task[i] = Idle /\ task'[i].kind = "dispatch")
  <2>1. PICK D : D = Due
    OBVIOUS
  <2>2. PICK f \in [D -> Tasks] :
          /\ \A d \in D : task[f[d]] = Idle
          /\ \A i \in Tasks : IF \E d \in D : f[d] = i
                              THEN \E d \in D : f[d] = i /\ task'[i] = Spawn("dispatch", d, "spawned")
                              ELSE task'[i] = task[i]
    BY <2>1, ServeSteps
  <2>3. \A d \in D : Spawn("dispatch", d, "spawned").kind = "dispatch"
    BY DEF Spawn
  <2> QED
    BY <2>2, <2>3
<1>4. ASSUME NEW j \in Jobs
      PROVE  job'[j].hasId = job[j].hasId /\ job'[j].status = job[j].status /\ job'[j].dequeued = job[j].dequeued
  <2>1. job'[j] = Popped(job[j]) /\ JobSound(job[j])
    BY <1>1, <1>2 DEF JobsSound
  <2>2. CASE job'[j] = DropEntry(job[j])
    BY <2>1, <2>2, DropEntryFacts DEF SameStage
  <2> QED
    BY <2>1, <2>2 DEF Popped
<1>5. \A j \in Jobs : SameWritten(job[j], job'[j]) /\ (Live(job'[j]) <=> Live(job[j]))
  BY <1>4 DEF SameWritten, Live, Begun
<1>6. ASSUME NEW i \in Tasks, task[i].kind \in {"replace", "remove", "removeall"}
             \/ task'[i].kind \in {"replace", "remove", "removeall"}
      PROVE  task'[i] = task[i]
  BY <1>3, <1>6 DEF Idle
<1>7. Named'
  BY <1>2, <1>1, <1>5, <1>6 DEF Named
<1>8. Homes'
  <2>1. \A r \in Rows : registry[r] # None => job'[registry[r]].hasId
    BY <1>1, <1>4 DEF Homes, Indexes
  <2> QED
    BY <1>1, <1>2, <1>6, <2>1 DEF Homes
<1>9. Kinds'
  BY <1>1, <1>2, <1>6 DEF Kinds
<1>10. Unnamed'
  <2>1. \A i \in Tasks : \A r \in Rows : Replaces(i, r)' => Replaces(i, r)
    BY <1>6 DEF Replaces
  <2> QED
    BY <1>1, <1>2, <2>1 DEF Unnamed
<1>11. RowsAgree'
  <2> SUFFICES ASSUME ~app.dbFails, "all" \notin app.removals, NEW r \in Rows, r \notin contested
               PROVE  RowAgrees(r, dbq, task', job', registry[r], row[r].status)
    BY <1>2 DEF RowsAgree
  <2>1. RowTyped(r, dbq, task, job, registry[r]) /\ RowAgrees(r, dbq, task, job, registry[r], row[r].status)
    BY <1>1, RowsTyped DEF RowsAgree
  <2>2. ASSUME NEW x \in Tasks, In(dbq, x) PROVE task'[x] = task[x]
    <3>1. task[x].at \in {"db", "again", "watch"}
      BY <1>1, <2>2 DEF Queue, In
    <3> QED
      BY <1>3, <3>1 DEF Idle
  <2>3. \A x \in Tasks : Writes(dbq, task', x, r) \/ Writes(dbq, task, x, r) => In(dbq, x) /\ task'[x] = task[x]
    BY <2>2 DEF Writes, Enters, Moves
  <2> QED
    BY <1>5, <2>1, <2>3, RowQuiet
<1>12. Kept'
  BY <1>1, <1>2, <1>4 DEF Kept, Indexes
<1> QED
  BY <1>1, <1>2, <1>7, <1>8, <1>9, <1>10, <1>11, <1>12 DEF AgreeInv, NamesInv, RowTable

LEMMA AgreeInvInit ==
  ASSUME Init
  PROVE  AgreeInv
<1>1. /\ \A j \in Jobs : job[j] = NewJob
      /\ \A r \in Rows : registry[r] = None /\ names[r] = None /\ row[r] = [status |-> None, removed |-> FALSE]
      /\ row = [r \in Rows |-> [status |-> None, removed |-> FALSE]]
      /\ \A k \in Tasks : task[k] = Idle
      /\ dbq = <<>>
  BY DEF Init
<1>2. RowTable
  BY <1>1 DEF RowTable
<1>3. \A j \in Jobs : ~Live(job[j])
  BY <1>1 DEF Live, Begun, NewJob
<1>4. \A k \in Tasks : task[k].kind = "free"
  BY <1>1 DEF Idle
<1>5. NamesInv
  BY <1>1, <1>3, <1>4 DEF NamesInv, Named, Homes, Kinds, Unnamed, Replaces
<1>6. \A x \in Tasks : ~In(dbq, x)
  BY <1>1 DEF In
<1>7. RowsAgree
  <2> SUFFICES ASSUME NEW r \in Rows PROVE RowAgrees(r, dbq, task, job, registry[r], row[r].status)
    BY DEF RowsAgree
  <2>1. \A x \in Tasks : ~Enters(dbq, task, x, r) /\ ~Moves(dbq, task, x, r)
    BY <1>6 DEF Enters, Moves
  <2> QED
    BY <1>1, <1>3, <2>1 DEF RowAgrees, MovesFirst, LiveRegistered, LastEnters, LastWrites, Writes, Shows
<1>8. Kept
  BY <1>1 DEF Kept
<1> QED
  BY <1>2, <1>5, <1>7, <1>8 DEF AgreeInv

----------------------------------------------------------------------------
(* The theorems *)

LEMMA SchedulerInvStep == SchedulerInv /\ [Next]_vars => SchedulerInv'
<1>. SUFFICES ASSUME SchedulerInv, [Next]_vars PROVE SchedulerInv'
  OBVIOUS
<1>1. CASE UNCHANGED vars
  BY <1>1, SameKept DEF vars, tables, sources
<1>2. ASSUME NEW j \in Jobs, AddJob(j) \/ ReplaceJob(j) \/ RemoveJob(j) PROVE SchedulerInv'
  BY <1>2, AddJobKept, ReplaceJobKept, RemoveJobKept
<1>3. ASSUME NEW j \in Jobs, SubmitJob(j) PROVE SchedulerInv'
  BY <1>3, SameKept DEF SubmitJob, tables, sources
<1>4. CASE AppStep
  BY <1>2, <1>3, <1>4, RemoveAllJobsKept DEF AppStep
<1>5. ASSUME NEW k \in Tasks, TaskStep(k) PROVE SchedulerInv'
  BY <1>5, RegisteredKept, WatchInstalledKept, RegistrationFailsKept, WatchFailsKept, GuardReleasedKept,
     RemovalWrittenKept, RemoveNextKept, DispatchStartKept, DispatchPersistedKept, DispatchMovedKept,
     ReschedulePersistedKept, WriteFailsKept DEF TaskStep
<1>6. ASSUME NEW j \in Jobs, NEW t \in (1 .. app.until + 1) \cup {None}, EntityChange(j, t) PROVE SchedulerInv'
  BY <1>6, EntityChangeKept
<1>7. CASE CacheUpdated \/ HandlerStart \/ Serve \/ Tick
  BY <1>7, CacheUpdatedKept, HandlerStartKept, ServeKept, TickKept
<1>. QED BY <1>1, <1>4, <1>5, <1>6, <1>7 DEF Next

LEMMA SchedulerInvHolds == Spec => []SchedulerInv
<1>1. Init => SchedulerInv
  BY SchedulerInvInit
<1>2. SchedulerInv /\ [Next]_vars => SchedulerInv'
  BY SchedulerInvStep
<1>. QED BY <1>1, <1>2, PTL DEF Spec

LEMMA AgreeInvStep == SchedulerInv /\ AgreeInv /\ [Next]_vars => AgreeInv'
<1> SUFFICES ASSUME SchedulerInv, AgreeInv, [Next]_vars PROVE AgreeInv'
  OBVIOUS
<1>1. SchedulerInv'
  BY SchedulerInvStep
<1>2. CASE UNCHANGED vars
  BY <1>2, AgreeSame DEF vars, tables
<1>3. ASSUME NEW j \in Jobs, AddJob(j) \/ ReplaceJob(j) \/ RemoveJob(j) PROVE AgreeInv'
  BY <1>1, <1>3, AddJobAgrees, ReplaceJobAgrees, RemoveJobAgrees
<1>4. ASSUME NEW j \in Jobs, SubmitJob(j) PROVE AgreeInv'
  BY <1>4, AgreeSame DEF SubmitJob, tables
<1>5. CASE AppStep
  BY <1>1, <1>3, <1>4, <1>5, RemoveAllJobsAgrees DEF AppStep
<1>6. ASSUME NEW k \in Tasks, TaskStep(k) PROVE AgreeInv'
  <2>1. CASE Registered(k) \/ WatchInstalled(k) \/ RegistrationFails(k) \/ WatchFails(k)
    BY <1>1, <2>1, RegisteredAgrees, WatchInstalledAgrees, RegistrationFailsAgrees, WatchFailsAgrees
  <2>2. CASE GuardReleased(k) \/ RemovalWritten(k) \/ RemoveNext(k) \/ WriteFails(k)
    BY <1>1, <2>2, GuardReleasedAgrees, RemovalWrittenAgrees, RemoveNextAgrees, WriteFailsAgrees
  <2>3. CASE DispatchStart(k) \/ DispatchPersisted(k) \/ DispatchMoved(k) \/ ReschedulePersisted(k)
    BY <1>1, <2>3, DispatchStartAgrees, DispatchPersistedAgrees, DispatchMovedAgrees, ReschedulePersistedAgrees
  <2> QED
    BY <1>6, <2>1, <2>2, <2>3 DEF TaskStep
<1>7. ASSUME NEW j \in Jobs, NEW t, EntityChange(j, t) PROVE AgreeInv'
  BY <1>7, AgreeSame DEF EntityChange, tables
<1>8. CASE CacheUpdated \/ Tick
  BY <1>8, AgreeSame DEF CacheUpdated, Tick, tables
<1>9. CASE HandlerStart \/ Serve
  BY <1>1, <1>9, HandlerStartAgrees, ServeAgrees
<1> QED
  BY <1>2, <1>5, <1>6, <1>7, <1>8, <1>9 DEF Next

\* Every variable of the scheduler keeps its type: the write queue holds each task
\* at most once and only tasks that wait for a write (SchedulerService, write queue).
THEOREM TypeCorrect == Spec => []TypeOK
<1>1. SchedulerInv => TypeOK
  <2>. SUFFICES ASSUME SchedulerInv PROVE TypeOK
    OBVIOUS
  <2>1. JobsSound /\ TasksSound /\ Indexes /\ Queue
    BY DEF SchedulerInv
  <2>2. job \in [Jobs -> [status : {"new", "building", "scheduled", "waiting", "completed", "manual"},
                         next : Times \cup {None}, fire : Times \cup {None},
                         pending : Times \cup {None, WAITING}, dequeued : BOOLEAN,
                         hasId : BOOLEAN, heap : Nat, key : Times \cup {None}]]
    <3>1. \A j \in Jobs : job[j] \in [status : {"new", "building", "scheduled", "waiting", "completed", "manual"},
                         next : Times \cup {None}, fire : Times \cup {None},
                         pending : Times \cup {None, WAITING}, dequeued : BOOLEAN,
                         hasId : BOOLEAN, heap : Nat, key : Times \cup {None}]
      BY <2>1 DEF JobsSound, JobSound, JobRecord, Statuses
    <3>. QED BY <2>1, <3>1 DEF JobsSound, AllJobs
  <2>3. {registry[r] : r \in Rows} \cup {names[r] : r \in Rows} \cup {watch[r] : r \in Rows}
           \subseteq Jobs \cup {None}
    BY <2>1 DEF Indexes
  <2>4. \A k \in Tasks : (task[k].kind = "free") = (task[k] = Idle)
    <3>1. Idle.kind = "free"
      BY DEF Idle
    <3>. QED BY <2>1, <3>1 DEF TasksSound, TaskSound, TaskTyped
  <2>5. /\ \A i \in 1..Len(dbq) : task[dbq[i]].at \in {"db", "again", "watch"}
        /\ \A i, k \in 1..Len(dbq) : dbq[i] = dbq[k] => i = k
    BY <2>1 DEF Queue, Distinct
  <2>. QED BY <2>1, <2>2, <2>3, <2>4, <2>5 DEF TypeOK, Indexes
<1>. QED BY <1>1, SchedulerInvHolds, PTL

\* The due-time heap and the statuses of the jobs agree, whatever reschedules,
\* removals and dispatches of one job interleave: the heap holds a job once, live
\* and filed under its due time, and no promised occurrence is lost
\* (_ScheduledJobQueue, dispatch_and_log(), reschedule_job()).
THEOREM HeapAgrees == Spec => []HeapSound
<1>1. SchedulerInv => HeapSound
  <2>. SUFFICES ASSUME SchedulerInv PROVE HeapSound
    OBVIOUS
  <2>1. JobsSound /\ Occurrences
    BY DEF SchedulerInv
  <2>2. HeapHoldsScheduled
    BY <2>1 DEF HeapHoldsScheduled, JobsSound, JobSound, JobRecord
  <2>3. ASSUME NEW j \in Jobs, ~app.dbFails, job[j].status = "scheduled", ~job[j].dequeued
        PROVE  \/ job[j].heap = 1
               \/ \E k \in Tasks : task[k].job = j /\ task[k].kind \in {"register", "dispatch", "handler"}
    BY <2>1, <2>3 DEF Occurrences, InHand, Carries
  <2>4. ScheduledNotLost
    BY <2>3 DEF ScheduledNotLost
  <2>. QED BY <2>2, <2>4 DEF HeapSound
<1>. QED BY <1>1, SchedulerInvHolds, PTL

\* The serve loop sleeps past no entry of the heap by its minimum delay, whoever
\* enqueued it and when: every enqueue kicks the loop, and the loop sleeps no
\* longer than to the first entry (run(), calculate_sleep_time()).
THEOREM NeverOversleeps == Spec => []SleepNeverPastDue
<1>1. SchedulerInv => SleepNeverPastDue
  BY DEF SchedulerInv, Wakes
<1>. QED BY <1>1, SchedulerInvHolds, PTL

\* Names, rows and live jobs agree, whatever registrations, replacements and
\* removals of one name interleave with the writes of its earlier jobs: a live job
\* is the one its name maps to, a row shows its job's schedule status once nothing
\* writes to it, and a replacement is not marked removed by its predecessor
\* (_add_job(), remove_job(), remove_all_jobs(), reschedule_job()).
THEOREM RegistrationsHold == Spec => []RegistrationsAgree
<1>1. Init => SchedulerInv /\ AgreeInv
  BY SchedulerInvInit, AgreeInvInit
<1>2. SchedulerInv /\ AgreeInv /\ [Next]_vars => (SchedulerInv /\ AgreeInv)'
  BY SchedulerInvStep, AgreeInvStep
<1>3. SchedulerInv /\ AgreeInv => RegistrationsAgree
  <2> SUFFICES ASSUME SchedulerInv, AgreeInv PROVE RegistrationsAgree
    OBVIOUS
  <2>1. Named /\ RowsAgree /\ Kept
    BY DEF AgreeInv, NamesInv
  <2>2. RowShowsStatus
    <3> SUFFICES ASSUME NEW r \in Rows, ~app.dbFails, "all" \notin app.removals, r \notin contested,
                        registry[r] # None, \A j \in Jobs : RowOf[j] = r => ~Busy(j)
                 PROVE  row[r].status = job[registry[r]].status
      BY DEF RowShowsStatus
    <3>1. RowAgrees(r, dbq, task, job, registry[r], row[r].status) /\ RowTyped(r, dbq, task, job, registry[r])
      BY <2>1, RowsTyped DEF RowsAgree
    <3>2. ASSUME NEW x \in Tasks PROVE ~Writes(dbq, task, x, r)
      BY <3>1 DEF Writes, RowTyped, Enters, Moves, Busy
    <3> QED
      BY <3>1, <3>2 DEF RowAgrees, Shows
  <2>3. LiveIsNamed
    BY <2>1 DEF LiveIsNamed, Named, Live, Begun
  <2>4. ReplacementKeepsRow
    BY <2>1 DEF ReplacementKeepsRow, Kept
  <2> QED
    BY <2>2, <2>3, <2>4 DEF RegistrationsAgree
<1> QED
  BY <1>1, <1>2, <1>3, PTL DEF Spec
===============================================================================
