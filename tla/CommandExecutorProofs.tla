----------------------- MODULE CommandExecutorProofs -----------------------
(***************************************************************************)
(* Proofs about CommandExecutor for any records, callers, queue sizes,     *)
(* drain cap, retries, faults and restarts: the database closes drained,   *)
(* the executor does to it what DbSpec allows, and each record is in one   *)
(* place.                                                                  *)
(***************************************************************************)
EXTENDS CommandExecutor, TLAPS, SequenceTheorems, FiniteSetTheorems, WellFoundedInduction

----------------------------------------------------------------------------
(* The database *)

\* DatabaseService by itself never closes its connections on an accepted write,
\* for every set of callers, every capacity of the queue and any number of
\* restarts.  The invariant adds to the type and to the property itself that a
\* suspended put() has a full queue in front of it.
DbInv == DbTypeOK /\ PutMeansFull /\ NothingAfterClose

PutJobs == [by : Callers, what : Writes]
CallOf == [at : {"idle", "putting", "waiting", "back"}, result : Results \cup {None}]

----------------------------------------------------------------------------
(* The database: sequences *)

\* Removing one element of a sequence leaves a sequence, shorter by one.
LEMMA RemoveAtType ==
  ASSUME NEW S, NEW s \in Seq(S), NEW i \in DOMAIN s
  PROVE  RemoveAt(s, i) \in Seq(S)
<1>1. i \in 1..Len(s)
  OBVIOUS
<1>2. SubSeq(s, 1, i - 1) \in Seq(S) /\ SubSeq(s, i + 1, Len(s)) \in Seq(S)
  BY <1>1, SubSeqProperties
<1>. QED
  BY <1>2, ConcatProperties DEF RemoveAt

\* Closing the ownership of queued writes changes neither their number nor
\* their type.
LEMMA UnownedQueue ==
  ASSUME NEW c \in Callers, NEW s \in Seq(Jobs)
  PROVE  LET t == [i \in DOMAIN s |-> Unowned(c, s[i])]
         IN  t \in Seq(Jobs) /\ Len(t) = Len(s) /\ (s = <<>> => t = <<>>)
<1>1. \A i \in 1..Len(s) : Unowned(c, s[i]) \in Jobs
  <2>1. \A job \in Jobs : Unowned(c, job) \in Jobs
    BY DEF Unowned, Jobs
  <2>. QED
  BY <2>1, ElementOfSeq
<1>2. DOMAIN s = 1..Len(s)
  OBVIOUS
<1>. DEFINE t == [i \in 1..Len(s) |-> Unowned(c, s[i])]
<1>3. t \in Seq(Jobs) /\ Len(t) = Len(s)
  BY <1>1
<1>. QED
  BY <1>2, <1>3

----------------------------------------------------------------------------
(* The database: callers *)

\* submit() keeps the invariant.
LEMMA SubmitInv ==
  ASSUME DbInv, NEW c \in Callers, NEW w \in Writes, Submit(c, w),
         UNCHANGED <<accepting, writing, stage, cut, restarts>>
  PROVE  DbInv'
<1>. USE DatabaseAssumption DEF DbInv
<1>1. [by |-> c, what |-> w] \in PutJobs /\ [by |-> c, what |-> w] \in Jobs
  BY DEF PutJobs, Jobs
<1>2. \A at \in {"putting", "waiting", "back"}, r \in Results \cup {None} :
        Called(c, at, r) \in [Callers -> CallOf]
  BY DEF Called, CallOf, DbTypeOK
<1>3. CASE ~accepting /\ call' = Called(c, "back", "refused") /\ UNCHANGED <<queue, putting>>
  <2>1. call' \in [Callers -> CallOf]
    BY <1>2, <1>3 DEF Results
  <2>. QED
  BY <1>3, <2>1 DEF DbTypeOK, PutMeansFull, NothingAfterClose, CallOf
<1>4. CASE /\ accepting /\ Len(queue) < WriteQueueMax
           /\ queue' = Append(queue, [by |-> c, what |-> w])
           /\ call' = Called(c, "waiting", None)
           /\ UNCHANGED putting
  <2>1. call' \in [Callers -> CallOf]
    BY <1>2, <1>4
  <2>2. queue' \in Seq(Jobs)
    BY <1>1, <1>4, AppendProperties DEF DbTypeOK
  <2>3. putting = <<>> /\ stage = "up"
    BY <1>4 DEF PutMeansFull, DbTypeOK
  <2>. QED
  BY <1>4, <2>1, <2>2, <2>3 DEF DbTypeOK, PutMeansFull, NothingAfterClose, CallOf
<1>5. CASE /\ accepting /\ Len(queue) >= WriteQueueMax
           /\ putting' = Append(putting, [by |-> c, what |-> w])
           /\ call' = Called(c, "putting", None)
           /\ UNCHANGED queue
  <2>1. call' \in [Callers -> CallOf]
    BY <1>2, <1>5
  <2>2. putting' \in Seq(PutJobs)
    BY <1>1, <1>5, AppendProperties DEF DbTypeOK, PutJobs
  <2>3. Len(queue) = WriteQueueMax /\ stage = "up"
    BY <1>5 DEF PutMeansFull, DbTypeOK
  <2>. QED
  BY <1>5, <2>1, <2>2, <2>3 DEF DbTypeOK, PutMeansFull, NothingAfterClose, CallOf, PutJobs
<1>. QED
  BY <1>3, <1>4, <1>5 DEF Submit

\* A caller that is cancelled inside submit() keeps it.
LEMMA AbandonInv ==
  ASSUME DbInv, NEW c \in Callers, Abandon(c),
         UNCHANGED <<accepting, stage, cut, restarts>>
  PROVE  DbInv'
<1>. USE DatabaseAssumption DEF DbInv
<1>1. queue' \in Seq(Jobs) /\ Len(queue') = Len(queue) /\ (queue = <<>> => queue' = <<>>)
  BY UnownedQueue DEF Abandon, DbTypeOK
<1>2. putting' \in Seq(PutJobs) /\ (putting = <<>> => putting' = <<>>)
  BY RemoveAtType DEF Abandon, DbTypeOK, PutJobs
<1>3. writing' \in Jobs \cup {None} /\ (writing = None => writing' = None)
  BY DEF Abandon, DbTypeOK, Unowned, Jobs
<1>4. call' \in [Callers -> CallOf]
  BY DEF Abandon, DbTypeOK, Idle, CallOf
<1>. QED
  BY <1>1, <1>2, <1>3, <1>4 DEF DbTypeOK, PutMeansFull, NothingAfterClose, CallOf, PutJobs

----------------------------------------------------------------------------
(* The database: the worker *)

\* Taking a write lets the first suspended put() through: the queue stays full.
LEMMA TakeInv ==
  ASSUME DbInv, Take
  PROVE  DbInv'
<1>. USE DatabaseAssumption DEF DbInv
<1>1. Head(queue) \in Jobs /\ Tail(queue) \in Seq(Jobs) /\ Len(Tail(queue)) = Len(queue) - 1
  BY HeadTailProperties DEF Take, DbTypeOK
<1>2. stage # "closed"
  BY DEF Take, NothingAfterClose
<1>3. CASE putting = <<>> /\ queue' = Tail(queue) /\ UNCHANGED <<putting, call>>
  BY <1>1, <1>2, <1>3 DEF Take, DbTypeOK, PutMeansFull, NothingAfterClose
<1>4. CASE /\ putting # <<>>
           /\ queue' = Append(Tail(queue), Head(putting))
           /\ putting' = Tail(putting)
           /\ call' = Called(Head(putting).by, "waiting", None)
  <2>1. Head(putting) \in PutJobs /\ putting' \in Seq(PutJobs)
    BY <1>4, HeadTailProperties DEF DbTypeOK, PutJobs
  <2>2. queue' \in Seq(Jobs) /\ Len(queue') = Len(queue)
    <3>1. Head(putting) \in Jobs
      BY <2>1 DEF PutJobs, Jobs
    <3>. QED
    BY <1>1, <1>4, <3>1, AppendProperties DEF DbTypeOK
  <2>3. call' \in [Callers -> CallOf]
    BY <1>4, <2>1 DEF Called, CallOf, PutJobs, DbTypeOK
  <2>. QED
  BY <1>1, <1>2, <1>4, <2>1, <2>2, <2>3
     DEF Take, DbTypeOK, PutMeansFull, NothingAfterClose, PutJobs, CallOf
<1>. QED
  BY <1>3, <1>4 DEF Take

\* The end of a write keeps it, whatever its result.
LEMMA WrittenInv ==
  ASSUME DbInv, NEW result \in Results, Written(result)
  PROVE  DbInv'
<1>. USE DatabaseAssumption DEF DbInv
<1>1. call' \in [Callers -> CallOf]
  BY DEF Written, Called, CallOf, DbTypeOK, Jobs
<1>. QED
  BY <1>1 DEF Written, DbTypeOK, PutMeansFull, NothingAfterClose, CallOf

----------------------------------------------------------------------------
(* The database: shutdown and restart *)

\* on_shutdown() starts with an empty or a full queue behind it, and closes
\* only when it is empty, so no put() is left.
LEMMA StopInv ==
  ASSUME DbInv, StopAccepting \/ Joined \/ Reopen
  PROVE  DbInv'
<1>. USE DatabaseAssumption DEF DbInv
<1>1. CASE StopAccepting
  BY <1>1 DEF StopAccepting, DbTypeOK, PutMeansFull, NothingAfterClose
<1>2. CASE Joined
  <2>1. queue = <<>> /\ writing = None /\ stage = "joining" /\ ~cut
    BY <1>2 DEF Joined, Unfinished, PutMeansFull
  <2>2. putting = <<>>
    BY <2>1 DEF PutMeansFull
  <2>. QED
  BY <1>2, <2>1, <2>2 DEF Joined, DbTypeOK, PutMeansFull, NothingAfterClose
<1>3. CASE Reopen
  BY <1>3 DEF Reopen, DbTypeOK, PutMeansFull, NothingAfterClose
<1>. QED
  BY <1>1, <1>2, <1>3

\* A drain that is cut off leaves nothing to write either.
LEMMA CutOffInv ==
  ASSUME DbInv, CutOff
  PROVE  DbInv'
<1>. USE DatabaseAssumption DEF DbInv
<1>1. call' \in [Callers -> CallOf]
  BY DEF CutOff, DbTypeOK, CallOf, Results
<1>. QED
  BY <1>1 DEF CutOff, DbTypeOK, PutMeansFull, NothingAfterClose, CallOf

----------------------------------------------------------------------------
(* The database: its theorems *)

\* The invariant holds first.
LEMMA DbFirst ==
  ASSUME DbInit
  PROVE  DbInv
<1>1. call \in [Callers -> CallOf]
  BY DEF DbInit, Idle, CallOf
<1>2. queue = <<>> /\ Len(queue) = 0 /\ putting = <<>>
  BY DEF DbInit
<1>3. queue \in Seq(Jobs) /\ Len(queue) <= WriteQueueMax /\ putting \in Seq(PutJobs)
  BY <1>2, DatabaseAssumption
<1>4. accepting = TRUE /\ cut = FALSE /\ restarts = 0 /\ stage = "up" /\ writing = None
  BY DEF DbInit
<1>. QED
BY <1>1, <1>2, <1>3, <1>4
   DEF DbInv, DbTypeOK, PutMeansFull, NothingAfterClose, CallOf, PutJobs

\* Every step keeps it.
LEMMA DbStep ==
  ASSUME DbInv, [DbNext]_dbvars
  PROVE  DbInv'
<1>1. ASSUME NEW c \in Callers, CallerStep(c) PROVE DbInv'
  <2>1. CASE /\ \E w \in Writes : Submit(c, w)
             /\ UNCHANGED <<accepting, writing, stage, cut, restarts>>
    BY <2>1, SubmitInv
  <2>2. CASE /\ call' = [call EXCEPT ![c] = Idle]
             /\ UNCHANGED <<accepting, queue, putting, writing, stage, cut, restarts>>
    <3>1. call' \in [Callers -> CallOf]
      BY <2>2 DEF DbInv, DbTypeOK, Idle, CallOf
    <3>. QED
    BY <2>2, <3>1 DEF DbInv, DbTypeOK, PutMeansFull, NothingAfterClose, CallOf
  <2>3. CASE Abandon(c) /\ UNCHANGED <<accepting, stage, cut, restarts>>
    BY <2>3, AbandonInv
  <2>. QED
  BY <1>1, <2>1, <2>2, <2>3 DEF CallerStep
<1>2. ASSUME NEW w \in Writes, Enqueue(w) PROVE DbInv'
  <2>1. [by |-> None, what |-> w] \in Jobs
    BY DEF Jobs
  <2>2. CASE accepting /\ Len(queue) < WriteQueueMax
    <3>1. queue' \in Seq(Jobs) /\ Len(queue') = Len(queue) + 1
      BY <1>2, <2>1, <2>2, AppendProperties DEF Enqueue, DbInv, DbTypeOK
    <3>2. putting = <<>> /\ stage = "up"
      BY <2>2, DatabaseAssumption DEF DbInv, PutMeansFull, DbTypeOK
    <3>. QED
    BY <1>2, <2>2, <3>1, <3>2, DatabaseAssumption DEF Enqueue, DbInv, DbTypeOK, PutMeansFull, NothingAfterClose
  <2>3. CASE ~(accepting /\ Len(queue) < WriteQueueMax)
    BY <1>2, <2>3 DEF Enqueue, DbInv, DbTypeOK, PutMeansFull, NothingAfterClose
  <2>. QED
  BY <2>2, <2>3
<1>3. CASE UNCHANGED dbvars
  BY <1>3 DEF dbvars, DbInv, DbTypeOK, PutMeansFull, NothingAfterClose
<1>. QED
BY <1>1, <1>2, <1>3, TakeInv, WrittenInv, StopInv, CutOffInv DEF DbNext

LEMMA DbInvariant == DbSpec => []DbInv
<1>1. DbInit => DbInv
  BY DbFirst
<1>2. DbInv /\ [DbNext]_dbvars => DbInv'
  BY DbStep
<1>. QED BY <1>1, <1>2, PTL DEF DbSpec

\* The state keeps its type.
THEOREM DatabaseTypeCorrect == DbSpec => []DbTypeOK
BY DbInvariant, PTL DEF DbInv

\* on_shutdown() closes the connections only when every accepted write has
\* ended and, unless the drain was cut off, no submit() is suspended.
THEOREM ClosedIsDrained == DbSpec => []NothingAfterClose
BY DbInvariant, PTL DEF DbInv

----------------------------------------------------------------------------
(* Counting *)

\* The positions of the sequence s that hold an element of V, and their number.
Hits(s, V) == {i \in DOMAIN s : s[i] \in V}
Count(s, V) == Cardinality(Hits(s, V))
Bit(b) == IF b THEN 1 ELSE 0

ItemType == [records : SUBSET Records, retry : 0..MaxRetries, due : BOOLEAN]
Full == {item \in ItemType : item.records # {}}
ServeType == [at : States, got : Full \cup {None}, todo : Seq(Full), batch : ItemType,
              op : {"batch", "fallback"}, flush : BOOLEAN]

\* The items with the record r, the writes with it that nobody waits for, and
\* the writes serve() waits for.
With(r) == {item \in ItemType : r \in item.records}
Loose(r) == {job \in Jobs : job.by = None /\ r \in job.what.records}
Own == {job \in Jobs : job.by = Executor}

----------------------------------------------------------------------------
(* The inductive invariant *)

Typed ==
    /\ ended \subseteq Records /\ announced \subseteq Records
    /\ ring \in Seq(Full) /\ Len(ring) <= TelemetryQueueMax
    /\ serve \in ServeType
    /\ stopping \in BOOLEAN
    /\ drops \in [overflow : Nat, exhausted : Nat]
    /\ lost \in [overflow : SUBSET Records, exhausted : SUBSET Records,
                 logged : SUBSET Records, cancelled : SUBSET Records]
    /\ rows \in [Records -> Nat] /\ faults \in 0..MaxFaults

\* What serve() holds follows from where it is.
Hands ==
    /\ serve.got # None => serve.at \in {"waiting", "reaping"}
    /\ serve.todo # <<>> => serve.at \in {"persisting", "emitting", "dropping", "yielding"}
    /\ serve.at \in {"persisting", "yielding"} => serve.batch \in Full
    /\ serve.at = "yielding" => serve.batch.retry < MaxRetries

\* serve() is in submit() exactly while it persists.
Calling ==
    /\ serve.at = "persisting" => call[Executor].at \in {"putting", "waiting", "back"}
    /\ serve.at \in {"dropping", "yielding"} => call[Executor].at = "back"
    /\ serve.at \in {"waiting", "reaping", "flushing", "emitting", "gone"} => call[Executor] = Idle

\* Its write is suspended, or queued or being run, once, and is of the batch.
\* The other callers' writes hold no records.
Task == [op |-> serve.op, records |-> serve.batch.records]
Clean(w) ==
    {job \in Jobs : /\ job.by \in Others => job.what = OtherWrite
                    /\ job.by = Executor => job.what = w}
Ours ==
    /\ queue \in Seq(Clean(Task)) /\ putting \in Seq(Clean(Task))
    /\ writing \in Clean(Task) \cup {None}
    /\ Count(putting, Own) = Bit(call[Executor].at = "putting")
    /\ Count(queue, Own) + Bit(writing \in Own) = Bit(call[Executor].at = "waiting")

\* The rows of the batch tell how its write has ended.
Succeeded == call[Executor].at = "back" /\ call[Executor].result = "ok"
Rowed ==
    /\ serve.at = "persisting" /\ ~Succeeded => \A r \in serve.batch.records : rows[r] = 0
    /\ serve.at = "persisting" /\ Succeeded
        => \A r \in serve.batch.records : rows[r] = Bit(~(serve.op = "fallback" /\ r \in Orphans))
    /\ serve.at = "yielding" => \A r \in serve.batch.records : rows[r] = 0
    /\ serve.at = "emitting" => \A r \in serve.batch.records : rows[r] = 1

\* The places where a record can be: on the queue, in serve()'s hands, in a
\* write nobody waits for, in the table, or given up.
GotOne(r) == Bit(serve.got # None /\ r \in serve.got.records)
BatchOne(r) == Bit(serve.at \in {"persisting", "yielding"} /\ r \in serve.batch.records /\ rows[r] = 0)
InDb(r) == Count(queue, Loose(r)) + Bit(writing \in Loose(r))
LostOnes(r) == Bit(r \in lost.overflow) + Bit(r \in lost.exhausted)
                   + Bit(r \in lost.logged) + Bit(r \in lost.cancelled)
Places(r) ==
    Count(ring, With(r)) + GotOne(r) + Count(serve.todo, With(r)) + BatchOne(r)
        + InDb(r) + rows[r] + LostOnes(r)
Accounts == \A r \in Records : Places(r) = Bit(r \in ended)

ExecInv == Typed /\ Hands /\ Calling /\ Ours /\ Rowed /\ Accounts /\ CountersTell /\ AnnouncedHasRow

----------------------------------------------------------------------------
(* Counting in sequences *)

LEMMA CountType ==
  ASSUME NEW S, NEW s \in Seq(S), NEW V
  PROVE  /\ Hits(s, V) \subseteq 1..Len(s) /\ Len(s) \in Nat
         /\ IsFiniteSet(Hits(s, V)) /\ Count(s, V) \in Nat
<1>1. DOMAIN s = 1..Len(s) /\ Len(s) \in Nat
  BY LenProperties
<1>2. IsFiniteSet(1..Len(s))
  BY <1>1, FS_Interval
<1>3. Hits(s, V) \subseteq 1..Len(s)
  BY <1>1 DEF Hits
<1>4. IsFiniteSet(Hits(s, V))
  BY <1>2, <1>3, FS_Subset
<1>. QED BY <1>1, <1>3, <1>4, FS_CardinalityType DEF Count

LEMMA CountZero ==
  ASSUME NEW S, NEW s \in Seq(S), NEW V
  PROVE  Count(s, V) = 0 <=> \A i \in DOMAIN s : s[i] \notin V
<1>1. IsFiniteSet(Hits(s, V))
  BY CountType
<1>2. Count(s, V) = 0 <=> Hits(s, V) = {}
  BY <1>1, FS_EmptySet DEF Count
<1>. QED BY <1>2 DEF Hits

LEMMA CountSame ==
  ASSUME NEW s, NEW t, NEW V, NEW W, DOMAIN s = DOMAIN t,
         \A i \in DOMAIN s : s[i] \in V <=> t[i] \in W
  PROVE  Count(s, V) = Count(t, W)
<1>1. Hits(s, V) = Hits(t, W)
  BY DEF Hits
<1>. QED BY <1>1 DEF Count

\* Two disjoint sets of values.
LEMMA CountBoth ==
  ASSUME NEW S, NEW s \in Seq(S), NEW V, NEW W, V \cap W = {}
  PROVE  Count(s, V \cup W) = Count(s, V) + Count(s, W)
<1>1. /\ IsFiniteSet(Hits(s, V)) /\ Count(s, V) \in Nat
      /\ IsFiniteSet(Hits(s, W)) /\ Count(s, W) \in Nat
  BY CountType
<1>2. Hits(s, V \cup W) = Hits(s, V) \cup Hits(s, W) /\ Hits(s, V) \cap Hits(s, W) = {}
  BY DEF Hits
<1>3. Cardinality(Hits(s, V) \cap Hits(s, W)) = 0
  BY <1>2, FS_EmptySet
<1>4. Cardinality(Hits(s, V) \cup Hits(s, W))
        = Cardinality(Hits(s, V)) + Cardinality(Hits(s, W)) - Cardinality(Hits(s, V) \cap Hits(s, W))
  BY <1>1, FS_Union
<1>5. Count(s, V \cup W) = Cardinality(Hits(s, V) \cup Hits(s, W))
  BY <1>2 DEF Count
<1>6. Count(s, V) = Cardinality(Hits(s, V)) /\ Count(s, W) = Cardinality(Hits(s, W))
  BY DEF Count
<1>. QED BY <1>1, <1>3, <1>4, <1>5, <1>6

\* A shift keeps the number of positions.
LEMMA Shifted ==
  ASSUME NEW B, IsFiniteSet(B), B \subseteq Nat, NEW m \in Nat
  PROVE  LET T == {i + m : i \in B} IN IsFiniteSet(T) /\ Cardinality(T) = Cardinality(B)
<1>. DEFINE T == {i + m : i \in B}
            f == [i \in B |-> i + m]
<1>1. f \in [B -> T]
  OBVIOUS
<1>2. \A a, b \in B : f[a] = f[b] => a = b
  OBVIOUS
<1>3. \A y \in T : \E a \in B : f[a] = y
  OBVIOUS
<1>4. f \in Bijection(B, T)
  BY <1>1, <1>2, <1>3 DEF Bijection, Injection, Surjection, IsInjective
<1>5. ExistsBijection(B, T)
  BY <1>4 DEF ExistsBijection
<1>. QED BY <1>5, FS_Bijection

LEMMA CountConcat ==
  ASSUME NEW S, NEW s \in Seq(S), NEW t \in Seq(S), NEW V
  PROVE  Count(s \o t, V) = Count(s, V) + Count(t, V)
<1>. DEFINE m == Len(s)
            T == {i + m : i \in Hits(t, V)}
<1>1. /\ Hits(s, V) \subseteq 1..m /\ m \in Nat /\ IsFiniteSet(Hits(s, V)) /\ Count(s, V) \in Nat
      /\ Hits(t, V) \subseteq 1..Len(t) /\ Len(t) \in Nat /\ IsFiniteSet(Hits(t, V)) /\ Count(t, V) \in Nat
  BY CountType
<1>2. Hits(t, V) \subseteq Nat
  BY <1>1
<1>3. IsFiniteSet(T) /\ Cardinality(T) = Count(t, V)
  BY <1>1, <1>2, Shifted DEF Count
<1>4. /\ DOMAIN (s \o t) = 1..(m + Len(t)) /\ DOMAIN s = 1..m /\ DOMAIN t = 1..Len(t)
      /\ \A i \in 1..(m + Len(t)) : (s \o t)[i] = IF i <= m THEN s[i] ELSE t[i - m]
  BY ConcatProperties, LenProperties
<1>5. \A i : i \in Hits(s \o t, V) => i \in Hits(s, V) \/ i \in T
  <2>. SUFFICES ASSUME NEW i \in Hits(s \o t, V) PROVE i \in Hits(s, V) \/ i \in T
    OBVIOUS
  <2>1. i \in 1..(m + Len(t)) /\ (s \o t)[i] \in V
    BY <1>4 DEF Hits
  <2>2. CASE i <= m
    <3>1. i \in DOMAIN s /\ s[i] \in V
      BY <1>1, <1>4, <2>1, <2>2
    <3>. QED BY <3>1 DEF Hits
  <2>3. CASE ~(i <= m)
    <3>1. i - m \in DOMAIN t /\ t[i - m] \in V
      BY <1>1, <1>4, <2>1, <2>3
    <3>2. i - m \in Hits(t, V) /\ i = (i - m) + m
      BY <1>1, <2>1, <3>1 DEF Hits
    <3>. QED BY <3>2
  <2>. QED BY <2>2, <2>3
<1>6. \A i : i \in Hits(s, V) => i \in Hits(s \o t, V)
  <2>. SUFFICES ASSUME NEW i \in Hits(s, V) PROVE i \in Hits(s \o t, V)
    OBVIOUS
  <2>1. i \in 1..m /\ s[i] \in V
    BY <1>1 DEF Hits
  <2>2. i \in 1..(m + Len(t)) /\ i <= m
    BY <1>1, <2>1
  <2>3. (s \o t)[i] = s[i] /\ i \in DOMAIN (s \o t)
    BY <1>4, <2>2
  <2>. QED BY <2>1, <2>3 DEF Hits
<1>7. \A k : k \in Hits(t, V) => k + m \in Hits(s \o t, V)
  <2>. SUFFICES ASSUME NEW k \in Hits(t, V) PROVE k + m \in Hits(s \o t, V)
    OBVIOUS
  <2>1. k \in 1..Len(t) /\ t[k] \in V
    BY <1>1 DEF Hits
  <2>2. k + m \in 1..(m + Len(t)) /\ ~(k + m <= m) /\ (k + m) - m = k
    BY <1>1, <2>1
  <2>3. (s \o t)[k + m] = t[k] /\ k + m \in DOMAIN (s \o t)
    BY <1>4, <2>2
  <2>. QED BY <2>1, <2>3 DEF Hits
<1>8. Hits(s \o t, V) = Hits(s, V) \cup T
  BY <1>5, <1>6, <1>7
<1>9. \A i \in T : i \notin 1..m
  BY <1>1
<1>10. Hits(s, V) \cap T = {}
  BY <1>1, <1>9
<1>11. Cardinality(Hits(s, V) \cap T) = 0
  BY <1>10, FS_EmptySet
<1>12. Cardinality(Hits(s, V) \cup T)
         = Cardinality(Hits(s, V)) + Cardinality(T) - Cardinality(Hits(s, V) \cap T)
  BY <1>1, <1>3, FS_Union
<1>13. Cardinality(Hits(s \o t, V)) = Cardinality(Hits(s, V)) + Cardinality(T)
  <2>. HIDE DEF T
  <2>1. Cardinality(Hits(s, V)) \in Nat /\ Cardinality(T) \in Nat
    BY <1>1, <1>3 DEF Count
  <2>. QED BY <1>8, <1>11, <1>12, <2>1
<1>. QED BY <1>3, <1>13 DEF Count

LEMMA CountEmpty ==
  ASSUME NEW V
  PROVE  Count(<<>>, V) = 0
<1>1. Hits(<<>>, V) = {}
  BY DEF Hits
<1>. QED BY <1>1, FS_EmptySet DEF Count

LEMMA CountOne ==
  ASSUME NEW e, NEW V
  PROVE  Count(<<e>>, V) = Bit(e \in V)
<1>1. DOMAIN <<e>> = {1} /\ <<e>>[1] = e
  OBVIOUS
<1>2. Hits(<<e>>, V) = IF e \in V THEN {1} ELSE {}
  BY <1>1 DEF Hits
<1>. QED BY <1>2, FS_EmptySet, FS_Singleton DEF Count, Bit

LEMMA OneElement ==
  ASSUME NEW S, NEW e \in S
  PROVE  <<e>> \in Seq(S)
OBVIOUS

LEMMA CountAppend ==
  ASSUME NEW S, NEW s \in Seq(S), NEW e \in S, NEW V
  PROVE  Count(Append(s, e), V) = Count(s, V) + Bit(e \in V)
<1>1. <<e>> \in Seq(S)
  OBVIOUS
<1>2. Append(s, e) = s \o <<e>>
  BY AppendIsConcat
<1>3. Count(s \o <<e>>, V) = Count(s, V) + Count(<<e>>, V)
  BY <1>1, CountConcat
<1>. QED BY <1>2, <1>3, CountOne

LEMMA CountSplit ==
  ASSUME NEW S, NEW s \in Seq(S), NEW n \in 0..Len(s), NEW V
  PROVE  /\ SubSeq(s, 1, n) \in Seq(S) /\ SubSeq(s, n + 1, Len(s)) \in Seq(S)
         /\ Count(s, V) = Count(SubSeq(s, 1, n), V) + Count(SubSeq(s, n + 1, Len(s)), V)
<1>1. Len(s) \in Nat /\ \A i \in 1..Len(s) : s[i] \in S
  BY LenProperties, ElementOfSeq
<1>2. SubSeq(s, 1, n) \in Seq(S)
  BY <1>1, SubSeqProperties
<1>3. SubSeq(s, n + 1, Len(s)) \in Seq(S)
  <2>1. \A i \in (n + 1)..Len(s) : s[i] \in S
    BY <1>1
  <2>. QED BY <1>1, <2>1, SubSeqProperties
<1>4. SubSeq(s, 1, n) \o SubSeq(s, n + 1, Len(s)) = SubSeq(s, 1, Len(s))
  <2>1. 1 \in 1..(Len(s) + 1) /\ n \in (1 - 1)..Len(s) /\ Len(s) \in n..Len(s)
    BY <1>1
  <2>. QED BY <2>1, ConcatAdjacentSubSeq
<1>5. SubSeq(s, 1, Len(s)) = s
  BY SubSeqFull
<1>6. Count(SubSeq(s, 1, n) \o SubSeq(s, n + 1, Len(s)), V)
        = Count(SubSeq(s, 1, n), V) + Count(SubSeq(s, n + 1, Len(s)), V)
  BY <1>2, <1>3, CountConcat
<1>. QED BY <1>2, <1>3, <1>4, <1>5, <1>6

LEMMA CountHead ==
  ASSUME NEW S, NEW s \in Seq(S), s # <<>>, NEW V
  PROVE  /\ Head(s) \in S /\ Head(s) = s[1] /\ 1 \in DOMAIN s /\ Tail(s) \in Seq(S)
         /\ Len(Tail(s)) = Len(s) - 1
         /\ Count(s, V) = Bit(Head(s) \in V) + Count(Tail(s), V)
<1>1. Head(s) \in S /\ Tail(s) \in Seq(S) /\ Tail(s) = SubSeq(s, 2, Len(s)) /\ Len(Tail(s)) = Len(s) - 1
  BY HeadTailProperties, TailIsSubSeq
<1>2. Len(s) \in Nat /\ Len(s) # 0 /\ Head(s) = s[1] /\ DOMAIN s = 1..Len(s)
  BY EmptySeq, LenProperties
<1>3. SubSeq(s, 1, Len(s)) = <<s[1]>> \o SubSeq(s, 2, Len(s))
  <2>1. 1 \in 1..Len(s) /\ Len(s) \in 1..Len(s) /\ 1 + 1 = 2
    BY <1>2
  <2>. QED BY <2>1, SubSeqRecursiveFirst
<1>4. s = <<Head(s)>> \o Tail(s)
  BY <1>1, <1>2, <1>3, SubSeqFull
<1>5. <<Head(s)>> \in Seq(S)
  BY <1>1
<1>6. Count(<<Head(s)>> \o Tail(s), V) = Count(<<Head(s)>>, V) + Count(Tail(s), V)
  <2>. DEFINE h == <<Head(s)>>   t == Tail(s)
  <2>1. h \in Seq(S) /\ t \in Seq(S)
    BY <1>1, <1>5
  <2>. HIDE DEF h, t
  <2>2. Count(h \o t, V) = Count(h, V) + Count(t, V)
    BY ONLY <2>1, CountConcat
  <2>. QED BY ONLY <2>2 DEF h, t
<1>7. 1 \in DOMAIN s
  BY <1>2
<1>. QED BY <1>1, <1>2, <1>4, <1>6, <1>7, CountOne

LEMMA CountRemove ==
  ASSUME NEW S, NEW s \in Seq(S), NEW i \in DOMAIN s, NEW V
  PROVE  /\ RemoveAt(s, i) \in Seq(S)
         /\ Count(s, V) = Count(RemoveAt(s, i), V) + Bit(s[i] \in V)
<1>1. DOMAIN s = 1..Len(s) /\ Len(s) \in Nat /\ i \in 1..Len(s) /\ s[i] \in S
  BY LenProperties, ElementOfSeq
<1>2. i - 1 \in 0..Len(s) /\ (i - 1) + 1 = i /\ i \in 0..Len(s) /\ Len(s) \in i..Len(s)
  BY <1>1
<1>3. /\ SubSeq(s, 1, i - 1) \in Seq(S)
      /\ Count(s, V) = Count(SubSeq(s, 1, i - 1), V) + Count(SubSeq(s, i, Len(s)), V)
  <2>. DEFINE n == i - 1
  <2>1. n \in 0..Len(s) /\ n + 1 = i
    BY <1>2
  <2>. HIDE DEF n
  <2>2. /\ SubSeq(s, 1, n) \in Seq(S)
        /\ Count(s, V) = Count(SubSeq(s, 1, n), V) + Count(SubSeq(s, n + 1, Len(s)), V)
    BY <2>1, CountSplit
  <2>. QED BY <2>1, <2>2 DEF n
<1>4. SubSeq(s, i + 1, Len(s)) \in Seq(S)
  BY <1>2, CountSplit
<1>5. SubSeq(s, i, Len(s)) = <<s[i]>> \o SubSeq(s, i + 1, Len(s))
  BY <1>1, <1>2, SubSeqRecursiveFirst
<1>6. <<s[i]>> \in Seq(S)
  BY <1>1
<1>7. Count(SubSeq(s, i, Len(s)), V) = Bit(s[i] \in V) + Count(SubSeq(s, i + 1, Len(s)), V)
  <2>1. Count(<<s[i]>> \o SubSeq(s, i + 1, Len(s)), V)
          = Count(<<s[i]>>, V) + Count(SubSeq(s, i + 1, Len(s)), V)
    BY <1>4, <1>6, CountConcat
  <2>. QED BY <1>5, <2>1, CountOne
<1>8. /\ RemoveAt(s, i) = SubSeq(s, 1, i - 1) \o SubSeq(s, i + 1, Len(s))
      /\ RemoveAt(s, i) \in Seq(S)
  BY <1>3, <1>4, ConcatProperties DEF RemoveAt
<1>9. Count(RemoveAt(s, i), V) = Count(SubSeq(s, 1, i - 1), V) + Count(SubSeq(s, i + 1, Len(s)), V)
  <2>. DEFINE h == SubSeq(s, 1, i - 1)   t == SubSeq(s, i + 1, Len(s))
  <2>1. h \in Seq(S) /\ t \in Seq(S) /\ RemoveAt(s, i) = h \o t
    BY <1>3, <1>4, <1>8
  <2>. HIDE DEF h, t
  <2>2. Count(h \o t, V) = Count(h, V) + Count(t, V)
    BY ONLY <2>1, CountConcat
  <2>3. Count(RemoveAt(s, i), V) = Count(h, V) + Count(t, V)
    BY ONLY <2>1, <2>2
  <2>. QED BY ONLY <2>3 DEF h, t
<1>10. /\ Count(SubSeq(s, 1, i - 1), V) \in Nat /\ Count(SubSeq(s, i + 1, Len(s)), V) \in Nat
       /\ Bit(s[i] \in V) \in Nat
  BY <1>3, <1>4, CountType DEF Bit
<1>. DEFINE c == Count(s, V)   a == Count(SubSeq(s, 1, i - 1), V)   b == Count(SubSeq(s, i, Len(s)), V)
            d == Count(SubSeq(s, i + 1, Len(s)), V)   e == Bit(s[i] \in V)   f == Count(RemoveAt(s, i), V)
<1>11. c = a + b /\ b = e + d /\ f = a + d /\ a \in Nat /\ d \in Nat /\ e \in Nat
  BY <1>3, <1>7, <1>9, <1>10
<1>12. c = f + e
  <2>. HIDE DEF a, b, c, d, e, f
  <2>. QED BY <1>11
<1>. QED BY <1>8, <1>12

----------------------------------------------------------------------------
(* Selections *)

LEMMA Smallest ==
  ASSUME NEW S, S \subseteq Nat, S # {}
  PROVE  \E i \in S : \A j \in S : i <= j
<1>1. IsWellFoundedOn(OpToRel(<, Nat), Nat)
  BY NatLessThanWellFounded
<1>2. PICK m \in S : \A k \in S : <<k, m>> \notin OpToRel(<, Nat)
  BY <1>1, WFMin
<1>3. \A k \in S : k \in Nat /\ m \in Nat
  OBVIOUS
<1>4. \A k \in S : k < m => <<k, m>> \in OpToRel(<, Nat)
  BY <1>3 DEF OpToRel
<1>5. \A k \in S : ~(k < m)
  BY <1>2, <1>4
<1>. QED BY <1>3, <1>5

Ascending(f, n) == \A j, k \in 1..n : j < k => f[j] < f[k]
Ordered(I) == \E f \in [1..Cardinality(I) -> I] : Ascending(f, Cardinality(I))

\* The elements of a set of positions can be listed in ascending order.
LEMMA HasOrder ==
  ASSUME NEW N \in Nat, NEW I \in SUBSET (1..N)
  PROVE  Ordered(I)
<1>. DEFINE Bad == {n \in Nat : \E J \in SUBSET (1..n) : ~Ordered(J)}
<1>1. SUFFICES Bad = {}
  OBVIOUS
<1>2. SUFFICES ASSUME Bad # {} PROVE FALSE
  OBVIOUS
<1>3. PICK n \in Bad : \A m \in Bad : n <= m
  <2>1. Bad \subseteq Nat
    OBVIOUS
  <2>. QED BY <1>2, <2>1, Smallest
<1>4. n \in Nat
  OBVIOUS
<1>5. PICK J \in SUBSET (1..n) : ~Ordered(J)
  OBVIOUS
<1>6. \A m \in Nat : m < n => m \notin Bad
  BY <1>3, <1>4
<1>7. n # 0
  <2>. SUFFICES ASSUME n = 0 PROVE FALSE
    OBVIOUS
  <2>1. J = {} /\ Cardinality(J) = 0
    <3>1. J = {}
      OBVIOUS
    <3>. QED BY <3>1, FS_EmptySet
  <2>. DEFINE f == [k \in 1..0 |-> 0]
  <2>2. f \in [1..0 -> J]
    BY <2>1
  <2>3. Ascending(f, 0)
    BY DEF Ascending
  <2>. HIDE DEF f
  <2>. QED BY <1>5, <2>1, <2>2, <2>3 DEF Ordered
<1>8. n - 1 \in Nat /\ n - 1 < n
  BY <1>4, <1>7
<1>9. \A K \in SUBSET (1..(n - 1)) : Ordered(K)
  BY <1>6, <1>8
<1>10. n \in J
  <2>. SUFFICES ASSUME n \notin J PROVE FALSE
    OBVIOUS
  <2>1. J \in SUBSET (1..(n - 1))
    BY <1>4, <1>7 DEF Called
  <2>. QED BY <1>5, <1>9, <2>1
<1>. DEFINE K == J \ {n}
<1>11. K \in SUBSET (1..(n - 1)) /\ n \notin K /\ K \cup {n} = J
  BY <1>4, <1>7, <1>10
<1>12. IsFiniteSet(K) /\ Cardinality(K) \in Nat /\ Cardinality(J) = Cardinality(K) + 1
  <2>1. IsFiniteSet(1..(n - 1))
    BY <1>8, FS_Interval
  <2>2. IsFiniteSet(K)
    BY <1>11, <2>1, FS_Subset
  <2>. HIDE DEF K
  <2>3. Cardinality(K \cup {n}) = Cardinality(K) + 1
    BY <1>11, <2>2, FS_AddElement
  <2>. QED BY <1>11, <2>2, <2>3, FS_CardinalityType
<1>13. PICK g \in [1..Cardinality(K) -> K] : Ascending(g, Cardinality(K))
  BY <1>9, <1>11 DEF Ordered
<1>. DEFINE c == Cardinality(K)
            f == [k \in 1..(c + 1) |-> IF k = c + 1 THEN n ELSE g[k]]
<1>14. f \in [1..(c + 1) -> J]
  <2>1. \A k \in 1..(c + 1) : k # c + 1 => k \in 1..c
    BY <1>12
  <2>2. \A k \in 1..(c + 1) : (IF k = c + 1 THEN n ELSE g[k]) \in J
    BY <1>10, <1>11, <1>13, <2>1
  <2>. QED BY <2>2
<1>15. Ascending(f, c + 1)
  <2>. SUFFICES ASSUME NEW j \in 1..(c + 1), NEW k \in 1..(c + 1), j < k
                PROVE  f[j] < f[k]
    BY DEF Ascending
  <2>1. j \in 1..c /\ c \in Nat /\ (k = c + 1 \/ k \in 1..c)
    BY <1>12
  <2>2. f[j] = g[j] /\ g[j] \in K
    <3>1. j # c + 1
      BY <2>1
    <3>2. g[j] \in K
      <4>. HIDE DEF K
      <4>. QED BY <1>13, <2>1
    <3>. HIDE DEF c, K
    <3>. QED BY <3>1, <3>2
  <2>3. g[j] < n
    <3>1. g[j] \in 1..(n - 1)
      BY <1>11, <2>2
    <3>. HIDE DEF K
    <3>. QED BY <1>4, <3>1
  <2>4. CASE k = c + 1
    BY <2>2, <2>3, <2>4
  <2>5. CASE k \in 1..c
    <3>1. f[k] = g[k]
      BY <2>1, <2>5
    <3>. QED BY <1>13, <2>1, <2>2, <2>5, <3>1 DEF Ascending
  <2>. QED BY <2>1, <2>4, <2>5
<1>. HIDE DEF f, c, K
<1>16. Ordered(J)
  BY <1>12, <1>14, <1>15 DEF Ordered, c
<1>. QED BY <1>5, <1>16

\* An ascending list of all the elements of a set has each once.
LEMMA OrderIsBijection ==
  ASSUME NEW N \in Nat, NEW I \in SUBSET (1..N),
         NEW f \in [1..Cardinality(I) -> I], Ascending(f, Cardinality(I))
  PROVE  f \in Bijection(1..Cardinality(I), I) /\ Cardinality(I) \in Nat
<1>. DEFINE c == Cardinality(I)
<1>1. IsFiniteSet(I) /\ c \in Nat
  <2>1. IsFiniteSet(1..N)
    BY FS_Interval
  <2>2. IsFiniteSet(I)
    BY <2>1, FS_Subset
  <2>. QED BY <2>2, FS_CardinalityType
<1>2. IsFiniteSet(1..c) /\ Cardinality(1..c) = c
  BY <1>1, FS_Interval
<1>3. \A j, k \in 1..c : f[j] = f[k] => j = k
  <2>. SUFFICES ASSUME NEW j \in 1..c, NEW k \in 1..c, f[j] = f[k], j # k
                PROVE  FALSE
    OBVIOUS
  <2>1. f[j] \in I /\ f[k] \in I
    OBVIOUS
  <2>2. f[j] \in Nat /\ f[k] \in Nat
    <3>1. \A i \in I : i \in Nat
      OBVIOUS
    <3>. QED BY <2>1, <3>1
  <2>3. j < k \/ k < j
    BY <1>1
  <2>. HIDE DEF c
  <2>4. f[j] < f[k] \/ f[k] < f[j]
    BY <2>3 DEF Ascending, c
  <2>. QED BY <2>2, <2>4
<1>4. f \in Injection(1..c, I)
  BY <1>3 DEF Injection, IsInjective
<1>5. f \in Surjection(1..c, I)
  <2>. HIDE DEF c
  <2>1. Cardinality(1..c) = Cardinality(I)
    BY <1>2 DEF c
  <2>. QED BY <1>1, <1>4, <2>1, FS_Injection
<1>. QED BY <1>1, <1>4, <1>5 DEF Bijection

\* The retries among the items are listed once each.
Again == {item \in ItemType : IsRetry(item)}
LEMMA RetriesList ==
  ASSUME NEW items \in Seq(ItemType), NEW V
  PROVE  /\ Retries(items) \in Seq(ItemType)
         /\ \A k \in DOMAIN Retries(items) : \E i \in DOMAIN items : Retries(items)[k] = items[i]
         /\ Count(Retries(items), V) = Count(items, V \cap Again)
<1>. DEFINE I == {i \in DOMAIN items : IsRetry(items[i])}
            c == Cardinality(I)
            order == CHOOSE f \in [1..c -> I] : \A j, k \in DOMAIN f : j < k => f[j] < f[k]
            out == [k \in DOMAIN order |-> items[order[k]]]
<1>1. DOMAIN items = 1..Len(items) /\ Len(items) \in Nat /\ \A i \in DOMAIN items : items[i] \in ItemType
  BY LenProperties, ElementOfSeq
<1>2. I \in SUBSET (1..Len(items))
  BY <1>1
<1>3. \E f \in [1..c -> I] : \A j, k \in DOMAIN f : j < k => f[j] < f[k]
  <2>1. PICK f \in [1..c -> I] : Ascending(f, c)
    <3>. HIDE DEF I
    <3>. QED BY <1>1, <1>2, HasOrder DEF Ordered
  <2>2. DOMAIN f = 1..c
    OBVIOUS
  <2>. QED BY <2>1, <2>2 DEF Ascending
<1>4. order \in [1..c -> I] /\ DOMAIN order = 1..c /\ Ascending(order, c)
  <2>1. order \in [1..c -> I] /\ \A j, k \in DOMAIN order : j < k => order[j] < order[k]
    <3>. HIDE DEF I, c
    <3>. QED BY <1>3
  <2>. HIDE DEF order, I, c
  <2>2. DOMAIN order = 1..c
    BY <2>1
  <2>. QED BY <2>1, <2>2 DEF Ascending
<1>5. order \in Bijection(1..c, I) /\ c \in Nat
  <2>. HIDE DEF order, I
  <2>. QED BY <1>1, <1>2, <1>4, OrderIsBijection
<1>6. \A k \in 1..c : order[k] \in DOMAIN items /\ IsRetry(items[order[k]])
  <2>1. \A k \in 1..c : order[k] \in I
    <3>. HIDE DEF order, I, c
    <3>. QED BY <1>4
  <2>. HIDE DEF order, c
  <2>. QED BY <2>1
<1>7. Retries(items) = out
  BY DEF Retries
<1>8. out = [k \in 1..c |-> items[order[k]]]
  BY <1>4
<1>. HIDE DEF order, out
<1>9. out \in Seq(ItemType) /\ DOMAIN out = 1..c
  <2>1. \A k \in 1..c : items[order[k]] \in ItemType
    BY <1>1, <1>6
  <2>. HIDE DEF c
  <2>. QED BY <1>5, <1>8, <2>1
<1>10. Count(out, V) = Count(items, V \cap Again)
  <2>. DEFINE A == Hits(out, V)   B == Hits(items, V \cap Again)
              g == [k \in A |-> order[k]]
  <2>1. A \subseteq 1..c /\ B \subseteq I /\ \A k \in A : order[k] \in B
    <3>1. A \subseteq 1..c
      BY <1>9 DEF Hits
    <3>2. B \subseteq I
      BY DEF Hits, Again
    <3>3. \A k \in A : items[order[k]] \in V
      BY <1>8, <3>1 DEF Hits
    <3>4. \A k \in A : order[k] \in DOMAIN items /\ items[order[k]] \in Again
      BY <1>1, <1>6, <3>1 DEF Again
    <3>. QED BY <3>1, <3>2, <3>3, <3>4 DEF Hits
  <2>2. g \in [A -> B]
    BY <2>1
  <2>3. \A j, k \in A : g[j] = g[k] => j = k
    <3>1. \A j, k \in 1..c : order[j] = order[k] => j = k
      BY <1>4, <1>5 DEF Bijection, Injection, IsInjective
    <3>. QED BY <2>1, <3>1
  <2>4. \A b \in B : \E k \in A : g[k] = b
    <3>. SUFFICES ASSUME NEW b \in B PROVE \E k \in A : g[k] = b
      OBVIOUS
    <3>1. b \in I /\ items[b] \in V
      BY <2>1 DEF Hits
    <3>2. PICK k \in 1..c : order[k] = b
      BY <1>5, <3>1 DEF Bijection, Surjection
    <3>3. out[k] \in V /\ k \in DOMAIN out
      BY <1>8, <1>9, <3>1, <3>2
    <3>. QED BY <3>2, <3>3 DEF Hits
  <2>5. g \in Bijection(A, B)
    BY <2>2, <2>3, <2>4 DEF Bijection, Injection, Surjection, IsInjective
  <2>6. IsFiniteSet(A)
    BY <1>9, CountType
  <2>7. Cardinality(A) = Cardinality(B)
    <3>. HIDE DEF A, B, g
    <3>1. ExistsBijection(A, B)
      BY <2>5 DEF ExistsBijection
    <3>. QED BY <2>6, <3>1, FS_Bijection
  <2>. QED BY <2>7 DEF Count
<1>11. \A k \in DOMAIN out : \E i \in DOMAIN items : out[k] = items[i]
  BY <1>6, <1>8, <1>9
<1>. QED BY <1>7, <1>9, <1>10, <1>11

\* What goes back to the queue is a beginning of what was drained.
LEMMA DeferredPrefix ==
  ASSUME NEW todo \in Seq(ItemType)
  PROVE  \E k \in 0..Len(todo) : Deferred(todo) = SubSeq(todo, 1, k)
<1>1. DOMAIN todo = 1..Len(todo) /\ Len(todo) \in Nat
  BY LenProperties
<1>2. CASE \E i \in DOMAIN todo : todo[i].due
  <2>. DEFINE I == {i \in 1..Len(todo) : todo[i].due}
  <2>1. I # {} /\ I \subseteq Nat
    BY <1>1, <1>2
  <2>2. \E m \in I : \A j \in I : m <= j
    <3>. HIDE DEF I
    <3>. QED BY <2>1, Smallest
  <2>3. Min(I) \in I
    <3>. HIDE DEF I
    <3>. QED BY <2>2 DEF Min
  <2>4. SelectInSeq(todo, IsDue) = Min(I)
    <3>1. SelectInSeq(todo, IsDue) = IF I # {} THEN Min(I) ELSE 0
      BY DEF SelectInSeq, IsDue
    <3>. HIDE DEF I
    <3>. QED BY <2>1, <3>1
  <2>5. Deferred(todo) = SubSeq(todo, 1, Min(I) - 1)
    BY <1>2, <2>4 DEF Deferred
  <2>6. Min(I) \in 1..Len(todo)
    BY <2>3
  <2>7. Min(I) - 1 \in 0..Len(todo)
    <3>. HIDE DEF I
    <3>. QED BY <1>1, <2>6
  <2>. HIDE DEF I
  <2>. QED BY <2>5, <2>7
<1>3. CASE ~ \E i \in DOMAIN todo : todo[i].due
  <2>1. Deferred(todo) = todo
    BY <1>3 DEF Deferred
  <2>2. SubSeq(todo, 1, Len(todo)) = todo /\ Len(todo) \in 0..Len(todo)
    BY <1>1, SubSeqFull
  <2>. QED BY <2>1, <2>2
<1>. QED BY <1>2, <1>3

LEMMA AllRecordsCount ==
  ASSUME NEW s \in Seq(ItemType)
  PROVE  /\ AllRecords(s) \subseteq Records
         /\ \A r : r \in AllRecords(s) <=> Count(s, With(r)) # 0
<1>1. \A i \in DOMAIN s : s[i] \in ItemType /\ s[i].records \subseteq Records
  <2>1. \A i \in DOMAIN s : s[i] \in ItemType
    BY LenProperties, ElementOfSeq
  <2>. QED BY <2>1 DEF ItemType
<1>2. \A r : r \in AllRecords(s) <=> \E i \in DOMAIN s : r \in s[i].records
  BY DEF AllRecords
<1>3. \A r : Count(s, With(r)) = 0 <=> \A i \in DOMAIN s : s[i] \notin With(r)
  BY CountZero
<1>. QED BY <1>1, <1>2, <1>3 DEF With

LEMMA MinOfTwo ==
  ASSUME NEW a \in Int, NEW b \in Int
  PROVE  Min({a, b}) \in {a, b} /\ Min({a, b}) <= a /\ Min({a, b}) <= b
<1>1. \E x \in {a, b} : \A y \in {a, b} : x <= y
  <2>1. CASE a <= b
    BY <2>1
  <2>2. CASE b <= a
    BY <2>2
  <2>. QED BY <2>1, <2>2
<1>2. Min({a, b}) \in {a, b} /\ \A y \in {a, b} : Min({a, b}) <= y
  BY <1>1 DEF Min
<1>. QED BY <1>2

----------------------------------------------------------------------------
(* Constants and numbers *)

LEMMA Constants ==
  /\ Executor \in Callers /\ Executor \notin Others /\ Others \subseteq Callers
  /\ None \notin Callers /\ None \notin Jobs /\ None \notin ItemType /\ None \notin Writes
  /\ IsFiniteSet(Records) /\ Orphans \subseteq Records
  /\ TelemetryQueueMax \in Nat /\ TelemetryQueueMax > 0 /\ DrainCap \in Nat /\ DrainCap > 0
  /\ MaxRetries \in Nat /\ MaxFaults \in Nat /\ WriteQueueMax \in Nat
  /\ OtherWrite \in Writes /\ OtherWrite.records = {}
  /\ \A w \in Writes : w.op \in {"batch", "fallback", "other"} /\ w.records \subseteq Records
  /\ \A S \in SUBSET Records : /\ [op |-> "batch", records |-> S] \in Writes
                               /\ [op |-> "fallback", records |-> S] \in Writes
  /\ \A S \in SUBSET Records, due \in BOOLEAN : Item(S, 0, due) \in ItemType
BY ExecutorAssumption, DatabaseAssumption DEF Others, OtherWrite, ItemType, Item

LEMMA BitIs == \A b \in BOOLEAN : Bit(b) \in {0, 1} /\ (Bit(b) = 1 <=> b) /\ (Bit(b) = 0 <=> ~b)
BY DEF Bit

LEMMA Reseq ==
  ASSUME NEW S, NEW T, NEW s \in Seq(S), \A i \in DOMAIN s : s[i] \in T
  PROVE  s \in Seq(T)
<1>1. DOMAIN s = 1..Len(s) /\ Len(s) \in Nat /\ s \in [1..Len(s) -> S]
  BY LenProperties
<1>2. s = [i \in 1..Len(s) |-> s[i]]
  BY <1>1
<1>3. \A i \in 1..Len(s) : s[i] \in T
  BY <1>1
<1>. DEFINE n == Len(s)
<1>4. n \in Nat /\ s = [i \in 1..n |-> s[i]] /\ \A i \in 1..n : s[i] \in T
  BY <1>1, <1>2, <1>3
<1>5. s \in [1..n -> T]
  BY <1>4
<1>. HIDE DEF n
<1>. QED BY <1>4, <1>5

LEMMA Elements ==
  ASSUME NEW S, NEW s \in Seq(S)
  PROVE  /\ DOMAIN s = 1..Len(s) /\ Len(s) \in Nat
         /\ \A i \in DOMAIN s : s[i] \in S
BY LenProperties, ElementOfSeq

LEMMA WiderSeq ==
  ASSUME NEW S, NEW T, S \subseteq T, NEW s \in Seq(S)
  PROVE  s \in Seq(T)
BY SeqMonotonic

\* Without a write of serve()'s a sequence of writes suits any batch.
LEMMA Reclean ==
  ASSUME NEW w, NEW v, NEW s \in Seq(Clean(w)), Count(s, Own) = 0
  PROVE  s \in Seq(Clean(v))
<1>1. \A i \in DOMAIN s : s[i] \in Clean(w) /\ s[i] \notin Own
  BY Elements, CountZero
<1>2. \A i \in DOMAIN s : s[i] \in Clean(v)
  BY <1>1 DEF Clean, Own
<1>. QED BY <1>2, Reseq

LEMMA CleanJobs ==
  ASSUME NEW w, NEW job \in Clean(w), NEW r
  PROVE  /\ job \in Jobs /\ job.by \in Callers \cup {None} /\ job.what \in Writes /\ job # None
         /\ job \in Own <=> job.by = Executor
         /\ job \in Loose(r) <=> job.by = None /\ r \in job.what.records
         /\ r \in job.what.records => job \in Loose(r) \/ job \in Own
         /\ job \in Own => job.what = w /\ job \notin Loose(r)
<1>1. job \in Jobs /\ job.by \in Callers \cup {None} /\ job.what \in Writes /\ job # None
  BY Constants DEF Clean, Jobs
<1>2. job \in Own <=> job.by = Executor
  BY <1>1 DEF Own
<1>3. job \in Loose(r) <=> job.by = None /\ r \in job.what.records
  BY <1>1 DEF Loose
<1>4. job.by \in Others => job.what = OtherWrite
  BY DEF Clean
<1>5. r \in job.what.records => job.by \notin Others
  BY <1>4, Constants
<1>6. job.by \notin Others => job.by = Executor \/ job.by = None
  BY <1>1 DEF Others
<1>7. job.by = Executor => job.what = w /\ job.by # None
  BY Constants DEF Clean
<1>. QED BY <1>1, <1>2, <1>3, <1>5, <1>6, <1>7

\* What is known of the places of a record.
LEMMA Numbers ==
  ASSUME Typed, Ours, NEW r \in Records
  PROVE  /\ Count(ring, With(r)) \in Nat /\ GotOne(r) \in {0, 1} /\ Count(serve.todo, With(r)) \in Nat
         /\ BatchOne(r) \in {0, 1} /\ Count(queue, Loose(r)) \in Nat /\ Bit(writing \in Loose(r)) \in {0, 1}
         /\ InDb(r) \in Nat /\ rows[r] \in Nat /\ LostOnes(r) \in Nat /\ Bit(r \in ended) \in {0, 1}
         /\ Count(queue, Own) \in Nat /\ Count(putting, Own) \in Nat /\ Bit(writing \in Own) \in {0, 1}
<1>1. Count(ring, With(r)) \in Nat /\ Count(serve.todo, With(r)) \in Nat
  BY CountType DEF Typed, ServeType
<1>2. Count(queue, Loose(r)) \in Nat /\ Count(queue, Own) \in Nat /\ Count(putting, Own) \in Nat
  BY CountType DEF Ours
<1>3. rows[r] \in Nat
  BY DEF Typed
<1>4. GotOne(r) \in {0, 1} /\ BatchOne(r) \in {0, 1} /\ Bit(writing \in Loose(r)) \in {0, 1}
      /\ Bit(r \in ended) \in {0, 1} /\ Bit(writing \in Own) \in {0, 1}
  BY DEF GotOne, BatchOne, Bit
<1>5. LostOnes(r) \in Nat
  BY DEF LostOnes, Bit
<1>6. InDb(r) \in Nat
  BY <1>2, <1>4 DEF InDb
<1>. QED BY <1>1, <1>2, <1>3, <1>4, <1>5, <1>6

\* When serve() is not in submit() no write of its own is there.
LEMMA NoneOwn ==
  ASSUME Typed, Ours, call[Executor].at \in {"idle", "back"}
  PROVE  Count(queue, Own) = 0 /\ Count(putting, Own) = 0 /\ writing \notin Own
<1>1. Count(queue, Own) \in Nat /\ Count(putting, Own) \in Nat /\ Bit(writing \in Own) \in {0, 1}
  BY CountType DEF Ours, Bit
<1>2. Bit(call[Executor].at = "putting") = 0 /\ Bit(call[Executor].at = "waiting") = 0
  BY DEF Bit
<1>3. Count(queue, Own) + Bit(writing \in Own) = 0 /\ Count(putting, Own) = 0
  BY <1>2 DEF Ours
<1>4. Count(queue, Own) = 0 /\ Bit(writing \in Own) = 0
  BY <1>1, <1>3
<1>. QED BY <1>3, <1>4 DEF Bit

\* A submit() of serve()'s puts one write of its own into the database's hands,
\* or none if it is refused.
LEMMA SubmitOurs ==
  ASSUME DbTypeOK, Typed, Ours, call[Executor].at \in {"idle", "back"},
         NEW w \in Writes, Submit(Executor, w), UNCHANGED writing
  PROVE  /\ queue' \in Seq(Clean(w)) /\ putting' \in Seq(Clean(w)) /\ writing' \in Clean(w) \cup {None}
         /\ Count(putting', Own) = Bit(call'[Executor].at = "putting")
         /\ Count(queue', Own) + Bit(writing' \in Own) = Bit(call'[Executor].at = "waiting")
         /\ \A r : Count(queue', Loose(r)) = Count(queue, Loose(r))
         /\ call'[Executor].at \in {"putting", "waiting", "back"}
         /\ ~Succeeded'
<1>. DEFINE job == [by |-> Executor, what |-> w]
<1>1. Count(queue, Own) = 0 /\ Count(putting, Own) = 0 /\ writing \notin Own
  BY NoneOwn
<1>2. queue \in Seq(Clean(w)) /\ putting \in Seq(Clean(w)) /\ writing \in Clean(w) \cup {None}
  <2>1. queue \in Seq(Clean(Task)) /\ putting \in Seq(Clean(Task)) /\ writing \in Clean(Task) \cup {None}
    BY DEF Ours
  <2>2. queue \in Seq(Clean(w)) /\ putting \in Seq(Clean(w))
    BY <1>1, <2>1, Reclean
  <2>3. writing \in Clean(w) \cup {None}
    BY <1>1, <2>1 DEF Clean, Own
  <2>. QED BY <2>2, <2>3
<1>3. job \in Clean(w) /\ job \in Own /\ \A r : job \notin Loose(r)
  BY Constants DEF Clean, Own, Loose, Jobs
<1>4. DOMAIN call = Callers /\ Executor \in Callers
  BY Constants DEF DbTypeOK
<1>5. CASE ~accepting /\ call' = Called(Executor, "back", "refused") /\ UNCHANGED <<queue, putting>>
  <2>1. call'[Executor].at = "back" /\ call'[Executor].result = "refused"
    BY <1>4, <1>5 DEF Called
  <2>2. Bit(call'[Executor].at = "putting") = 0 /\ Bit(call'[Executor].at = "waiting") = 0
        /\ Bit(writing' \in Own) = 0
    BY <1>1, <2>1 DEF Bit
  <2>. QED BY <1>1, <1>2, <1>5, <2>1, <2>2 DEF Succeeded
<1>6. CASE /\ queue' = Append(queue, job)
           /\ call' = Called(Executor, "waiting", None)
           /\ UNCHANGED putting
  <2>1. call'[Executor].at = "waiting"
    BY <1>4, <1>6 DEF Called
  <2>2. Count(queue', Own) = 1 /\ \A r : Count(queue', Loose(r)) = Count(queue, Loose(r))
    <3>1. Count(queue', Own) = Count(queue, Own) + Bit(job \in Own)
      BY <1>2, <1>3, <1>6, CountAppend
    <3>2. \A r : Count(queue', Loose(r)) = Count(queue, Loose(r)) + Bit(job \in Loose(r))
      BY <1>2, <1>3, <1>6, CountAppend
    <3>3. Bit(job \in Own) = 1 /\ \A r : Bit(job \in Loose(r)) = 0
      BY <1>3 DEF Bit
    <3>4. \A r : Count(queue, Loose(r)) \in Nat
      BY <1>2, CountType
    <3>. HIDE DEF job
    <3>. QED BY <1>1, <3>1, <3>2, <3>3, <3>4
  <2>3. queue' \in Seq(Clean(w))
    BY <1>2, <1>3, <1>6, AppendProperties
  <2>4. Bit(call'[Executor].at = "putting") = 0 /\ Bit(call'[Executor].at = "waiting") = 1
        /\ Bit(writing' \in Own) = 0
    BY <1>1, <2>1 DEF Bit
  <2>. QED BY <1>1, <1>2, <1>6, <2>1, <2>2, <2>3, <2>4 DEF Succeeded
<1>7. CASE /\ putting' = Append(putting, job)
           /\ call' = Called(Executor, "putting", None)
           /\ UNCHANGED queue
  <2>1. call'[Executor].at = "putting"
    BY <1>4, <1>7 DEF Called
  <2>2. Count(putting', Own) = 1
    <3>1. Count(putting', Own) = Count(putting, Own) + Bit(job \in Own)
      BY <1>2, <1>3, <1>7, CountAppend
    <3>2. Bit(job \in Own) = 1
      BY <1>3 DEF Bit
    <3>. HIDE DEF job
    <3>. QED BY <1>1, <3>1, <3>2
  <2>3. putting' \in Seq(Clean(w))
    BY <1>2, <1>3, <1>7, AppendProperties
  <2>4. Bit(call'[Executor].at = "putting") = 1 /\ Bit(call'[Executor].at = "waiting") = 0
        /\ Bit(writing' \in Own) = 0
    BY <1>1, <2>1 DEF Bit
  <2>. QED BY <1>1, <1>2, <1>7, <2>1, <2>2, <2>3, <2>4 DEF Succeeded
<1>. QED BY <1>5, <1>6, <1>7 DEF Submit

----------------------------------------------------------------------------
(* Records given up *)

LostType == [overflow : SUBSET Records, exhausted : SUBSET Records,
             logged : SUBSET Records, cancelled : SUBSET Records]

LEMMA LostMore ==
  ASSUME lost \in LostType, NEW how \in Reasons, NEW S \in SUBSET Records, lost' = Lost(how, S),
         \A r \in S : LostOnes(r) = 0
  PROVE  /\ lost' \in LostType
         /\ \A r \in Records : LostOnes(r)' = LostOnes(r) + Bit(r \in S)
         /\ S \cap lost[how] = {}
<1>1. how \in {"overflow", "exhausted", "logged", "cancelled"}
  BY DEF Reasons
<1>2. /\ lost' \in LostType
      /\ lost'.overflow = IF how = "overflow" THEN lost.overflow \cup S ELSE lost.overflow
      /\ lost'.exhausted = IF how = "exhausted" THEN lost.exhausted \cup S ELSE lost.exhausted
      /\ lost'.logged = IF how = "logged" THEN lost.logged \cup S ELSE lost.logged
      /\ lost'.cancelled = IF how = "cancelled" THEN lost.cancelled \cup S ELSE lost.cancelled
  BY <1>1 DEF Lost, LostType
<1>3. \A r \in S : r \notin lost.overflow /\ r \notin lost.exhausted /\ r \notin lost.logged /\ r \notin lost.cancelled
  <2>. SUFFICES ASSUME NEW r \in S
                PROVE  r \notin lost.overflow /\ r \notin lost.exhausted /\ r \notin lost.logged /\ r \notin lost.cancelled
    OBVIOUS
  <2>1. Bit(r \in lost.overflow) + Bit(r \in lost.exhausted) + Bit(r \in lost.logged) + Bit(r \in lost.cancelled) = 0
    BY DEF LostOnes
  <2>2. /\ Bit(r \in lost.overflow) = 0 /\ Bit(r \in lost.exhausted) = 0
        /\ Bit(r \in lost.logged) = 0 /\ Bit(r \in lost.cancelled) = 0
    BY <2>1 DEF Bit
  <2>. QED BY <2>2 DEF Bit
<1>4. ASSUME NEW r \in Records PROVE LostOnes(r)' = LostOnes(r) + Bit(r \in S)
  <2>1. LostOnes(r)' = Bit(r \in lost'.overflow) + Bit(r \in lost'.exhausted)
                         + Bit(r \in lost'.logged) + Bit(r \in lost'.cancelled)
    BY DEF LostOnes
  <2>2. CASE r \notin S
    <3>1. /\ r \in lost'.overflow <=> r \in lost.overflow
          /\ r \in lost'.exhausted <=> r \in lost.exhausted
          /\ r \in lost'.logged <=> r \in lost.logged
          /\ r \in lost'.cancelled <=> r \in lost.cancelled
      BY <1>2, <2>2
    <3>. QED BY <2>1, <2>2, <3>1 DEF LostOnes, Bit
  <2>3. CASE r \in S
    <3>1. /\ r \in lost'.overflow <=> how = "overflow"
          /\ r \in lost'.exhausted <=> how = "exhausted"
          /\ r \in lost'.logged <=> how = "logged"
          /\ r \in lost'.cancelled <=> how = "cancelled"
      BY <1>2, <1>3, <2>3
    <3>2. LostOnes(r) = 0
      BY <2>3
    <3>3. LostOnes(r)' = 1
      BY <1>1, <2>1, <3>1 DEF Bit
    <3>. QED BY <2>3, <3>2, <3>3 DEF Bit
  <2>. QED BY <2>2, <2>3
<1>5. S \cap lost[how] = {}
  BY <1>1, <1>3
<1>. QED BY <1>2, <1>4, <1>5

LEMMA LostFinite ==
  ASSUME lost \in LostType
  PROVE  /\ IsFiniteSet(lost.overflow) /\ IsFiniteSet(lost.exhausted)
         /\ Cardinality(lost.overflow) \in Nat /\ Cardinality(lost.exhausted) \in Nat
<1>1. lost.overflow \subseteq Records /\ lost.exhausted \subseteq Records
  BY DEF LostType
<1>2. IsFiniteSet(lost.overflow) /\ IsFiniteSet(lost.exhausted)
  BY <1>1, Constants, FS_Subset
<1>. QED BY <1>2, FS_CardinalityType

LEMMA DisjointUnion ==
  ASSUME NEW A, IsFiniteSet(A), NEW B, IsFiniteSet(B), A \cap B = {}
  PROVE  /\ Cardinality(A \cup B) = Cardinality(A) + Cardinality(B)
         /\ Cardinality(A) \in Nat /\ Cardinality(B) \in Nat
<1>1. Cardinality(A \cap B) = 0
  BY FS_EmptySet
<1>2. Cardinality(A \cup B) = Cardinality(A) + Cardinality(B) - Cardinality(A \cap B)
  BY FS_Union
<1>3. Cardinality(A) \in Nat /\ Cardinality(B) \in Nat
  BY FS_CardinalityType
<1>. QED BY <1>1, <1>2, <1>3

\* A counted drop keeps the counters true.
LEMMA DropCounts ==
  ASSUME lost \in LostType, drops \in [overflow : Nat, exhausted : Nat], CountersTell,
         NEW how \in {"overflow", "exhausted"}, NEW S \in SUBSET Records, Drop(how, S),
         \A r \in S : LostOnes(r) = 0, UNCHANGED stopping
  PROVE  CountersTell' /\ drops' \in [overflow : Nat, exhausted : Nat]
<1>1. S \cap lost[how] = {} /\ lost' = Lost(how, S) /\ how \in Reasons
  <2>1. how \in Reasons /\ lost' = Lost(how, S)
    BY DEF Drop, Reasons
  <2>. QED BY <2>1, LostMore
<1>2. IsFiniteSet(S) /\ Cardinality(S) \in Nat
  BY Constants, FS_Subset, FS_CardinalityType
<1>3. drops' = Counted(how, Cardinality(S))
  BY DEF Drop
<1>4. /\ drops' \in [overflow : Nat, exhausted : Nat]
      /\ drops'[how] = drops[how] + Cardinality(S)
      /\ \A other \in {"overflow", "exhausted"} : other # how => drops'[other] = drops[other]
  BY <1>2, <1>3 DEF Counted
<1>5. /\ lost'[how] = lost[how] \cup S
      /\ \A other \in {"overflow", "exhausted"} : other # how => lost'[other] = lost[other]
  BY <1>1 DEF Lost, LostType
<1>6. IsFiniteSet(lost[how])
  BY LostFinite
<1>7. Cardinality(lost'[how]) = Cardinality(lost[how]) + Cardinality(S)
      /\ Cardinality(lost[how]) \in Nat
  <2>1. lost[how] \cap S = {}
    BY <1>1
  <2>2. Cardinality(lost[how] \cup S) = Cardinality(lost[how]) + Cardinality(S)
        /\ Cardinality(lost[how]) \in Nat
    BY <1>2, <1>6, <2>1, DisjointUnion
  <2>. QED BY <1>5, <2>2
<1>8. /\ drops.exhausted = Cardinality(lost.exhausted)
      /\ drops.overflow <= Cardinality(lost.overflow)
      /\ ~stopping => drops.overflow = Cardinality(lost.overflow)
  BY DEF CountersTell
<1>9. drops.overflow \in Nat /\ drops.exhausted \in Nat /\ Cardinality(lost.overflow) \in Nat
  BY LostFinite
<1>10. /\ drops'.exhausted = Cardinality(lost'.exhausted)
       /\ drops'.overflow <= Cardinality(lost'.overflow)
       /\ ~stopping => drops'.overflow = Cardinality(lost'.overflow)
  <2>1. CASE how = "overflow"
    <3>1. /\ drops'.overflow = drops.overflow + Cardinality(S)
          /\ Cardinality(lost'.overflow) = Cardinality(lost.overflow) + Cardinality(S)
          /\ drops'.exhausted = drops.exhausted /\ lost'.exhausted = lost.exhausted
      BY <1>4, <1>5, <1>7, <2>1
    <3>. QED BY <1>2, <1>8, <1>9, <3>1
  <2>2. CASE how = "exhausted"
    <3>1. /\ drops'.exhausted = drops.exhausted + Cardinality(S)
          /\ Cardinality(lost'.exhausted) = Cardinality(lost.exhausted) + Cardinality(S)
          /\ drops'.overflow = drops.overflow /\ lost'.overflow = lost.overflow
      BY <1>4, <1>5, <1>7, <2>2
    <3>. QED BY <1>2, <1>8, <1>9, <3>1
  <2>. QED BY <2>1, <2>2
<1>. QED BY <1>4, <1>10 DEF CountersTell

----------------------------------------------------------------------------
(* drain_and_persist(), flush_queue() and what follows a batch *)

LEMMA FullItems ==
  /\ Full \subseteq ItemType
  /\ \A item \in Full : item.records \subseteq Records /\ item.records # {} /\ item.retry \in 0..MaxRetries
  /\ \A item \in Full : \A r : item \in With(r) <=> r \in item.records
  /\ NoItem \in ItemType /\ Start \in ServeType /\ None \notin Full
<1>1. Full \subseteq ItemType
  BY DEF Full
<1>2. \A item \in Full : item.records \subseteq Records /\ item.records # {} /\ item.retry \in 0..MaxRetries
  BY DEF Full, ItemType
<1>3. \A item \in Full : \A r : item \in With(r) <=> r \in item.records
  BY <1>1 DEF With
<1>4. NoItem \in ItemType
  BY Constants DEF NoItem
<1>5. Start \in ServeType
  BY <1>4 DEF Start, ServeType, States
<1>. QED BY <1>1, <1>2, <1>3, <1>4, <1>5, Constants

LEMMA ItemsCount ==
  ASSUME NEW s \in Seq(Full)
  PROVE  /\ AllRecords(s) \subseteq Records
         /\ \A r : r \in AllRecords(s) <=> Count(s, With(r)) # 0
         /\ \A r : Count(s, With(r)) \in Nat
<1>1. s \in Seq(ItemType)
  BY FullItems, WiderSeq
<1>. QED BY <1>1, AllRecordsCount, CountType

\* The batches in front of the due one, the room for them, and the rest.
Room(todo, left) == Min({Len(Deferred(todo)), TelemetryQueueMax - Len(left)})
Put(todo, left)  == SubSeq(Deferred(todo), 1, Room(todo, left))
Gone(todo, left) == SubSeq(Deferred(todo), Room(todo, left) + 1, Len(Deferred(todo)))
Rest(todo)       == SubSeq(todo, Len(Deferred(todo)) + 1, Len(todo))

LEMMA ProceedParts ==
  ASSUME NEW todo \in Seq(Full), NEW left \in Seq(Full), Len(left) <= TelemetryQueueMax
  PROVE  LET put  == Put(todo, left)
             gone == Gone(todo, left)
             rest == Rest(todo)
         IN
         /\ put \in Seq(Full) /\ gone \in Seq(Full) /\ rest \in Seq(Full)
         /\ left \o put \in Seq(Full) /\ Len(left \o put) <= TelemetryQueueMax
         /\ \A V : /\ Count(todo, V) = Count(put, V) + Count(gone, V) + Count(rest, V)
                   /\ Count(left \o put, V) = Count(left, V) + Count(put, V)
                   /\ Count(put, V) \in Nat /\ Count(gone, V) \in Nat /\ Count(rest, V) \in Nat
                   /\ Count(left, V) \in Nat
<1>. DEFINE deferred == Deferred(todo)   room == Room(todo, left)
            put == Put(todo, left)   gone == Gone(todo, left)   rest == Rest(todo)
<1>0. /\ room = Min({Len(deferred), TelemetryQueueMax - Len(left)})
      /\ put = SubSeq(deferred, 1, room)
      /\ gone = SubSeq(deferred, room + 1, Len(deferred))
      /\ rest = SubSeq(todo, Len(deferred) + 1, Len(todo))
  BY DEF Room, Put, Gone, Rest
<1>. HIDE DEF deferred, room, put, gone, rest
<1>1. PICK k \in 0..Len(todo) : deferred = SubSeq(todo, 1, k)
  <2>1. todo \in Seq(ItemType)
    BY FullItems, WiderSeq
  <2>. QED BY <2>1, DeferredPrefix DEF deferred
<1>2. Len(todo) \in Nat /\ Len(left) \in Nat
  BY LenProperties
<1>3. deferred \in Seq(Full) /\ Len(deferred) = k
  <2>1. \A i \in 1..k : todo[i] \in Full
    BY <1>2, ElementOfSeq
  <2>2. SubSeq(todo, 1, k) \in Seq(Full) /\ Len(SubSeq(todo, 1, k)) = IF 1 <= k THEN k - 1 + 1 ELSE 0
    BY <1>2, <2>1, SubSeqProperties
  <2>3. k \in Nat
    BY <1>2
  <2>. QED BY <1>1, <2>2, <2>3
<1>4. room \in 0..k /\ room <= TelemetryQueueMax - Len(left)
  <2>1. k \in Int /\ TelemetryQueueMax - Len(left) \in Int /\ TelemetryQueueMax - Len(left) >= 0
    BY <1>2, Constants
  <2>2. Min({k, TelemetryQueueMax - Len(left)}) \in {k, TelemetryQueueMax - Len(left)}
        /\ Min({k, TelemetryQueueMax - Len(left)}) <= k
        /\ Min({k, TelemetryQueueMax - Len(left)}) <= TelemetryQueueMax - Len(left)
    BY <2>1, MinOfTwo
  <2>3. room = Min({k, TelemetryQueueMax - Len(left)})
    BY <1>0, <1>3
  <2>. QED BY <1>2, <2>1, <2>2, <2>3
<1>5. /\ put \in Seq(Full) /\ gone \in Seq(Full)
      /\ \A V : Count(deferred, V) = Count(put, V) + Count(gone, V)
  <2>1. room \in 0..Len(deferred)
    BY <1>3, <1>4
  <2>2. \A V : /\ SubSeq(deferred, 1, room) \in Seq(Full) /\ SubSeq(deferred, room + 1, Len(deferred)) \in Seq(Full)
               /\ Count(deferred, V) = Count(SubSeq(deferred, 1, room), V)
                                         + Count(SubSeq(deferred, room + 1, Len(deferred)), V)
    BY <1>3, <2>1, CountSplit
  <2>. QED BY <1>0, <2>2
<1>6. /\ rest \in Seq(Full)
      /\ \A V : Count(todo, V) = Count(deferred, V) + Count(rest, V)
  <2>1. \A V : /\ SubSeq(todo, k + 1, Len(todo)) \in Seq(Full)
               /\ Count(todo, V) = Count(SubSeq(todo, 1, k), V) + Count(SubSeq(todo, k + 1, Len(todo)), V)
    BY CountSplit
  <2>. QED BY <1>0, <1>1, <1>3, <2>1
<1>7. Len(put) = room
  <2>1. \A i \in 1..room : deferred[i] \in Full
    BY <1>3, <1>4, ElementOfSeq
  <2>2. room \in Int /\ room >= 0
    BY <1>4
  <2>3. Len(SubSeq(deferred, 1, room)) = IF 1 <= room THEN room - 1 + 1 ELSE 0
    BY <2>1, <2>2, SubSeqProperties
  <2>. QED BY <1>0, <2>2, <2>3
<1>8. left \o put \in Seq(Full) /\ Len(left \o put) <= TelemetryQueueMax
  <2>1. left \o put \in Seq(Full) /\ Len(left \o put) = Len(left) + Len(put)
    <3>1. put \in Seq(Full) /\ left \in Seq(Full)
      BY <1>5
    <3>. QED BY ONLY <3>1, ConcatProperties
  <2>2. Len(left) + room <= TelemetryQueueMax /\ Len(left) + room \in Nat
    BY <1>2, <1>4, Constants
  <2>. QED BY <1>7, <2>1, <2>2
<1>9. \A V : Count(left \o put, V) = Count(left, V) + Count(put, V)
  <2>1. put \in Seq(Full) /\ left \in Seq(Full)
    BY <1>5
  <2>. QED BY ONLY <2>1, CountConcat
<1>10. \A V : /\ Count(put, V) \in Nat /\ Count(gone, V) \in Nat /\ Count(rest, V) \in Nat
              /\ Count(left, V) \in Nat
  BY <1>5, <1>6, CountType
<1>11. \A V : Count(todo, V) = Count(put, V) + Count(gone, V) + Count(rest, V)
  <2>. SUFFICES ASSUME NEW V PROVE Count(todo, V) = Count(put, V) + Count(gone, V) + Count(rest, V)
    OBVIOUS
  <2>1. Count(todo, V) = Count(deferred, V) + Count(rest, V)
    BY <1>6
  <2>2. Count(deferred, V) = Count(put, V) + Count(gone, V)
    BY <1>5
  <2>. QED BY <2>1, <2>2
<1>. QED BY <1>5, <1>6, <1>8, <1>9, <1>10, <1>11 DEF put, gone, rest


\* What the invariant says of a serve() that is about to Proceed: todo and left
\* stand for all it holds and for the queue.
Proceeding(todo, left) ==
    /\ call[Executor].at \in {"idle", "back"}
    /\ Len(left) <= TelemetryQueueMax
    /\ \A r \in Records : Count(left, With(r)) + Count(todo, With(r)) + InDb(r) + rows[r] + LostOnes(r)
                            = Bit(r \in ended)

LEMMA ProceedInv ==
  ASSUME DbTypeOK, Typed, Ours, CountersTell,
         NEW todo \in Seq(Full), NEW left \in Seq(Full), Proceeding(todo, left), Proceed(todo, left),
         UNCHANGED <<ended, stopping, rows, faults>>,
         announced' \subseteq Records, \A r \in announced' : rows[r] = 1
  PROVE  ExecInv'
<1>. DEFINE put == Put(todo, left)
            gone == Gone(todo, left)
            rest == Rest(todo)
            S == AllRecords(gone)
<1>1. /\ ring' = left \o put
      /\ Drop("overflow", S)
      /\ \/ /\ rest = <<>>
            /\ serve' = [Start EXCEPT !.at = IF serve.flush THEN "gone" ELSE "waiting"]
            /\ call' = [call EXCEPT ![Executor] = Idle]
            /\ UNCHANGED <<queue, putting>>
         \/ /\ rest # <<>>
            /\ serve' = [serve EXCEPT !.at = "persisting", !.got = None, !.op = "batch",
                                      !.batch = Head(rest), !.todo = Tail(rest)]
            /\ Submit(Executor, [op |-> "batch", records |-> Head(rest).records])
      /\ UNCHANGED writing
  BY DEF Proceed, Put, Gone, Rest, Room
<1>2. /\ put \in Seq(Full) /\ gone \in Seq(Full) /\ rest \in Seq(Full)
      /\ left \o put \in Seq(Full) /\ Len(left \o put) <= TelemetryQueueMax
      /\ \A V : /\ Count(todo, V) = Count(put, V) + Count(gone, V) + Count(rest, V)
                /\ Count(left \o put, V) = Count(left, V) + Count(put, V)
                /\ Count(put, V) \in Nat /\ Count(gone, V) \in Nat /\ Count(rest, V) \in Nat
                /\ Count(left, V) \in Nat
  <2>1. Len(left) <= TelemetryQueueMax
    BY DEF Proceeding
  <2>. QED BY <2>1, ProceedParts
<1>. HIDE DEF put, gone, rest
<1>3. S \subseteq Records /\ \A r : r \in S <=> Count(gone, With(r)) # 0
  BY <1>2, ItemsCount
<1>. HIDE DEF S
<1>4. ASSUME NEW r \in Records
      PROVE  /\ r \in S => LostOnes(r) = 0
             /\ Count(gone, With(r)) = Bit(r \in S)
             /\ Count(rest, With(r)) # 0 => rows[r] = 0
             /\ Count(left \o put, With(r)) + Count(rest, With(r)) + InDb(r) + rows[r]
                  + LostOnes(r) + Bit(r \in S) = Bit(r \in ended)
  <2>1. InDb(r) \in Nat /\ rows[r] \in Nat /\ LostOnes(r) \in Nat /\ Bit(r \in ended) \in {0, 1}
    BY Numbers
  <2>. DEFINE a == Count(left, With(r))  b == Count(put, With(r))  c == Count(gone, With(r))
              d == Count(rest, With(r))  e == InDb(r)  f == rows[r]  g == LostOnes(r)  h == Bit(r \in ended)
              t == Count(todo, With(r))  p == Count(left \o put, With(r))
  <2>2. /\ a \in Nat /\ b \in Nat /\ c \in Nat /\ d \in Nat /\ e \in Nat /\ f \in Nat /\ g \in Nat /\ h \in {0, 1}
        /\ t = b + c + d /\ p = a + b
    BY <1>2, <2>1
  <2>3. a + t + e + f + g = h
    BY DEF Proceeding
  <2>4. /\ c # 0 => g = 0 /\ c = 1
        /\ d # 0 => f = 0
        /\ p + d + e + f + g + c = h
    <3>. HIDE DEF a, b, c, d, e, f, g, h, t, p
    <3>. QED BY <2>2, <2>3
  <2>5. c # 0 <=> r \in S
    BY <1>3
  <2>6. c = Bit(r \in S)
    BY <2>4, <2>5 DEF Bit
  <2>. QED BY <2>4, <2>5, <2>6
<1>5. lost \in LostType /\ S \in SUBSET Records /\ \A r \in S : LostOnes(r) = 0
  BY <1>3, <1>4 DEF Typed, LostType
<1>6. lost' \in LostType /\ \A r \in Records : LostOnes(r)' = LostOnes(r) + Bit(r \in S)
  <2>1. lost' = Lost("overflow", S) /\ "overflow" \in Reasons
    BY <1>1 DEF Drop, Reasons
  <2>. QED BY <1>5, <2>1, LostMore
<1>7. CountersTell' /\ drops' \in [overflow : Nat, exhausted : Nat]
  BY <1>1, <1>5, DropCounts DEF Typed
<1>8. ring' \in Seq(Full) /\ Len(ring') <= TelemetryQueueMax
  BY <1>1, <1>2
<1>9. AnnouncedHasRow'
  BY DEF AnnouncedHasRow
<1>10. CASE /\ rest = <<>>
            /\ serve' = [Start EXCEPT !.at = IF serve.flush THEN "gone" ELSE "waiting"]
            /\ call' = [call EXCEPT ![Executor] = Idle]
            /\ UNCHANGED <<queue, putting>>
  <2>1. /\ serve' \in ServeType /\ serve'.at \in {"gone", "waiting"}
        /\ serve'.got = None /\ serve'.todo = <<>>
    BY <1>10, FullItems DEF Start, ServeType, States
  <2>2. Typed'
    BY <1>6, <1>7, <1>8, <2>1 DEF Typed, LostType
  <2>3. call'[Executor] = Idle /\ call'[Executor].at = "idle"
    BY <1>10, Constants DEF DbTypeOK, Idle
  <2>4. Calling' /\ Hands' /\ Rowed'
    BY <2>1, <2>3 DEF Calling, Hands, Rowed
  <2>5. Ours'
    <3>1. Count(queue, Own) = 0 /\ Count(putting, Own) = 0 /\ writing \notin Own
      BY NoneOwn DEF Proceeding
    <3>2. queue \in Seq(Clean(Task')) /\ putting \in Seq(Clean(Task'))
      BY <3>1, Reclean DEF Ours
    <3>3. writing \in Clean(Task') \cup {None}
      BY <3>1 DEF Ours, Clean, Own
    <3>4. Bit(writing' \in Own) = 0 /\ Bit(call'[Executor].at = "putting") = 0 /\ Bit(call'[Executor].at = "waiting") = 0
      BY <1>1, <2>3, <3>1 DEF Bit
    <3>5. queue' = queue /\ putting' = putting /\ writing' = writing
      BY <1>1, <1>10
    <3>. QED BY <3>1, <3>2, <3>3, <3>4, <3>5 DEF Ours
  <2>6. Accounts'
    <3>. SUFFICES ASSUME NEW r \in Records PROVE Places(r)' = Bit(r \in ended')
      BY DEF Accounts
    <3>1. Count(ring', With(r)) = Count(left \o put, With(r)) /\ Count(serve'.todo, With(r)) = 0
          /\ Count(rest, With(r)) = 0
      BY <1>1, <1>10, <2>1, CountEmpty
    <3>2. GotOne(r)' = 0 /\ BatchOne(r)' = 0
      BY <2>1 DEF GotOne, BatchOne, Bit
    <3>3. InDb(r)' = InDb(r) /\ rows'[r] = rows[r]
      BY <1>1, <1>10 DEF InDb
    <3>4. LostOnes(r)' = LostOnes(r) + Bit(r \in S)
      BY <1>6
    <3>5. Count(left \o put, With(r)) + 0 + InDb(r) + rows[r] + LostOnes(r) + Bit(r \in S) = Bit(r \in ended)
      BY <1>4, <3>1
    <3>6. Places(r)' = Count(ring', With(r)) + GotOne(r)' + Count(serve'.todo, With(r)) + BatchOne(r)'
                         + InDb(r)' + rows'[r] + LostOnes(r)'
      BY DEF Places
    <3>7. /\ Count(left \o put, With(r)) \in Nat /\ InDb(r) \in Nat /\ rows[r] \in Nat /\ LostOnes(r) \in Nat
          /\ Bit(r \in S) \in Nat
      BY <1>2, Numbers, CountType DEF Bit
    <3>. QED BY <3>1, <3>2, <3>3, <3>4, <3>5, <3>6, <3>7
  <2>. QED BY <1>7, <1>9, <2>2, <2>4, <2>5, <2>6 DEF ExecInv
<1>11. CASE /\ rest # <<>>
            /\ serve' = [serve EXCEPT !.at = "persisting", !.got = None, !.op = "batch",
                                      !.batch = Head(rest), !.todo = Tail(rest)]
            /\ Submit(Executor, [op |-> "batch", records |-> Head(rest).records])
  <2>. DEFINE next == Head(rest)
              w == [op |-> "batch", records |-> next.records]
  <2>1. /\ next \in Full /\ Tail(rest) \in Seq(Full)
        /\ \A V : Count(rest, V) = Bit(next \in V) + Count(Tail(rest), V)
    BY <1>2, <1>11, CountHead
  <2>. HIDE DEF next
  <2>2. /\ serve' \in ServeType /\ serve'.at = "persisting" /\ serve'.got = None /\ serve'.op = "batch"
        /\ serve'.batch = next /\ serve'.todo = Tail(rest)
    <3>1. serve' = [serve EXCEPT !.at = "persisting", !.got = None, !.op = "batch",
                                 !.batch = next, !.todo = Tail(rest)]
      BY <1>11 DEF next
    <3>. QED BY <2>1, <3>1, FullItems DEF Typed, ServeType, States
  <2>3. Typed'
    BY <1>6, <1>7, <1>8, <2>2 DEF Typed, LostType
  <2>4. w \in Writes /\ Submit(Executor, w) /\ Task' = w
    BY <1>11, <2>1, <2>2, FullItems, Constants DEF next, Task
  <2>5. /\ queue' \in Seq(Clean(w)) /\ putting' \in Seq(Clean(w)) /\ writing' \in Clean(w) \cup {None}
        /\ Count(putting', Own) = Bit(call'[Executor].at = "putting")
        /\ Count(queue', Own) + Bit(writing' \in Own) = Bit(call'[Executor].at = "waiting")
        /\ \A r : Count(queue', Loose(r)) = Count(queue, Loose(r))
        /\ call'[Executor].at \in {"putting", "waiting", "back"}
        /\ ~Succeeded'
    <3>. HIDE DEF w
    <3>. QED BY <1>1, <2>4, SubmitOurs DEF Proceeding
  <2>. HIDE DEF w
  <2>6. Ours'
    BY <2>4, <2>5 DEF Ours
  <2>7. Calling' /\ Hands'
    BY <2>1, <2>2, <2>5 DEF Calling, Hands
  <2>8. \A r \in next.records : r \in Records /\ rows[r] = 0
    <3>. SUFFICES ASSUME NEW r \in next.records PROVE r \in Records /\ rows[r] = 0
      OBVIOUS
    <3>1. r \in Records /\ next \in With(r)
      BY <2>1, FullItems
    <3>2. Count(rest, With(r)) = 1 + Count(Tail(rest), With(r)) /\ Count(Tail(rest), With(r)) \in Nat
      BY <2>1, <3>1, CountType DEF Bit
    <3>. QED BY <1>4, <3>1, <3>2
  <2>9. Rowed'
    BY <2>2, <2>5, <2>8 DEF Rowed
  <2>10. Accounts'
    <3>. SUFFICES ASSUME NEW r \in Records PROVE Places(r)' = Bit(r \in ended')
      BY DEF Accounts
    <3>1. Count(ring', With(r)) = Count(left \o put, With(r)) /\ Count(serve'.todo, With(r)) = Count(Tail(rest), With(r))
          /\ Count(rest, With(r)) = Bit(next \in With(r)) + Count(Tail(rest), With(r))
      BY <1>1, <2>1, <2>2
    <3>2. GotOne(r)' = 0 /\ BatchOne(r)' = Bit(next \in With(r))
      <4>1. GotOne(r)' = 0
        BY <2>2 DEF GotOne, Bit
      <4>2. BatchOne(r)' = Bit(r \in next.records /\ rows[r] = 0)
        BY <2>2 DEF BatchOne
      <4>3. (r \in next.records /\ rows[r] = 0) <=> next \in With(r)
        BY <2>1, <2>8, FullItems
      <4>. QED BY <4>1, <4>2, <4>3
    <3>3. InDb(r)' = InDb(r) /\ rows'[r] = rows[r]
      BY <1>1, <2>5 DEF InDb
    <3>4. LostOnes(r)' = LostOnes(r) + Bit(r \in S)
      BY <1>6
    <3>5. Count(left \o put, With(r)) + Count(rest, With(r)) + InDb(r) + rows[r] + LostOnes(r) + Bit(r \in S)
            = Bit(r \in ended)
      BY <1>4
    <3>6. Places(r)' = Count(ring', With(r)) + GotOne(r)' + Count(serve'.todo, With(r)) + BatchOne(r)'
                         + InDb(r)' + rows'[r] + LostOnes(r)'
      BY DEF Places
    <3>7. /\ Count(left \o put, With(r)) \in Nat /\ InDb(r) \in Nat /\ rows[r] \in Nat /\ LostOnes(r) \in Nat
          /\ Bit(r \in S) \in Nat /\ Bit(next \in With(r)) \in Nat /\ Count(Tail(rest), With(r)) \in Nat
      BY <1>2, <2>1, Numbers, CountType DEF Bit
    <3>8. Bit(r \in ended') = Bit(r \in ended)
      BY <1>1 DEF Bit
    <3>. DEFINE a == Count(left \o put, With(r))   b == Count(rest, With(r))   c == InDb(r)   d == rows[r]
                e == LostOnes(r)   f == Bit(r \in S)   g == Bit(next \in With(r))
                h == Count(Tail(rest), With(r))   t == Bit(r \in ended)
                a1 == Count(ring', With(r))   b1 == GotOne(r)'   c1 == Count(serve'.todo, With(r))
                d1 == BatchOne(r)'   e1 == InDb(r)'   f1 == rows'[r]   g1 == LostOnes(r)'
                p1 == Places(r)'   t1 == Bit(r \in ended')
    <3>9. /\ a1 = a /\ c1 = h /\ b = g + h /\ b1 = 0 /\ d1 = g /\ e1 = c /\ f1 = d /\ g1 = e + f
          /\ a + b + c + d + e + f = t /\ p1 = a1 + b1 + c1 + d1 + e1 + f1 + g1 /\ t1 = t
          /\ a \in Nat /\ c \in Nat /\ d \in Nat /\ e \in Nat /\ f \in Nat /\ g \in Nat /\ h \in Nat
      BY <3>1, <3>2, <3>3, <3>4, <3>5, <3>6, <3>7, <3>8
    <3>. HIDE DEF a, b, c, d, e, f, g, h, t, a1, b1, c1, d1, e1, f1, g1, p1, t1
    <3>10. p1 = t1
      BY ONLY <3>9
    <3>. QED BY <3>10 DEF p1, t1
  <2>. QED BY <1>7, <1>9, <2>3, <2>6, <2>7, <2>9, <2>10 DEF ExecInv
<1>. QED BY <1>1, <1>10, <1>11


\* serve() goes on with what is left of the batches it drained.
LEMMA GoOnProceeds ==
  ASSUME ExecInv, serve.at \in {"emitting", "dropping"}
  PROVE  Proceeding(serve.todo, ring) /\ serve.todo \in Seq(Full) /\ ring \in Seq(Full)
<1>1. call[Executor].at \in {"idle", "back"} /\ serve.got = None
  BY DEF ExecInv, Calling, Hands, Idle
<1>2. ASSUME NEW r \in Records
      PROVE  Count(ring, With(r)) + Count(serve.todo, With(r)) + InDb(r) + rows[r] + LostOnes(r) = Bit(r \in ended)
  <2>1. GotOne(r) = 0 /\ BatchOne(r) = 0
    BY <1>1 DEF GotOne, BatchOne, Bit
  <2>2. Count(ring, With(r)) + GotOne(r) + Count(serve.todo, With(r)) + BatchOne(r)
          + InDb(r) + rows[r] + LostOnes(r) = Bit(r \in ended)
    BY DEF ExecInv, Accounts, Places
  <2>3. Count(ring, With(r)) \in Nat /\ Count(serve.todo, With(r)) \in Nat /\ InDb(r) \in Nat /\ rows[r] \in Nat
        /\ LostOnes(r) \in Nat
    BY Numbers DEF ExecInv
  <2>. QED BY <2>1, <2>2, <2>3
<1>3. serve.todo \in Seq(Full) /\ ring \in Seq(Full) /\ Len(ring) <= TelemetryQueueMax
  BY DEF ExecInv, Typed, ServeType
<1>. QED BY <1>1, <1>2, <1>3 DEF Proceeding

LEMMA EmitInv ==
  ASSUME DbTypeOK, ExecInv, Emit
  PROVE  ExecInv'
<1>1. serve.at = "emitting" /\ announced' = announced \cup serve.batch.records
      /\ Proceed(serve.todo, ring) /\ UNCHANGED <<ended, stopping, rows, faults>>
  BY DEF Emit
<1>2. \A r \in announced' : r \in Records /\ rows[r] = 1
  <2>1. \A r \in announced : r \in Records /\ rows[r] = 1
    BY DEF ExecInv, AnnouncedHasRow, Typed
  <2>2. \A r \in serve.batch.records : rows[r] = 1
    BY <1>1 DEF ExecInv, Rowed
  <2>3. serve.batch.records \subseteq Records
    BY DEF ExecInv, Typed, ServeType, ItemType
  <2>. QED BY <1>1, <2>1, <2>2, <2>3
<1>3. Proceeding(serve.todo, ring) /\ serve.todo \in Seq(Full) /\ ring \in Seq(Full)
  BY <1>1, GoOnProceeds
<1>4. Typed /\ Ours /\ CountersTell
  BY DEF ExecInv
<1>. QED BY <1>1, <1>2, <1>3, <1>4, ProceedInv

LEMMA NextBatchInv ==
  ASSUME DbTypeOK, ExecInv, NextBatch
  PROVE  ExecInv'
<1>1. serve.at = "dropping" /\ Proceed(serve.todo, ring) /\ UNCHANGED <<ended, stopping, rows, faults, announced>>
  BY DEF NextBatch
<1>2. \A r \in announced' : r \in Records /\ rows[r] = 1
  BY <1>1 DEF ExecInv, AnnouncedHasRow, Typed
<1>3. Proceeding(serve.todo, ring) /\ serve.todo \in Seq(Full) /\ ring \in Seq(Full)
  BY <1>1, GoOnProceeds
<1>4. Typed /\ Ours /\ CountersTell
  BY DEF ExecInv
<1>. QED BY <1>1, <1>2, <1>3, <1>4, ProceedInv

\* One batch of the records of many items.
LEMMA Merged ==
  ASSUME NEW S \in SUBSET Records, S # {}
  PROVE  /\ <<Item(S, 0, TRUE)>> \in Seq(Full)
         /\ \A r \in Records : Count(<<Item(S, 0, TRUE)>>, With(r)) = Bit(r \in S)
<1>1. Item(S, 0, TRUE) \in Full
  <2>1. Item(S, 0, TRUE) \in ItemType
    BY Constants
  <2>2. Item(S, 0, TRUE).records = S
    BY DEF Item
  <2>. QED BY <2>1, <2>2 DEF Full
<1>2. \A r : Item(S, 0, TRUE) \in With(r) <=> r \in S
  BY <1>1 DEF With, Full, Item
<1>3. \A r : Count(<<Item(S, 0, TRUE)>>, With(r)) = Bit(Item(S, 0, TRUE) \in With(r))
  BY CountOne
<1>4. \A r : Bit(Item(S, 0, TRUE) \in With(r)) = Bit(r \in S)
  BY <1>2 DEF Bit
<1>5. <<Item(S, 0, TRUE)>> \in Seq(Full)
  BY <1>1, OneElement
<1>. QED BY <1>3, <1>4, <1>5

LEMMA FlushInv ==
  ASSUME DbTypeOK, ExecInv, FlushQueue
  PROVE  ExecInv'
<1>. DEFINE todo == IF ring = <<>> THEN <<>> ELSE <<Item(AllRecords(ring), 0, TRUE)>>
<1>1. serve.at = "flushing" /\ Proceed(todo, <<>>) /\ UNCHANGED <<ended, stopping, rows, faults, announced>>
  BY DEF FlushQueue
<1>2. \A r \in announced' : r \in Records /\ rows[r] = 1
  BY <1>1 DEF ExecInv, AnnouncedHasRow, Typed
<1>3. ring \in Seq(Full) /\ serve.got = None /\ serve.todo = <<>> /\ call[Executor].at = "idle"
  BY <1>1 DEF ExecInv, Typed, Hands, Calling, Idle
<1>4. /\ AllRecords(ring) \subseteq Records
      /\ \A r : r \in AllRecords(ring) <=> Count(ring, With(r)) # 0
      /\ \A r : Count(ring, With(r)) \in Nat
  BY <1>3, ItemsCount
<1>5. ring # <<>> => AllRecords(ring) # {}
  <2>. SUFFICES ASSUME ring # <<>> PROVE AllRecords(ring) # {}
    OBVIOUS
  <2>1. 1 \in DOMAIN ring /\ ring[1] \in Full
    BY <1>3, CountHead
  <2>2. ring[1].records # {} /\ ring[1].records \subseteq AllRecords(ring)
    BY <2>1, FullItems DEF AllRecords
  <2>. QED BY <2>2
<1>6. /\ todo \in Seq(Full)
      /\ \A r \in Records : Count(todo, With(r)) = Bit(r \in AllRecords(ring))
  <2>1. CASE ring = <<>>
    <3>1. todo = <<>> /\ todo \in Seq(Full)
      BY <2>1
    <3>2. \A r : r \notin AllRecords(ring)
      BY <2>1 DEF AllRecords
    <3>. QED BY <3>1, <3>2, CountEmpty DEF Bit
  <2>2. CASE ring # <<>>
    <3>1. todo = <<Item(AllRecords(ring), 0, TRUE)>>
      BY <2>2
    <3>. QED BY <1>4, <1>5, <2>2, <3>1, Merged
  <2>. QED BY <2>1, <2>2
<1>7. Proceeding(todo, <<>>) /\ <<>> \in Seq(Full)
  <2>1. ASSUME NEW r \in Records
        PROVE  Count(<<>>, With(r)) + Count(todo, With(r)) + InDb(r) + rows[r] + LostOnes(r) = Bit(r \in ended)
    <3>1. GotOne(r) = 0 /\ BatchOne(r) = 0 /\ Count(serve.todo, With(r)) = 0 /\ Count(<<>>, With(r)) = 0
      BY <1>1, <1>3, CountEmpty DEF GotOne, BatchOne, Bit
    <3>2. Count(ring, With(r)) + GotOne(r) + Count(serve.todo, With(r)) + BatchOne(r)
            + InDb(r) + rows[r] + LostOnes(r) = Bit(r \in ended)
      BY DEF ExecInv, Accounts, Places
    <3>3. Count(ring, With(r)) \in Nat /\ InDb(r) \in Nat /\ rows[r] \in Nat
          /\ LostOnes(r) \in Nat /\ Bit(r \in ended) \in {0, 1}
      BY Numbers DEF ExecInv
    <3>4. Count(ring, With(r)) \in {0, 1}
      BY <3>1, <3>2, <3>3
    <3>5. Count(todo, With(r)) = Count(ring, With(r))
      BY <1>4, <1>6, <3>4 DEF Bit
    <3>. HIDE DEF todo
    <3>. QED BY <3>1, <3>2, <3>3, <3>5
  <2>2. Len(<<>>) <= TelemetryQueueMax /\ <<>> \in Seq(Full)
    BY Constants
  <2>. HIDE DEF todo
  <2>. QED BY <1>3, <2>1, <2>2 DEF Proceeding
<1>8. Typed /\ Ours /\ CountersTell
  BY DEF ExecInv
<1>. HIDE DEF todo
<1>. QED BY <1>1, <1>2, <1>6, <1>7, <1>8, ProceedInv


\* What drain_and_persist() makes of the items it took.
LEMMA BatchesOf ==
  ASSUME NEW items \in Seq(Full), NEW fresh,
         fresh = UNION {items[i].records : i \in {j \in DOMAIN items : ~IsRetry(items[j])}}
  PROVE  LET todo == (IF fresh = {} THEN <<>> ELSE <<Item(fresh, 0, TRUE)>>) \o Retries(items)
         IN  /\ todo \in Seq(Full)
             /\ \A r \in Records : Count(items, With(r)) \in {0, 1} => Count(todo, With(r)) = Count(items, With(r))
<1>. DEFINE one == IF fresh = {} THEN <<>> ELSE <<Item(fresh, 0, TRUE)>>
            back == Retries(items)
<1>1. \A i \in DOMAIN items : items[i] \in Full
  BY Elements
<1>2. fresh \in SUBSET Records
  BY <1>1, FullItems
<1>3. items \in Seq(ItemType)
  BY FullItems, WiderSeq
<1>4. /\ back \in Seq(Full)
      /\ \A V : Count(back, V) = Count(items, V \cap Again)
  <2>1. /\ back \in Seq(ItemType)
        /\ \A k \in DOMAIN back : \E i \in DOMAIN items : back[k] = items[i]
        /\ \A V : Count(back, V) = Count(items, V \cap Again)
    BY <1>3, RetriesList
  <2>. HIDE DEF back
  <2>2. \A k \in DOMAIN back : back[k] \in Full
    BY <1>1, <2>1
  <2>. QED BY <2>1, <2>2, Reseq
<1>5. /\ one \in Seq(Full)
      /\ \A r \in Records : Count(one, With(r)) = Bit(r \in fresh)
  <2>1. CASE fresh = {}
    <3>1. one = <<>>
      BY <2>1
    <3>2. <<>> \in Seq(Full)
      OBVIOUS
    <3>3. \A r \in Records : Bit(r \in fresh) = 0
      BY <2>1 DEF Bit
    <3>. QED BY <3>1, <3>2, <3>3, CountEmpty
  <2>2. CASE fresh # {}
    <3>1. one = <<Item(fresh, 0, TRUE)>>
      BY <2>2
    <3>. QED BY <1>2, <2>2, <3>1, Merged
  <2>. QED BY <2>1, <2>2
<1>. HIDE DEF one, back
<1>6. one \o back \in Seq(Full)
  BY <1>4, <1>5, ConcatProperties
<1>7. ASSUME NEW r \in Records, Count(items, With(r)) \in {0, 1}
      PROVE  Count(one \o back, With(r)) = Count(items, With(r))
  <2>. DEFINE new == With(r) \ Again   old == With(r) \cap Again
  <2>1. Count(items, With(r)) = Count(items, new) + Count(items, old)
    <3>1. With(r) = new \cup old /\ new \cap old = {}
      OBVIOUS
    <3>2. Count(items, new \cup old) = Count(items, new) + Count(items, old)
      <4>. HIDE DEF new, old
      <4>. QED BY <3>1, CountBoth
    <3>. QED BY <3>1, <3>2
  <2>2. Count(items, new) \in Nat /\ Count(items, old) \in Nat
    BY CountType
  <2>3. r \in fresh <=> Count(items, new) # 0
    <3>1. Count(items, new) = 0 <=> \A i \in DOMAIN items : items[i] \notin new
      BY CountZero
    <3>2. \A i \in DOMAIN items : items[i] \in new <=> r \in items[i].records /\ ~IsRetry(items[i])
      BY <1>1, FullItems DEF Again
    <3>3. r \in fresh <=> \E i \in DOMAIN items : ~IsRetry(items[i]) /\ r \in items[i].records
      OBVIOUS
    <3>. HIDE DEF new
    <3>. QED BY <3>1, <3>2, <3>3
  <2>4. Count(one \o back, With(r)) = Count(one, With(r)) + Count(back, With(r))
    BY <1>4, <1>5, CountConcat
  <2>5. Count(one, With(r)) = Bit(r \in fresh) /\ Count(back, With(r)) = Count(items, old)
    BY <1>4, <1>5
  <2>. HIDE DEF new, old
  <2>6. Bit(r \in fresh) = Count(items, new)
    <3>1. Count(items, new) \in {0, 1}
      BY <1>7, <2>1, <2>2
    <3>. QED BY <2>3, <3>1 DEF Bit
  <2>. QED BY <2>1, <2>2, <2>4, <2>5, <2>6
<1>. QED BY <1>6, <1>7 DEF one, back

LEMMA DrainInv ==
  ASSUME DbTypeOK, ExecInv, Reaped, ~stopping
  PROVE  ExecInv'
<1>. DEFINE first == IF serve.got = None THEN <<>> ELSE <<serve.got>>
            n     == Min({Len(ring), DrainCap - Len(first)})
            items == first \o SubSeq(ring, 1, n)
            left  == SubSeq(ring, n + 1, Len(ring))
            fresh == UNION {items[i].records : i \in {j \in DOMAIN items : ~IsRetry(items[j])}}
            todo  == (IF fresh = {} THEN <<>> ELSE <<Item(fresh, 0, TRUE)>>) \o Retries(items)
<1>1. serve.at = "reaping" /\ Proceed(todo, left) /\ UNCHANGED <<ended, stopping, rows, announced, faults>>
  BY DEF Reaped, DrainAndPersist
<1>2. ring \in Seq(Full) /\ serve.todo = <<>> /\ call[Executor].at = "idle" /\ Len(ring) \in Nat
      /\ Len(ring) <= TelemetryQueueMax /\ serve.got \in Full \cup {None}
  <2>1. ring \in Seq(Full) /\ serve.todo = <<>> /\ call[Executor].at = "idle"
        /\ Len(ring) <= TelemetryQueueMax /\ serve.got \in Full \cup {None}
    BY <1>1 DEF ExecInv, Typed, Hands, Calling, Idle, ServeType
  <2>. QED BY <2>1, LenProperties
<1>3. /\ first \in Seq(Full) /\ Len(first) \in {0, 1}
      /\ \A r \in Records : Count(first, With(r)) = GotOne(r)
  <2>1. CASE serve.got = None
    <3>1. first = <<>> /\ first \in Seq(Full)
      BY <2>1
    <3>. QED BY <2>1, <3>1, CountEmpty DEF GotOne, Bit
  <2>2. CASE serve.got # None
    <3>1. first = <<serve.got>> /\ serve.got \in Full
      BY <1>2, <2>2
    <3>2. first \in Seq(Full) /\ Len(first) = 1
      BY <3>1, OneElement
    <3>3. \A r : Count(first, With(r)) = Bit(serve.got \in With(r))
      BY <3>1, CountOne
    <3>4. \A r : serve.got \in With(r) <=> r \in serve.got.records
      BY <3>1, FullItems
    <3>5. \A r : Bit(serve.got \in With(r)) = GotOne(r)
      BY <2>2, <3>4 DEF GotOne, Bit
    <3>. QED BY <3>2, <3>3, <3>5
  <2>. QED BY <2>1, <2>2
<1>. HIDE DEF first
<1>4. n \in 0..Len(ring)
  <2>1. Len(ring) \in Int /\ DrainCap - Len(first) \in Int /\ DrainCap - Len(first) >= 0
    <3>1. DrainCap \in Nat /\ DrainCap > 0
      BY Constants
    <3>2. \A x \in {0, 1} : DrainCap - x \in Int /\ DrainCap - x >= 0
      BY <3>1
    <3>3. Len(first) \in {0, 1}
      BY <1>3
    <3>4. DrainCap - Len(first) \in Int /\ DrainCap - Len(first) >= 0
      BY <3>2, <3>3
    <3>. QED BY <1>2, <3>4
  <2>2. n \in {Len(ring), DrainCap - Len(first)} /\ n <= Len(ring)
    BY <2>1, MinOfTwo
  <2>. HIDE DEF n
  <2>. QED BY <1>2, <2>1, <2>2
<1>. HIDE DEF n
<1>5. /\ SubSeq(ring, 1, n) \in Seq(Full) /\ left \in Seq(Full)
      /\ \A V : Count(ring, V) = Count(SubSeq(ring, 1, n), V) + Count(left, V)
  BY <1>2, <1>4, CountSplit
<1>6. Len(left) <= TelemetryQueueMax
  <2>1. \A i \in (n + 1)..Len(ring) : ring[i] \in Full
    BY <1>2, <1>4, ElementOfSeq
  <2>2. Len(left) = IF n + 1 <= Len(ring) THEN Len(ring) - (n + 1) + 1 ELSE 0
    <3>1. n + 1 \in Int /\ Len(ring) \in Int
      BY <1>2, <1>4
    <3>. QED BY <2>1, <3>1, SubSeqProperties
  <2>. HIDE DEF left
  <2>. QED BY <1>2, <1>4, <2>2, Constants
<1>7. /\ items \in Seq(Full)
      /\ \A V : Count(items, V) = Count(first, V) + Count(SubSeq(ring, 1, n), V)
  <2>. DEFINE h == SubSeq(ring, 1, n)
  <2>1. first \in Seq(Full) /\ h \in Seq(Full) /\ items = first \o h
    BY <1>3, <1>5
  <2>. HIDE DEF h, items
  <2>2. items \in Seq(Full)
    BY ONLY <2>1, ConcatProperties
  <2>3. \A V : Count(items, V) = Count(first, V) + Count(h, V)
    BY ONLY <2>1, CountConcat
  <2>. QED BY ONLY <2>2, <2>3 DEF h
<1>. HIDE DEF items, left
<1>8. /\ todo \in Seq(Full)
      /\ \A r \in Records : Count(items, With(r)) \in {0, 1} => Count(todo, With(r)) = Count(items, With(r))
  <2>1. fresh = UNION {items[i].records : i \in {j \in DOMAIN items : ~IsRetry(items[j])}}
    OBVIOUS
  <2>. HIDE DEF fresh
  <2>. QED BY <1>7, <2>1, BatchesOf
<1>. HIDE DEF fresh, todo
<1>9. Proceeding(todo, left)
  <2>1. ASSUME NEW r \in Records
        PROVE  Count(left, With(r)) + Count(todo, With(r)) + InDb(r) + rows[r] + LostOnes(r) = Bit(r \in ended)
    <3>1. BatchOne(r) = 0 /\ Count(serve.todo, With(r)) = 0
      BY <1>1, <1>2, CountEmpty DEF BatchOne, Bit
    <3>2. Count(ring, With(r)) + GotOne(r) + Count(serve.todo, With(r)) + BatchOne(r)
            + InDb(r) + rows[r] + LostOnes(r) = Bit(r \in ended)
      BY DEF ExecInv, Accounts, Places
    <3>3. Count(ring, With(r)) \in Nat /\ GotOne(r) \in {0, 1} /\ InDb(r) \in Nat /\ rows[r] \in Nat
          /\ LostOnes(r) \in Nat /\ Bit(r \in ended) \in {0, 1}
      BY Numbers DEF ExecInv
    <3>4. Count(ring, With(r)) = Count(SubSeq(ring, 1, n), With(r)) + Count(left, With(r))
      BY <1>5
    <3>5. Count(items, With(r)) = GotOne(r) + Count(SubSeq(ring, 1, n), With(r))
      BY <1>3, <1>7
    <3>6. Count(SubSeq(ring, 1, n), With(r)) \in Nat /\ Count(left, With(r)) \in Nat
      BY <1>5, CountType
    <3>. DEFINE a == Count(ring, With(r))   b == GotOne(r)   c == Count(serve.todo, With(r))   d == BatchOne(r)
                e == InDb(r)   f == rows[r]   g == LostOnes(r)   t == Bit(r \in ended)
                h == Count(SubSeq(ring, 1, n), With(r))   l == Count(left, With(r))   k == Count(items, With(r))
                m == Count(todo, With(r))
    <3>7. /\ d = 0 /\ c = 0 /\ a + b + c + d + e + f + g = t /\ a = h + l /\ k = b + h
          /\ b \in {0, 1} /\ e \in Nat /\ f \in Nat /\ g \in Nat /\ t \in {0, 1} /\ h \in Nat /\ l \in Nat
      BY <3>1, <3>2, <3>3, <3>4, <3>5, <3>6
    <3>. HIDE DEF a, b, c, d, e, f, g, t, h, l, k, m
    <3>8. k \in {0, 1}
      BY ONLY <3>7
    <3>9. m = k
      BY <1>8, <3>8 DEF k, m
    <3>10. l + m + e + f + g = t
      BY ONLY <3>7, <3>9
    <3>. QED BY ONLY <3>10 DEF l, m, e, f, g, t
  <2>. QED BY <1>2, <1>6, <2>1 DEF Proceeding
<1>10. \A r \in announced' : r \in Records /\ rows[r] = 1
  BY <1>1 DEF ExecInv, AnnouncedHasRow, Typed
<1>11. Typed /\ Ours /\ CountersTell
  BY DEF ExecInv
<1>. QED BY <1>1, <1>5, <1>8, <1>9, <1>10, <1>11, ProceedInv


----------------------------------------------------------------------------
(* Steps that leave the database alone *)

LEMMA OursKept ==
  ASSUME Ours, UNCHANGED <<queue, putting, writing, call>>, Task' = Task
  PROVE  Ours'
BY DEF Ours

\* A step of serve() outside submit(), or out of it.
LEMMA OursFree ==
  ASSUME Typed, Ours, call[Executor].at \in {"idle", "back"}, call'[Executor].at \in {"idle", "back"},
         UNCHANGED <<queue, putting, writing>>
  PROVE  Ours'
<1>1. Count(queue, Own) = 0 /\ Count(putting, Own) = 0 /\ writing \notin Own
  BY NoneOwn
<1>2. queue \in Seq(Clean(Task')) /\ putting \in Seq(Clean(Task'))
  BY <1>1, Reclean DEF Ours
<1>3. writing \in Clean(Task') \cup {None}
  BY <1>1 DEF Ours, Clean, Own
<1>4. Bit(writing' \in Own) = 0 /\ Bit(call'[Executor].at = "putting") = 0 /\ Bit(call'[Executor].at = "waiting") = 0
  BY <1>1 DEF Bit
<1>. QED BY <1>1, <1>2, <1>3, <1>4 DEF Ours

LEMMA SumOf ==
  ASSUME NEW r \in Records, ExecInv
  PROVE  /\ Count(ring, With(r)) + GotOne(r) + Count(serve.todo, With(r)) + BatchOne(r)
              + InDb(r) + rows[r] + LostOnes(r) = Bit(r \in ended)
         /\ Count(ring, With(r)) \in Nat /\ GotOne(r) \in {0, 1} /\ Count(serve.todo, With(r)) \in Nat
         /\ BatchOne(r) \in {0, 1} /\ InDb(r) \in Nat /\ rows[r] \in Nat /\ LostOnes(r) \in Nat
         /\ Bit(r \in ended) \in {0, 1}
<1>1. Places(r) = Bit(r \in ended) /\ Typed /\ Ours
  BY DEF ExecInv, Accounts
<1>. QED BY <1>1, Numbers DEF Places

LEMMA ExecuteInv ==
  ASSUME DbTypeOK, ExecInv, NEW r \in Records, Execute(r)
  PROVE  ExecInv'
<1>1. /\ r \notin ended /\ ended' = ended \cup {r}
      /\ UNCHANGED <<dbvars, serve, stopping, rows, announced, faults>>
  BY DEF Execute
<1>2. Bit(r \in ended) = 0 /\ Bit(r \in ended') = 1
      /\ \A q \in Records : q # r => Bit(q \in ended') = Bit(q \in ended)
  BY <1>1 DEF Bit
<1>3. LostOnes(r) = 0
  <2>1. /\ Count(ring, With(r)) + GotOne(r) + Count(serve.todo, With(r)) + BatchOne(r)
              + InDb(r) + rows[r] + LostOnes(r) = Bit(r \in ended)
        /\ Count(ring, With(r)) \in Nat /\ GotOne(r) \in {0, 1} /\ Count(serve.todo, With(r)) \in Nat
        /\ BatchOne(r) \in {0, 1} /\ InDb(r) \in Nat /\ rows[r] \in Nat /\ LostOnes(r) \in Nat
    BY SumOf
  <2>2. Bit(r \in ended) = 0
    BY <1>2
  <2>. DEFINE a == Count(ring, With(r))   b == GotOne(r)   c == Count(serve.todo, With(r))   d == BatchOne(r)
              e == InDb(r)   f == rows[r]   g == LostOnes(r)
  <2>3. /\ a + b + c + d + e + f + g = 0
        /\ a \in Nat /\ b \in Nat /\ c \in Nat /\ d \in Nat /\ e \in Nat /\ f \in Nat /\ g \in Nat
    BY <2>1, <2>2
  <2>. HIDE DEF a, b, c, d, e, f, g
  <2>4. g = 0
    BY <2>3
  <2>. QED BY <2>4 DEF g
<1>4. /\ Hands' /\ Calling' /\ Ours' /\ Rowed' /\ AnnouncedHasRow'
      /\ \A q \in Records : GotOne(q)' = GotOne(q) /\ BatchOne(q)' = BatchOne(q) /\ InDb(q)' = InDb(q)
  <2>1. UNCHANGED <<queue, putting, writing, call, serve, rows, announced>>
    BY <1>1 DEF dbvars
  <2>2. Ours'
    BY <2>1, OursKept DEF ExecInv, Task
  <2>. QED BY <2>1, <2>2 DEF ExecInv, Hands, Calling, Rowed, Succeeded, AnnouncedHasRow, GotOne, BatchOne, InDb
<1>5. CASE /\ Len(ring) < TelemetryQueueMax
           /\ ring' = Append(ring, Item({r}, 0, TRUE))
           /\ Keep
  <2>1. Item({r}, 0, TRUE) \in Full /\ \A q : Bit(Item({r}, 0, TRUE) \in With(q)) = Bit(q = r)
    <3>1. Item({r}, 0, TRUE) \in ItemType
      BY Constants
    <3>2. Item({r}, 0, TRUE).records = {r}
      BY DEF Item
    <3>. QED BY <3>1, <3>2 DEF Full, With, Bit
  <2>2. ring \in Seq(Full) /\ Len(ring) \in Nat
    BY LenProperties DEF ExecInv, Typed
  <2>3. /\ ring' \in Seq(Full) /\ Len(ring') <= TelemetryQueueMax
        /\ \A q : Count(ring', With(q)) = Count(ring, With(q)) + Bit(q = r)
    <3>. DEFINE item == Item({r}, 0, TRUE)
    <3>1. item \in Full /\ ring' = Append(ring, item) /\ \A q : Bit(item \in With(q)) = Bit(q = r)
      BY <1>5, <2>1
    <3>. HIDE DEF item
    <3>2. ring' \in Seq(Full) /\ Len(ring') = Len(ring) + 1
      BY <2>2, <3>1, AppendProperties
    <3>3. \A q : Count(ring', With(q)) = Count(ring, With(q)) + Bit(item \in With(q))
      BY <2>2, <3>1, CountAppend
    <3>4. Len(ring') <= TelemetryQueueMax
      BY <1>5, <2>2, <3>2, Constants
    <3>. QED BY <3>1, <3>2, <3>3, <3>4
  <2>4. Typed'
    BY <1>1, <1>5, <2>3 DEF ExecInv, Typed, Keep
  <2>5. CountersTell'
    BY <1>1, <1>5 DEF ExecInv, CountersTell, Keep
  <2>6. Accounts'
    <3>. SUFFICES ASSUME NEW q \in Records PROVE Places(q)' = Bit(q \in ended')
      BY DEF Accounts
    <3>1. Places(q)' = Count(ring', With(q)) + GotOne(q)' + Count(serve'.todo, With(q)) + BatchOne(q)'
                         + InDb(q)' + rows'[q] + LostOnes(q)'
      BY DEF Places
    <3>2. LostOnes(q)' = LostOnes(q) /\ serve' = serve /\ rows' = rows
      BY <1>1, <1>5 DEF LostOnes, Keep
    <3>3. Count(ring', With(q)) = Count(ring, With(q)) + Bit(q = r) /\ Bit(q \in ended') = Bit(q \in ended) + Bit(q = r)
          /\ Bit(q = r) \in Nat
      BY <1>2, <2>3 DEF Bit
    <3>. QED BY <1>4, <3>1, <3>2, <3>3, SumOf
  <2>. QED BY <1>4, <2>4, <2>5, <2>6 DEF ExecInv
<1>6. CASE Drop("overflow", {r}) /\ UNCHANGED ring
  <2>1. lost \in LostType /\ {r} \in SUBSET Records /\ \A q \in {r} : LostOnes(q) = 0
    BY <1>3 DEF ExecInv, Typed, LostType
  <2>2. lost' \in LostType /\ \A q \in Records : LostOnes(q)' = LostOnes(q) + Bit(q \in {r})
    <3>1. lost' = Lost("overflow", {r}) /\ "overflow" \in Reasons
      BY <1>6 DEF Drop, Reasons
    <3>. QED BY <2>1, <3>1, LostMore
  <2>3. CountersTell' /\ drops' \in [overflow : Nat, exhausted : Nat]
    BY <1>1, <1>6, <2>1, DropCounts DEF ExecInv, Typed
  <2>4. Typed'
    BY <1>1, <1>6, <2>2, <2>3 DEF ExecInv, Typed, LostType
  <2>5. Accounts'
    <3>. SUFFICES ASSUME NEW q \in Records PROVE Places(q)' = Bit(q \in ended')
      BY DEF Accounts
    <3>1. Places(q)' = Count(ring', With(q)) + GotOne(q)' + Count(serve'.todo, With(q)) + BatchOne(q)'
                         + InDb(q)' + rows'[q] + LostOnes(q)'
      BY DEF Places
    <3>2. ring' = ring /\ serve' = serve /\ rows' = rows
      BY <1>1, <1>6
    <3>3. LostOnes(q)' = LostOnes(q) + Bit(q = r) /\ Bit(q \in ended') = Bit(q \in ended) + Bit(q = r)
          /\ Bit(q = r) \in Nat
      BY <1>2, <2>2 DEF Bit
    <3>. QED BY <1>4, <3>1, <3>2, <3>3, SumOf
  <2>. QED BY <1>4, <2>3, <2>4, <2>5 DEF ExecInv
<1>. QED BY <1>5, <1>6 DEF Execute


\* A backoff that elapses changes no item's records.
LEMMA DueItem ==
  ASSUME NEW item \in Full
  PROVE  /\ [item EXCEPT !.due = TRUE] \in Full
         /\ [item EXCEPT !.due = TRUE].records = item.records
         /\ \A r : [item EXCEPT !.due = TRUE] \in With(r) <=> item \in With(r)
<1>. DEFINE new == [item EXCEPT !.due = TRUE]
<1>1. new \in ItemType /\ new.records = item.records
  BY DEF Full, ItemType
<1>2. new \in Full
  BY <1>1 DEF Full
<1>. HIDE DEF new
<1>3. \A r : new \in With(r) <=> item \in With(r)
  BY <1>1, <1>2, FullItems
<1>. QED BY <1>1, <1>2, <1>3 DEF new

LEMMA DueIn ==
  ASSUME NEW s \in Seq(Full), NEW i \in DOMAIN s
  PROVE  LET t == [s EXCEPT ![i].due = TRUE]
         IN  t \in Seq(Full) /\ Len(t) = Len(s) /\ \A r : Count(t, With(r)) = Count(s, With(r))
<1>. DEFINE new == [s[i] EXCEPT !.due = TRUE]
            t == [s EXCEPT ![i] = new]
<1>1. i \in 1..Len(s) /\ s[i] \in Full /\ DOMAIN s = 1..Len(s)
  BY Elements
<1>2. new \in Full /\ \A r : new \in With(r) <=> s[i] \in With(r)
  BY <1>1, DueItem
<1>. HIDE DEF new
<1>3. t \in Seq(Full) /\ Len(t) = Len(s)
  BY <1>1, <1>2, ExceptSeq
<1>4. DOMAIN t = DOMAIN s /\ \A j \in DOMAIN s : t[j] = IF j = i THEN new ELSE s[j]
  OBVIOUS
<1>. HIDE DEF t
<1>5. \A r : Count(s, With(r)) = Count(t, With(r))
  <2>. SUFFICES ASSUME NEW r PROVE Count(s, With(r)) = Count(t, With(r))
    OBVIOUS
  <2>1. \A j \in DOMAIN s : s[j] \in With(r) <=> t[j] \in With(r)
    BY <1>2, <1>4
  <2>. QED BY <1>4, <2>1, CountSame
<1>. QED BY <1>3, <1>5 DEF t, new

LEMMA BackoffInv ==
  ASSUME DbTypeOK, ExecInv, BackoffElapses
  PROVE  ExecInv'
<1>1. UNCHANGED <<dbvars, ended, stopping, drops, lost, rows, announced, faults>>
  BY DEF BackoffElapses
<1>2. UNCHANGED <<queue, putting, writing, call>>
  BY <1>1 DEF dbvars
<1>3. CountersTell' /\ AnnouncedHasRow' /\ \A r : InDb(r)' = InDb(r) /\ LostOnes(r)' = LostOnes(r)
  BY <1>1, <1>2 DEF ExecInv, CountersTell, AnnouncedHasRow, InDb, LostOnes
<1>4. ring \in Seq(Full) /\ Len(ring) <= TelemetryQueueMax /\ serve \in ServeType /\ serve.todo \in Seq(Full)
      /\ serve.got \in Full \cup {None}
  BY DEF ExecInv, Typed, ServeType
<1>5. SUFFICES ASSUME /\ ring' \in Seq(Full) /\ Len(ring') = Len(ring)
                      /\ serve' \in ServeType
                      /\ serve'.at = serve.at /\ serve'.batch = serve.batch /\ serve'.op = serve.op
                      /\ serve'.got = None <=> serve.got = None
                      /\ serve'.todo = <<>> <=> serve.todo = <<>>
                      /\ \A r : /\ Count(ring', With(r)) = Count(ring, With(r))
                                /\ Count(serve'.todo, With(r)) = Count(serve.todo, With(r))
                                /\ GotOne(r)' = GotOne(r)
               PROVE  ExecInv'
  <2>1. CASE \E i \in DOMAIN ring : /\ ~ring[i].due
                                    /\ ring' = [ring EXCEPT ![i].due = TRUE]
                                    /\ UNCHANGED serve
    <3>1. PICK i \in DOMAIN ring : ring' = [ring EXCEPT ![i].due = TRUE]
      BY <2>1
    <3>. DEFINE new == [ring EXCEPT ![i].due = TRUE]
    <3>2. new \in Seq(Full) /\ Len(new) = Len(ring) /\ \A r : Count(new, With(r)) = Count(ring, With(r))
      BY <1>4, DueIn
    <3>3. ring' = new
      BY <3>1
    <3>. HIDE DEF new
    <3>4. serve' = serve
      BY <2>1
    <3>5. \A r : GotOne(r)' = GotOne(r)
      BY <3>4 DEF GotOne
    <3>. QED BY <1>4, <1>5, <3>2, <3>3, <3>4, <3>5
  <2>2. CASE /\ serve.got # None
             /\ serve' = [serve EXCEPT !.got.due = TRUE]
             /\ UNCHANGED ring
    <3>. DEFINE new == [serve.got EXCEPT !.due = TRUE]
    <3>1. serve.got \in Full
      BY <1>4, <2>2
    <3>2. new \in Full /\ new.records = serve.got.records
      BY <3>1, DueItem
    <3>. HIDE DEF new
    <3>3. serve' = [serve EXCEPT !.got = new]
      BY <2>2 DEF new
    <3>4. /\ serve' \in ServeType /\ serve'.got = new /\ serve'.todo = serve.todo
          /\ serve'.at = serve.at /\ serve'.batch = serve.batch /\ serve'.op = serve.op
      BY <1>4, <3>2, <3>3 DEF ServeType
    <3>5. serve'.got # None
      BY <3>2, <3>4, FullItems
    <3>6. \A r : GotOne(r)' = GotOne(r)
      BY <2>2, <3>2, <3>4, <3>5 DEF GotOne
    <3>. QED BY <1>4, <1>5, <2>2, <3>4, <3>5, <3>6
  <2>3. CASE \E i \in DOMAIN serve.todo : /\ serve' = [serve EXCEPT !.todo[i].due = TRUE]
                                          /\ UNCHANGED ring
    <3>1. PICK i \in DOMAIN serve.todo : serve' = [serve EXCEPT !.todo[i].due = TRUE]
      BY <2>3
    <3>. DEFINE new == [serve.todo EXCEPT ![i].due = TRUE]
    <3>2. new \in Seq(Full) /\ Len(new) = Len(serve.todo) /\ \A r : Count(new, With(r)) = Count(serve.todo, With(r))
      BY <1>4, DueIn
    <3>3. new # <<>> /\ serve.todo # <<>>
      <4>1. i \in 1..Len(serve.todo) /\ Len(serve.todo) \in Nat
        BY <1>4, Elements
      <4>. HIDE DEF new
      <4>2. Len(new) # 0 /\ Len(serve.todo) # 0
        BY <3>2, <4>1
      <4>. QED BY <4>2
    <3>. HIDE DEF new
    <3>4. serve' = [serve EXCEPT !.todo = new]
      BY <3>1 DEF new
    <3>5. /\ serve' \in ServeType /\ serve'.got = serve.got /\ serve'.todo = new
          /\ serve'.at = serve.at /\ serve'.batch = serve.batch /\ serve'.op = serve.op
      BY <1>4, <3>2, <3>4 DEF ServeType
    <3>6. \A r : GotOne(r)' = GotOne(r)
      BY <3>5 DEF GotOne
    <3>. QED BY <1>4, <1>5, <2>3, <3>2, <3>3, <3>5, <3>6
  <2>. QED BY <2>1, <2>2, <2>3 DEF BackoffElapses
<1>6. Typed'
  BY <1>1, <1>4, <1>5 DEF ExecInv, Typed
<1>7. Hands' /\ Calling' /\ Rowed'
  BY <1>1, <1>2, <1>5 DEF ExecInv, Hands, Calling, Rowed, Succeeded
<1>8. Ours'
  BY <1>2, <1>5, OursKept DEF ExecInv, Task
<1>9. Accounts'
  <2>. SUFFICES ASSUME NEW r \in Records PROVE Places(r)' = Bit(r \in ended')
    BY DEF Accounts
  <2>1. Places(r)' = Count(ring', With(r)) + GotOne(r)' + Count(serve'.todo, With(r)) + BatchOne(r)'
                       + InDb(r)' + rows'[r] + LostOnes(r)'
    BY DEF Places
  <2>2. BatchOne(r)' = BatchOne(r) /\ rows' = rows /\ ended' = ended
    BY <1>1, <1>5 DEF BatchOne
  <2>. QED BY <1>3, <1>5, <2>1, <2>2, SumOf
<1>. QED BY <1>3, <1>6, <1>7, <1>8, <1>9 DEF ExecInv


\* A step of serve() that leaves the writes alone is right if it moves records
\* from one of its places to another.
Mine(r) == Count(ring, With(r)) + GotOne(r) + Count(serve.todo, With(r)) + BatchOne(r) + LostOnes(r)

LEMMA ServeMoves ==
  ASSUME ExecInv, UNCHANGED <<queue, putting, writing, ended, rows, announced, faults>>, stopping' \in BOOLEAN,
         call[Executor].at \in {"idle", "back"}, call'[Executor].at \in {"idle", "back"},
         ring' \in Seq(Full), Len(ring') <= TelemetryQueueMax, serve' \in ServeType,
         lost' \in LostType, drops' \in [overflow : Nat, exhausted : Nat], CountersTell',
         Hands', Calling', Rowed',
         \A r \in Records : Mine(r)' = Mine(r) /\ LostOnes(r)' \in Nat
  PROVE  ExecInv'
<1>1. Typed'
  BY DEF ExecInv, Typed, LostType
<1>2. Ours'
  BY OursFree DEF ExecInv
<1>3. AnnouncedHasRow'
  BY DEF ExecInv, AnnouncedHasRow
<1>4. Accounts'
  <2>. SUFFICES ASSUME NEW r \in Records PROVE Places(r)' = Bit(r \in ended')
    BY DEF Accounts
  <2>1. Places(r)' = Count(ring', With(r)) + GotOne(r)' + Count(serve'.todo, With(r)) + BatchOne(r)'
                       + InDb(r)' + rows'[r] + LostOnes(r)'
    BY DEF Places
  <2>2. InDb(r)' = InDb(r) /\ rows' = rows /\ ended' = ended
    BY DEF InDb
  <2>3. Count(ring', With(r)) + GotOne(r)' + Count(serve'.todo, With(r)) + BatchOne(r)' + LostOnes(r)'
          = Count(ring, With(r)) + GotOne(r) + Count(serve.todo, With(r)) + BatchOne(r) + LostOnes(r)
    BY DEF Mine
  <2>4. Count(ring', With(r)) \in Nat /\ Count(serve'.todo, With(r)) \in Nat
    <3>1. serve'.todo \in Seq(Full)
      BY DEF ServeType
    <3>. QED BY <3>1, CountType
  <2>5. GotOne(r)' \in Nat /\ BatchOne(r)' \in Nat /\ LostOnes(r)' \in Nat
    <3>1. GotOne(r)' \in Nat /\ BatchOne(r)' \in Nat
      BY DEF GotOne, BatchOne, Bit
    <3>. QED BY <3>1
  <2>6. /\ Count(ring, With(r)) + GotOne(r) + Count(serve.todo, With(r)) + BatchOne(r)
             + InDb(r) + rows[r] + LostOnes(r) = Bit(r \in ended)
        /\ Count(ring, With(r)) \in Nat /\ GotOne(r) \in {0, 1} /\ Count(serve.todo, With(r)) \in Nat
        /\ BatchOne(r) \in {0, 1} /\ InDb(r) \in Nat /\ rows[r] \in Nat /\ LostOnes(r) \in Nat
        /\ Bit(r \in ended) \in {0, 1}
    BY SumOf
  <2>. DEFINE a == Count(ring, With(r))    b == GotOne(r)    c == Count(serve.todo, With(r))    d == BatchOne(r)
              e == LostOnes(r)   f == InDb(r)   g == rows[r]   h == Bit(r \in ended)
              aa == Count(ring', With(r))  bb == GotOne(r)'  cc == Count(serve'.todo, With(r))  dd == BatchOne(r)'
              ee == LostOnes(r)'
  <2>7. /\ a \in Nat /\ b \in Nat /\ c \in Nat /\ d \in Nat /\ e \in Nat /\ f \in Nat /\ g \in Nat
        /\ aa \in Nat /\ bb \in Nat /\ cc \in Nat /\ dd \in Nat /\ ee \in Nat
        /\ aa + bb + cc + dd + ee = a + b + c + d + e
        /\ a + b + c + d + f + g + e = h
    <3>1. b \in Nat /\ d \in Nat
      BY DEF GotOne, BatchOne, Bit
    <3>2. a + b + c + d + f + g + e = h
      BY <2>6
    <3>3. aa + bb + cc + dd + ee = a + b + c + d + e
      BY <2>3
    <3>. QED BY <2>4, <2>5, <2>6, <3>1, <3>2, <3>3
  <2>8. aa + bb + cc + dd + f + g + ee = h
    <3>. HIDE DEF a, b, c, d, e, f, g, h, aa, bb, cc, dd, ee
    <3>. QED BY ONLY <2>7
  <2>. QED BY <2>1, <2>2, <2>8
<1>. QED BY <1>1, <1>2, <1>3, <1>4 DEF ExecInv

LEMMA GetItemInv ==
  ASSUME ExecInv, GetItem
  PROVE  ExecInv'
<1>1. /\ serve.at = "waiting" /\ serve.got = None /\ ring # <<>>
      /\ serve' = [serve EXCEPT !.got = Head(ring)] /\ ring' = Tail(ring)
      /\ UNCHANGED <<queue, putting, writing, call, ended, stopping, drops, lost, rows, announced, faults>>
  BY DEF GetItem, dbvars
<1>2. ring \in Seq(Full) /\ Len(ring) <= TelemetryQueueMax /\ Len(ring) \in Nat /\ serve \in ServeType
      /\ call[Executor] = Idle /\ stopping \in BOOLEAN
  BY <1>1, LenProperties DEF ExecInv, Typed, Calling
<1>3. /\ Head(ring) \in Full /\ Tail(ring) \in Seq(Full) /\ Len(Tail(ring)) = Len(ring) - 1
      /\ \A V : Count(ring, V) = Bit(Head(ring) \in V) + Count(Tail(ring), V)
  BY <1>1, <1>2, CountHead
<1>. DEFINE item == Head(ring)
<1>4. serve' = [serve EXCEPT !.got = item] /\ item \in Full /\ item # None
  BY <1>1, <1>3, FullItems
<1>5. ring' \in Seq(Full) /\ Len(ring') <= TelemetryQueueMax
  BY <1>1, <1>2, <1>3, Constants
<1>. HIDE DEF item
<1>6. /\ serve' \in ServeType /\ serve'.at = "waiting" /\ serve'.got = item /\ serve'.todo = serve.todo
      /\ serve'.batch = serve.batch
  BY <1>1, <1>2, <1>4 DEF ServeType
<1>7. Hands' /\ Calling' /\ Rowed' /\ CountersTell'
  BY <1>1, <1>2, <1>6 DEF ExecInv, Hands, Calling, Rowed, CountersTell
<1>8. ASSUME NEW r \in Records PROVE Mine(r)' = Mine(r) /\ LostOnes(r)' \in Nat
  <2>1. Count(ring, With(r)) = Bit(item \in With(r)) + Count(ring', With(r))
    BY <1>1, <1>3 DEF item
  <2>2. GotOne(r) = 0 /\ GotOne(r)' = Bit(item \in With(r))
    <3>1. item \in With(r) <=> r \in item.records
      BY <1>4, FullItems
    <3>. QED BY <1>1, <1>4, <1>6, <3>1 DEF GotOne, Bit
  <2>3. BatchOne(r)' = 0 /\ BatchOne(r) = 0 /\ LostOnes(r)' = LostOnes(r) /\ serve'.todo = serve.todo
    BY <1>1, <1>6 DEF BatchOne, LostOnes, Bit
  <2>4. /\ Mine(r) = Count(ring, With(r)) + GotOne(r) + Count(serve.todo, With(r)) + BatchOne(r) + LostOnes(r)
        /\ Mine(r)' = Count(ring', With(r)) + GotOne(r)' + Count(serve'.todo, With(r)) + BatchOne(r)' + LostOnes(r)'
    BY DEF Mine
  <2>5. Count(ring', With(r)) \in Nat /\ Bit(item \in With(r)) \in Nat
    BY <1>5, CountType DEF Bit
  <2>6. Count(serve.todo, With(r)) \in Nat /\ LostOnes(r) \in Nat
    BY SumOf
  <2>. QED BY <2>1, <2>2, <2>3, <2>4, <2>5, <2>6
<1>9. lost' \in LostType /\ drops' \in [overflow : Nat, exhausted : Nat] /\ stopping' \in BOOLEAN
      /\ call[Executor].at = "idle" /\ call'[Executor].at = "idle"
  BY <1>1, <1>2 DEF ExecInv, Typed, LostType, Idle
<1>. QED BY <1>1, <1>5, <1>6, <1>7, <1>8, <1>9, ServeMoves

LEMMA WakesInv ==
  ASSUME ExecInv, Wakes
  PROVE  ExecInv'
<1>1. /\ serve.at = "waiting" /\ serve' = [serve EXCEPT !.at = "reaping"]
      /\ UNCHANGED <<queue, putting, writing, call, ring, ended, stopping, drops, lost, rows, announced, faults>>
  BY DEF Wakes, dbvars
<1>2. serve \in ServeType /\ call[Executor] = Idle /\ call[Executor].at = "idle"
  BY <1>1 DEF ExecInv, Typed, Calling, Idle
<1>3. /\ serve' \in ServeType /\ serve'.at = "reaping" /\ serve'.got = serve.got /\ serve'.todo = serve.todo
      /\ serve'.batch = serve.batch
  BY <1>1, <1>2 DEF ServeType, States
<1>4. Hands' /\ Calling' /\ Rowed' /\ CountersTell'
  BY <1>1, <1>2, <1>3 DEF ExecInv, Hands, Calling, Rowed, CountersTell
<1>5. ASSUME NEW r \in Records PROVE Mine(r)' = Mine(r) /\ LostOnes(r)' \in Nat
  <2>1. GotOne(r)' = GotOne(r) /\ BatchOne(r)' = BatchOne(r) /\ LostOnes(r)' = LostOnes(r)
    BY <1>1, <1>3 DEF GotOne, BatchOne, LostOnes
  <2>. QED BY <1>1, <1>3, <2>1, SumOf DEF Mine
<1>6. /\ lost' \in LostType /\ drops' \in [overflow : Nat, exhausted : Nat] /\ stopping' \in BOOLEAN
      /\ ring' \in Seq(Full) /\ Len(ring') <= TelemetryQueueMax
  BY <1>1 DEF ExecInv, Typed, LostType
<1>. QED BY <1>1, <1>2, <1>3, <1>4, <1>5, <1>6, ServeMoves


\* At shutdown the item serve() had taken goes back, or is given up.
LEMMA ReturnInv ==
  ASSUME ExecInv, Reaped, stopping
  PROVE  ExecInv'
<1>1. /\ serve.at = "reaping"
      /\ serve' = [serve EXCEPT !.at = "flushing", !.got = None, !.flush = TRUE]
      /\ UNCHANGED <<queue, putting, writing, call, ended, stopping, rows, announced, faults>>
      /\ \/ /\ serve.got = None
            /\ Keep /\ UNCHANGED ring
         \/ /\ serve.got # None /\ Len(ring) < TelemetryQueueMax
            /\ ring' = Append(ring, serve.got)
            /\ Keep
         \/ /\ serve.got # None
            /\ lost' = Lost("overflow", serve.got.records)
            /\ drops' = Counted("overflow", 1)
            /\ UNCHANGED ring
  BY DEF Reaped, dbvars
<1>2. /\ ring \in Seq(Full) /\ Len(ring) <= TelemetryQueueMax /\ Len(ring) \in Nat /\ serve \in ServeType
      /\ call[Executor].at = "idle" /\ serve.todo = <<>> /\ lost \in LostType
      /\ drops \in [overflow : Nat, exhausted : Nat] /\ serve.got \in Full \cup {None} /\ CountersTell
  <2>1. ring \in Seq(Full)
    BY DEF ExecInv, Typed
  <2>2. Len(ring) \in Nat
    BY <2>1, LenProperties
  <2>. QED BY <1>1, <2>1, <2>2 DEF ExecInv, Typed, Calling, Hands, Idle, LostType, ServeType
<1>3. /\ serve' \in ServeType /\ serve'.at = "flushing" /\ serve'.got = None /\ serve'.todo = serve.todo
  BY <1>1, <1>2 DEF ServeType, States
<1>4. Hands' /\ Calling' /\ Rowed' /\ \A r : GotOne(r)' = 0 /\ BatchOne(r)' = 0 /\ BatchOne(r) = 0
  BY <1>1, <1>2, <1>3 DEF ExecInv, Hands, Calling, Rowed, GotOne, BatchOne, Bit
<1>5. stopping' \in BOOLEAN /\ call'[Executor].at = "idle"
  BY <1>1, <1>2 DEF ExecInv, Typed
<1>6. ASSUME NEW r \in Records
      PROVE  /\ Mine(r) = Count(ring, With(r)) + GotOne(r) + Count(serve.todo, With(r)) + 0 + LostOnes(r)
             /\ Mine(r)' = Count(ring', With(r)) + 0 + Count(serve.todo, With(r)) + 0 + LostOnes(r)'
             /\ Count(ring, With(r)) \in Nat /\ GotOne(r) \in Nat /\ Count(serve.todo, With(r)) \in Nat
             /\ LostOnes(r) \in Nat
  <2>1. Count(ring, With(r)) \in Nat /\ Count(serve.todo, With(r)) \in Nat /\ LostOnes(r) \in Nat
    BY SumOf
  <2>2. GotOne(r) \in Nat
    BY DEF GotOne, Bit
  <2>. QED BY <1>3, <1>4, <2>1, <2>2 DEF Mine
<1>7. CASE serve.got = None /\ Keep /\ UNCHANGED ring
  <2>1. lost' \in LostType /\ drops' \in [overflow : Nat, exhausted : Nat] /\ CountersTell'
    BY <1>1, <1>2, <1>7 DEF Keep, CountersTell
  <2>2. \A r \in Records : Mine(r)' = Mine(r) /\ LostOnes(r)' \in Nat
    <3>1. \A r : GotOne(r) = 0 /\ LostOnes(r)' = LostOnes(r)
      BY <1>7 DEF GotOne, Bit, Keep, LostOnes
    <3>. QED BY <1>6, <1>7, <3>1
  <2>. QED BY <1>1, <1>2, <1>3, <1>4, <1>5, <1>7, <2>1, <2>2, ServeMoves
<1>8. CASE serve.got # None /\ Len(ring) < TelemetryQueueMax /\ ring' = Append(ring, serve.got) /\ Keep
  <2>1. lost' \in LostType /\ drops' \in [overflow : Nat, exhausted : Nat] /\ CountersTell'
    BY <1>1, <1>2, <1>8 DEF Keep, CountersTell
  <2>. DEFINE item == serve.got
  <2>2. item \in Full /\ item # None /\ ring' = Append(ring, item)
    BY <1>2, <1>8
  <2>3. \A r : GotOne(r) = Bit(item \in With(r)) /\ LostOnes(r)' = LostOnes(r)
    <3>1. \A r : item \in With(r) <=> r \in item.records
      BY <2>2, FullItems
    <3>. QED BY <1>8, <2>2, <3>1 DEF GotOne, Bit, Keep, LostOnes
  <2>. HIDE DEF item
  <2>4. ring' \in Seq(Full) /\ Len(ring') <= TelemetryQueueMax
    <3>1. ring' \in Seq(Full) /\ Len(ring') = Len(ring) + 1
      BY <1>2, <2>2, AppendProperties
    <3>. QED BY <1>2, <1>8, <3>1, Constants
  <2>5. \A r : Count(ring', With(r)) = Count(ring, With(r)) + Bit(item \in With(r))
    BY <1>2, <2>2, CountAppend
  <2>6. \A r \in Records : Mine(r)' = Mine(r) /\ LostOnes(r)' \in Nat
    <3>. SUFFICES ASSUME NEW r \in Records PROVE Mine(r)' = Mine(r) /\ LostOnes(r)' \in Nat
      OBVIOUS
    <3>1. GotOne(r) = Bit(item \in With(r)) /\ LostOnes(r)' = LostOnes(r)
          /\ Count(ring', With(r)) = Count(ring, With(r)) + Bit(item \in With(r))
      BY <2>3, <2>5
    <3>. QED BY <1>6, <3>1
  <2>. QED BY <1>1, <1>2, <1>3, <1>4, <1>5, <2>1, <2>4, <2>6, ServeMoves
<1>9. CASE /\ serve.got # None
           /\ lost' = Lost("overflow", serve.got.records)
           /\ drops' = Counted("overflow", 1)
           /\ UNCHANGED ring
  <2>. DEFINE S == serve.got.records
  <2>1. S \in SUBSET Records /\ S # {} /\ lost' = Lost("overflow", S) /\ "overflow" \in Reasons
    BY <1>2, <1>9, FullItems DEF Reasons
  <2>2. \A r : GotOne(r) = Bit(r \in S)
    BY <1>9 DEF GotOne, Bit
  <2>. HIDE DEF S
  <2>3. \A r \in S : LostOnes(r) = 0
    <3>. SUFFICES ASSUME NEW r \in S PROVE LostOnes(r) = 0
      OBVIOUS
    <3>1. r \in Records /\ GotOne(r) = 1
      BY <2>1, <2>2 DEF Bit
    <3>2. BatchOne(r) = 0
      BY <1>4
    <3>3. /\ Count(ring, With(r)) + GotOne(r) + Count(serve.todo, With(r)) + BatchOne(r)
               + InDb(r) + rows[r] + LostOnes(r) = Bit(r \in ended)
          /\ Count(ring, With(r)) \in Nat /\ Count(serve.todo, With(r)) \in Nat
          /\ InDb(r) \in Nat /\ rows[r] \in Nat /\ LostOnes(r) \in Nat
          /\ Bit(r \in ended) \in {0, 1}
      BY <3>1, SumOf
    <3>. DEFINE a == Count(ring, With(r))  c == Count(serve.todo, With(r))  f == InDb(r)  g == rows[r]
                e == LostOnes(r)  h == Bit(r \in ended)
    <3>4. /\ a + 1 + c + 0 + f + g + e = h /\ h \in {0, 1}
          /\ a \in Nat /\ c \in Nat /\ e \in Nat /\ f \in Nat /\ g \in Nat
      BY <3>1, <3>2, <3>3
    <3>5. e = 0
      <4>. HIDE DEF a, c, e, f, g, h
      <4>. QED BY ONLY <3>4
    <3>. QED BY <3>5
  <2>4. /\ lost' \in LostType
        /\ \A r \in Records : LostOnes(r)' = LostOnes(r) + Bit(r \in S)
        /\ S \cap lost["overflow"] = {}
    BY <1>2, <2>1, <2>3, LostMore
  <2>5. \A r \in Records : Mine(r)' = Mine(r) /\ LostOnes(r)' \in Nat
    <3>. SUFFICES ASSUME NEW r \in Records PROVE Mine(r)' = Mine(r) /\ LostOnes(r)' \in Nat
      OBVIOUS
    <3>1. LostOnes(r)' = LostOnes(r) + GotOne(r) /\ ring' = ring
      BY <1>9, <2>2, <2>4
    <3>. QED BY <1>6, <3>1
  <2>6. CountersTell' /\ drops' \in [overflow : Nat, exhausted : Nat]
    <3>1. IsFiniteSet(S) /\ Cardinality(S) \in Nat /\ Cardinality(S) # 0
      <4>1. IsFiniteSet(S) /\ Cardinality(S) \in Nat
        BY <2>1, Constants, FS_Subset, FS_CardinalityType
      <4>. QED BY <2>1, <4>1, FS_EmptySet
    <3>2. /\ drops'.overflow = drops.overflow + 1 /\ drops'.exhausted = drops.exhausted
          /\ drops' \in [overflow : Nat, exhausted : Nat]
      BY <1>2, <1>9 DEF Counted
    <3>3. lost'.overflow = lost.overflow \cup S /\ lost'.exhausted = lost.exhausted
      BY <1>2, <2>1 DEF Lost, LostType
    <3>4. IsFiniteSet(lost.overflow) /\ Cardinality(lost.overflow) \in Nat
      BY <1>2, LostFinite
    <3>5. Cardinality(lost.overflow \cup S) = Cardinality(lost.overflow) + Cardinality(S)
      <4>1. lost.overflow \cap S = {}
        BY <2>4
      <4>. QED BY <3>1, <3>4, <4>1, DisjointUnion
    <3>6. drops.overflow <= Cardinality(lost.overflow) /\ drops.exhausted = Cardinality(lost.exhausted)
      BY <1>2 DEF CountersTell
    <3>7. drops'.overflow <= Cardinality(lost'.overflow)
      <4>1. drops.overflow \in Nat
        BY <1>2
      <4>. QED BY <3>1, <3>2, <3>3, <3>4, <3>5, <3>6, <4>1
    <3>. QED BY <1>1, <3>2, <3>3, <3>6, <3>7 DEF CountersTell
  <2>7. ring' \in Seq(Full) /\ Len(ring') <= TelemetryQueueMax
    BY <1>2, <1>9
  <2>. QED BY <1>1, <1>2, <1>3, <1>4, <1>5, <2>4, <2>5, <2>6, <2>7, ServeMoves
<1>. QED BY <1>1, <1>7, <1>8, <1>9

\* The batch that serve() gives up.
LEMMA DroppedInv ==
  ASSUME ExecInv, serve.at \in {"persisting", "yielding"}, call[Executor].at = "back",
         serve' = [serve EXCEPT !.at = "dropping"],
         UNCHANGED <<dbvars, ring, ended, stopping, rows, announced, faults>>,
         NEW S \in SUBSET Records, \A r \in Records : r \in S <=> r \in serve.batch.records /\ rows[r] = 0,
         \/ Drop("exhausted", S)
         \/ lost' = Lost("logged", S) /\ UNCHANGED drops
  PROVE  ExecInv'
<1>1. UNCHANGED <<queue, putting, writing, call>>
  BY DEF dbvars
<1>2. /\ ring' \in Seq(Full) /\ Len(ring') <= TelemetryQueueMax /\ serve \in ServeType /\ serve.got = None
      /\ lost \in LostType /\ drops \in [overflow : Nat, exhausted : Nat] /\ CountersTell /\ stopping' \in BOOLEAN
  BY DEF ExecInv, Typed, Hands, LostType
<1>3. /\ serve' \in ServeType /\ serve'.at = "dropping" /\ serve'.got = None /\ serve'.todo = serve.todo
  BY <1>2 DEF ServeType, States
<1>4. Hands' /\ Calling' /\ Rowed' /\ \A r : GotOne(r)' = 0 /\ BatchOne(r)' = 0 /\ GotOne(r) = 0
  BY <1>1, <1>2, <1>3 DEF ExecInv, Hands, Calling, Rowed, GotOne, BatchOne, Bit
<1>5. \A r \in Records : BatchOne(r) = Bit(r \in S)
  BY DEF BatchOne, Bit
<1>6. \A r \in S : LostOnes(r) = 0
  <2>. SUFFICES ASSUME NEW r \in S PROVE LostOnes(r) = 0
    OBVIOUS
  <2>1. r \in Records /\ BatchOne(r) = 1 /\ GotOne(r) = 0
    BY <1>4, <1>5 DEF Bit
  <2>2. /\ Count(ring, With(r)) + GotOne(r) + Count(serve.todo, With(r)) + BatchOne(r)
             + InDb(r) + rows[r] + LostOnes(r) = Bit(r \in ended)
        /\ Count(ring, With(r)) \in Nat /\ Count(serve.todo, With(r)) \in Nat
        /\ InDb(r) \in Nat /\ rows[r] \in Nat /\ LostOnes(r) \in Nat
        /\ Bit(r \in ended) \in {0, 1}
    BY <2>1, SumOf
  <2>. DEFINE a == Count(ring, With(r))  c == Count(serve.todo, With(r))  f == InDb(r)  g == rows[r]
              e == LostOnes(r)  h == Bit(r \in ended)
  <2>3. /\ a + 0 + c + 1 + f + g + e = h /\ h \in {0, 1}
        /\ a \in Nat /\ c \in Nat /\ e \in Nat /\ f \in Nat /\ g \in Nat
    BY <2>1, <2>2
  <2>4. e = 0
    <3>. HIDE DEF a, c, e, f, g, h
    <3>. QED BY ONLY <2>3
  <2>. QED BY <2>4
<1>7. \E how \in {"exhausted", "logged"} : lost' = Lost(how, S)
  BY DEF Drop
<1>8. lost' \in LostType /\ \A r \in Records : LostOnes(r)' = LostOnes(r) + Bit(r \in S)
  <2>1. PICK how \in {"exhausted", "logged"} : lost' = Lost(how, S)
    BY <1>7
  <2>2. how \in Reasons
    BY DEF Reasons
  <2>. QED BY <1>2, <1>6, <2>1, <2>2, LostMore
<1>9. CountersTell' /\ drops' \in [overflow : Nat, exhausted : Nat]
  <2>1. CASE Drop("exhausted", S)
    BY <1>2, <1>6, <2>1, DropCounts
  <2>2. CASE lost' = Lost("logged", S) /\ UNCHANGED drops
    <3>1. lost'.overflow = lost.overflow /\ lost'.exhausted = lost.exhausted
      BY <1>2, <2>2 DEF Lost, LostType
    <3>. QED BY <1>2, <2>2, <3>1 DEF CountersTell
  <2>. QED BY <2>1, <2>2
<1>10. \A r \in Records : Mine(r)' = Mine(r) /\ LostOnes(r)' \in Nat
  <2>. SUFFICES ASSUME NEW r \in Records PROVE Mine(r)' = Mine(r) /\ LostOnes(r)' \in Nat
    OBVIOUS
  <2>1. /\ Mine(r) = Count(ring, With(r)) + GotOne(r) + Count(serve.todo, With(r)) + BatchOne(r) + LostOnes(r)
        /\ Mine(r)' = Count(ring', With(r)) + GotOne(r)' + Count(serve'.todo, With(r)) + BatchOne(r)' + LostOnes(r)'
    BY DEF Mine
  <2>2. Count(ring, With(r)) \in Nat /\ Count(serve.todo, With(r)) \in Nat /\ LostOnes(r) \in Nat
        /\ Bit(r \in S) \in Nat
    BY SumOf DEF Bit
  <2>3. /\ LostOnes(r)' = LostOnes(r) + Bit(r \in S) /\ ring' = ring /\ serve'.todo = serve.todo
        /\ GotOne(r) = 0 /\ GotOne(r)' = 0 /\ BatchOne(r)' = 0 /\ BatchOne(r) = Bit(r \in S)
    BY <1>3, <1>4, <1>5, <1>8
  <2>. QED BY <2>1, <2>2, <2>3
<1>. QED BY <1>1, <1>2, <1>3, <1>4, <1>8, <1>9, <1>10, ServeMoves


----------------------------------------------------------------------------
(* persist_batch() *)

\* What serve() knows when its submit() is back.
LEMMA BackKnows ==
  ASSUME ExecInv, Back
  PROVE  /\ serve.at = "persisting" /\ call[Executor].at = "back" /\ serve.got = None
         /\ serve.batch \in Full /\ serve.batch.records \subseteq Records
         /\ Result # "ok" => \A r \in serve.batch.records : rows[r] = 0
         /\ Result = "ok" => \A r \in serve.batch.records :
                                rows[r] = Bit(~(serve.op = "fallback" /\ r \in Orphans))
<1>1. serve.at = "persisting" /\ call[Executor].at = "back" /\ (Succeeded <=> Result = "ok")
  BY DEF Back, Succeeded, Result
<1>2. serve.got = None /\ serve.batch \in Full
  BY <1>1 DEF ExecInv, Hands
<1>3. serve.batch.records \subseteq Records
  BY <1>2, FullItems
<1>. QED BY <1>1, <1>2, <1>3 DEF ExecInv, Rowed

LEMMA PersistedInv ==
  ASSUME DbTypeOK, ExecInv, Persisted
  PROVE  ExecInv'
<1>1. Back /\ Result = "ok" /\ UNCHANGED <<ring, ended, stopping, rows, announced, faults>>
  BY DEF Persisted
<1>2. /\ serve.at = "persisting" /\ call[Executor].at = "back" /\ serve.got = None
      /\ serve.batch \in Full /\ serve.batch.records \subseteq Records
      /\ \A r \in serve.batch.records : rows[r] = Bit(~(serve.op = "fallback" /\ r \in Orphans))
  BY <1>1, BackKnows
<1>3. CASE /\ serve.op = "batch" \/ serve.batch.records \cap Orphans = {}
           /\ serve' = [serve EXCEPT !.at = "emitting"]
           /\ call' = [call EXCEPT ![Executor] = Idle]
           /\ Keep
           /\ UNCHANGED <<queue, putting, writing>>
  <2>1. \A r \in serve.batch.records : rows[r] = 1
    BY <1>2, <1>3 DEF Bit
  <2>2. call'[Executor] = Idle /\ call'[Executor].at = "idle"
    BY <1>3, Constants DEF DbTypeOK, Idle
  <2>3. /\ serve \in ServeType /\ ring' \in Seq(Full) /\ Len(ring') <= TelemetryQueueMax /\ stopping' \in BOOLEAN
        /\ lost' \in LostType /\ drops' \in [overflow : Nat, exhausted : Nat] /\ CountersTell'
    BY <1>1, <1>3 DEF ExecInv, Typed, Keep, LostType, CountersTell
  <2>4. /\ serve' \in ServeType /\ serve'.at = "emitting" /\ serve'.got = None /\ serve'.todo = serve.todo
        /\ serve'.batch = serve.batch
    BY <1>2, <1>3, <2>3 DEF ServeType, States
  <2>5. Hands' /\ Calling' /\ Rowed'
    BY <1>1, <2>1, <2>2, <2>4 DEF Hands, Calling, Rowed
  <2>6. \A r : GotOne(r)' = 0 /\ GotOne(r) = 0 /\ BatchOne(r)' = 0 /\ BatchOne(r) = 0 /\ LostOnes(r)' = LostOnes(r)
    BY <1>2, <1>3, <2>1, <2>4 DEF GotOne, BatchOne, Bit, Keep, LostOnes
  <2>7. \A r \in Records : Mine(r)' = Mine(r) /\ LostOnes(r)' \in Nat
    BY <1>1, <2>4, <2>6, SumOf DEF Mine
  <2>. QED BY <1>1, <1>2, <1>3, <2>2, <2>3, <2>4, <2>5, <2>7, ServeMoves
<1>4. CASE /\ serve.op = "fallback"
           /\ serve' = [serve EXCEPT !.at = "dropping"]
           /\ Drop("exhausted", serve.batch.records \cap Orphans)
           /\ UNCHANGED dbvars
  <2>. DEFINE S == serve.batch.records \cap Orphans
  <2>1. S \in SUBSET Records /\ Drop("exhausted", S)
    BY <1>2, <1>4
  <2>2. \A r \in Records : r \in S <=> r \in serve.batch.records /\ rows[r] = 0
    BY <1>2, <1>4 DEF Bit
  <2>. HIDE DEF S
  <2>. QED BY <1>1, <1>2, <1>4, <2>1, <2>2, DroppedInv
<1>. QED BY <1>3, <1>4 DEF Persisted

LEMMA OperationalErrorInv ==
  ASSUME DbTypeOK, ExecInv, OperationalError
  PROVE  ExecInv'
<1>1. Back /\ Result = "locked" /\ UNCHANGED <<dbvars, ended, ring, stopping, rows, announced, faults>>
  BY DEF OperationalError
<1>2. /\ serve.at = "persisting" /\ call[Executor].at = "back" /\ serve.got = None
      /\ serve.batch \in Full /\ serve.batch.records \subseteq Records
      /\ \A r \in serve.batch.records : rows[r] = 0
  BY <1>1, BackKnows
<1>3. CASE serve.batch.retry < MaxRetries /\ serve' = [serve EXCEPT !.at = "yielding"] /\ Keep
  <2>1. UNCHANGED <<queue, putting, writing, call>>
    BY <1>1 DEF dbvars
  <2>2. /\ serve \in ServeType /\ ring' \in Seq(Full) /\ Len(ring') <= TelemetryQueueMax /\ stopping' \in BOOLEAN
        /\ lost' \in LostType /\ drops' \in [overflow : Nat, exhausted : Nat] /\ CountersTell'
    BY <1>1, <1>3 DEF ExecInv, Typed, Keep, LostType, CountersTell
  <2>3. /\ serve' \in ServeType /\ serve'.at = "yielding" /\ serve'.got = None /\ serve'.todo = serve.todo
        /\ serve'.batch = serve.batch
    BY <1>2, <1>3, <2>2 DEF ServeType, States
  <2>4. Hands' /\ Calling' /\ Rowed'
    BY <1>1, <1>2, <1>3, <2>1, <2>3 DEF Hands, Calling, Rowed
  <2>5. \A r : GotOne(r)' = GotOne(r) /\ BatchOne(r)' = BatchOne(r) /\ LostOnes(r)' = LostOnes(r)
    BY <1>1, <1>2, <1>3, <2>3 DEF GotOne, BatchOne, Keep, LostOnes
  <2>6. \A r \in Records : Mine(r)' = Mine(r) /\ LostOnes(r)' \in Nat
    BY <1>1, <2>3, <2>5, SumOf DEF Mine
  <2>. QED BY <1>1, <1>2, <2>1, <2>2, <2>3, <2>4, <2>6, ServeMoves
<1>4. CASE serve' = [serve EXCEPT !.at = "dropping"] /\ Drop("exhausted", serve.batch.records)
  <2>. DEFINE S == serve.batch.records
  <2>1. S \in SUBSET Records /\ Drop("exhausted", S) /\ \A r \in Records : r \in S <=> r \in serve.batch.records /\ rows[r] = 0
    BY <1>2, <1>4
  <2>. HIDE DEF S
  <2>. QED BY <1>1, <1>2, <1>4, <2>1, DroppedInv
<1>. QED BY <1>3, <1>4 DEF OperationalError

LEMMA OtherErrorInv ==
  ASSUME DbTypeOK, ExecInv, OtherError
  PROVE  ExecInv'
<1>1. /\ Back /\ Result # "ok" /\ serve' = [serve EXCEPT !.at = "dropping"]
      /\ \/ lost' = Lost("logged", serve.batch.records) /\ UNCHANGED drops
         \/ Drop("exhausted", serve.batch.records)
      /\ UNCHANGED <<dbvars, ended, ring, stopping, rows, announced, faults>>
  BY DEF OtherError
<1>2. /\ serve.at = "persisting" /\ call[Executor].at = "back"
      /\ serve.batch.records \subseteq Records
      /\ \A r \in serve.batch.records : rows[r] = 0
  BY <1>1, BackKnows
<1>. DEFINE S == serve.batch.records
<1>3. /\ S \in SUBSET Records /\ \A r \in Records : r \in S <=> r \in serve.batch.records /\ rows[r] = 0
      /\ \/ Drop("exhausted", S)
         \/ lost' = Lost("logged", S) /\ UNCHANGED drops
  BY <1>1, <1>2
<1>. HIDE DEF S
<1>. QED BY <1>1, <1>2, <1>3, DroppedInv

LEMMA RequeueInv ==
  ASSUME DbTypeOK, ExecInv, Requeue
  PROVE  ExecInv'
<1>1. /\ serve.at = "yielding" /\ serve' = [serve EXCEPT !.at = "dropping"]
      /\ UNCHANGED <<dbvars, ended, stopping, rows, announced, faults>>
  BY DEF Requeue
<1>2. /\ call[Executor].at = "back" /\ serve.got = None /\ serve.batch \in Full
      /\ serve.batch.records \subseteq Records /\ \A r \in serve.batch.records : rows[r] = 0
      /\ serve.batch.retry < MaxRetries
  <2>1. call[Executor].at = "back" /\ serve.got = None /\ serve.batch \in Full /\ serve.batch.retry < MaxRetries
        /\ \A r \in serve.batch.records : rows[r] = 0
    BY <1>1 DEF ExecInv, Calling, Hands, Rowed
  <2>. QED BY <2>1, FullItems
<1>3. CASE /\ Len(ring) < TelemetryQueueMax
           /\ ring' = Append(ring, Item(serve.batch.records, serve.batch.retry + 1, FALSE))
           /\ Keep
  <2>1. UNCHANGED <<queue, putting, writing, call>>
    BY <1>1 DEF dbvars
  <2>2. /\ serve \in ServeType /\ ring \in Seq(Full) /\ stopping' \in BOOLEAN
        /\ lost' \in LostType /\ drops' \in [overflow : Nat, exhausted : Nat] /\ CountersTell'
    BY <1>1, <1>3 DEF ExecInv, Typed, Keep, LostType, CountersTell
  <2>. DEFINE item == Item(serve.batch.records, serve.batch.retry + 1, FALSE)
  <2>3. item \in Full /\ \A r : item \in With(r) <=> r \in serve.batch.records
    <3>1. serve.batch.retry \in 0..MaxRetries /\ serve.batch.records # {}
      BY <1>2, FullItems
    <3>2. serve.batch.retry + 1 \in 0..MaxRetries
      BY <1>2, <3>1, Constants
    <3>3. item \in ItemType /\ item.records = serve.batch.records
      BY <1>2, <3>2 DEF Item, ItemType
    <3>. HIDE DEF item
    <3>4. item \in Full
      BY <3>1, <3>3 DEF Full
    <3>. QED BY <3>3, <3>4, FullItems
  <2>4. ring' = Append(ring, item)
    BY <1>3
  <2>. HIDE DEF item
  <2>5. ring' \in Seq(Full) /\ Len(ring') <= TelemetryQueueMax
    <3>1. ring' \in Seq(Full) /\ Len(ring') = Len(ring) + 1
      BY <2>2, <2>3, <2>4, AppendProperties
    <3>2. Len(ring) \in Nat
      BY <2>2, LenProperties
    <3>3. Len(ring) < TelemetryQueueMax /\ TelemetryQueueMax \in Nat
      BY <1>3, Constants
    <3>. QED BY <3>1, <3>2, <3>3
  <2>6. /\ serve' \in ServeType /\ serve'.at = "dropping" /\ serve'.got = None /\ serve'.todo = serve.todo
    BY <1>1, <1>2, <2>2 DEF ServeType, States
  <2>7. Hands' /\ Calling' /\ Rowed'
    BY <1>2, <2>1, <2>6 DEF Hands, Calling, Rowed
  <2>8. \A r \in Records : Mine(r)' = Mine(r) /\ LostOnes(r)' \in Nat
    <3>. SUFFICES ASSUME NEW r \in Records PROVE Mine(r)' = Mine(r) /\ LostOnes(r)' \in Nat
      OBVIOUS
    <3>1. Count(ring', With(r)) = Count(ring, With(r)) + Bit(item \in With(r))
      BY <2>2, <2>3, <2>4, CountAppend
    <3>2. BatchOne(r) = Bit(item \in With(r)) /\ BatchOne(r)' = 0
      BY <1>1, <1>2, <2>3, <2>6 DEF BatchOne, Bit
    <3>3. GotOne(r)' = GotOne(r) /\ LostOnes(r)' = LostOnes(r) /\ serve'.todo = serve.todo /\ GotOne(r) = 0
      BY <1>2, <1>3, <2>6 DEF GotOne, Keep, LostOnes, Bit
    <3>4. /\ Mine(r) = Count(ring, With(r)) + GotOne(r) + Count(serve.todo, With(r)) + BatchOne(r) + LostOnes(r)
          /\ Mine(r)' = Count(ring', With(r)) + GotOne(r)' + Count(serve'.todo, With(r)) + BatchOne(r)' + LostOnes(r)'
      BY DEF Mine
    <3>5. Count(ring, With(r)) \in Nat /\ Count(serve.todo, With(r)) \in Nat /\ LostOnes(r) \in Nat
          /\ Bit(item \in With(r)) \in Nat
      BY SumOf DEF Bit
    <3>. QED BY <3>1, <3>2, <3>3, <3>4, <3>5
  <2>. QED BY <1>1, <1>2, <2>1, <2>2, <2>5, <2>6, <2>7, <2>8, ServeMoves
<1>4. CASE Drop("exhausted", serve.batch.records) /\ UNCHANGED ring
  <2>. DEFINE S == serve.batch.records
  <2>1. S \in SUBSET Records /\ Drop("exhausted", S) /\ \A r \in Records : r \in S <=> r \in serve.batch.records /\ rows[r] = 0
    BY <1>2, <1>4
  <2>. HIDE DEF S
  <2>. QED BY <1>1, <1>2, <1>4, <2>1, DroppedInv
<1>. QED BY <1>3, <1>4 DEF Requeue

\* The fallback is the second submit() of the same batch.
LEMMA IntegrityErrorInv ==
  ASSUME DbTypeOK, ExecInv, IntegrityError
  PROVE  ExecInv'
<1>. DEFINE w == [op |-> "fallback", records |-> serve.batch.records]
<1>1. /\ Back /\ Result = "constraint" /\ serve' = [serve EXCEPT !.op = "fallback"]
      /\ Submit(Executor, w)
      /\ UNCHANGED <<writing, ended, ring, stopping, drops, lost, rows, announced, faults>>
  BY DEF IntegrityError
<1>2. /\ serve.at = "persisting" /\ call[Executor].at = "back" /\ serve.got = None
      /\ serve.batch \in Full /\ serve.batch.records \subseteq Records
      /\ \A r \in serve.batch.records : rows[r] = 0
  BY <1>1, BackKnows
<1>3. /\ serve \in ServeType /\ Typed /\ Ours
  BY DEF ExecInv, Typed
<1>4. /\ serve' \in ServeType /\ serve'.at = "persisting" /\ serve'.got = None /\ serve'.todo = serve.todo
      /\ serve'.batch = serve.batch /\ serve'.op = "fallback"
  BY <1>1, <1>2, <1>3 DEF ServeType
<1>5. w \in Writes /\ Task' = w
  BY <1>2, <1>4, Constants DEF Task
<1>. HIDE DEF w
<1>6. /\ queue' \in Seq(Clean(w)) /\ putting' \in Seq(Clean(w)) /\ writing' \in Clean(w) \cup {None}
      /\ Count(putting', Own) = Bit(call'[Executor].at = "putting")
      /\ Count(queue', Own) + Bit(writing' \in Own) = Bit(call'[Executor].at = "waiting")
      /\ \A r : Count(queue', Loose(r)) = Count(queue, Loose(r))
      /\ call'[Executor].at \in {"putting", "waiting", "back"}
      /\ ~Succeeded'
  BY <1>1, <1>2, <1>3, <1>5, SubmitOurs
<1>7. Typed'
  BY <1>1, <1>3, <1>4 DEF Typed
<1>8. Hands' /\ Calling' /\ Ours' /\ Rowed'
  BY <1>1, <1>2, <1>4, <1>5, <1>6 DEF Hands, Calling, Ours, Rowed
<1>9. CountersTell' /\ AnnouncedHasRow'
  BY <1>1 DEF ExecInv, CountersTell, AnnouncedHasRow
<1>10. Accounts'
  <2>. SUFFICES ASSUME NEW r \in Records PROVE Places(r)' = Bit(r \in ended')
    BY DEF Accounts
  <2>1. Places(r)' = Count(ring', With(r)) + GotOne(r)' + Count(serve'.todo, With(r)) + BatchOne(r)'
                       + InDb(r)' + rows'[r] + LostOnes(r)'
    BY DEF Places
  <2>2. GotOne(r)' = GotOne(r) /\ BatchOne(r)' = BatchOne(r) /\ LostOnes(r)' = LostOnes(r)
    BY <1>1, <1>2, <1>4 DEF GotOne, BatchOne, LostOnes
  <2>3. InDb(r)' = InDb(r)
    BY <1>1, <1>6 DEF InDb
  <2>. QED BY <1>1, <1>4, <2>1, <2>2, <2>3, SumOf
<1>. QED BY <1>7, <1>8, <1>9, <1>10 DEF ExecInv


----------------------------------------------------------------------------
(* Service.shutdown() *)

\* A write of serve()'s that serve() leaves behind.
LEMMA UnownedJob ==
  ASSUME NEW w, NEW v, NEW job \in Clean(w)
  PROVE  /\ Unowned(Executor, job) \in Clean(v) /\ Unowned(Executor, job) \notin Own
         /\ Unowned(Executor, job) \in Jobs
         /\ \A r : Unowned(Executor, job) \in Loose(r) <=> job \in Loose(r) \/ (job \in Own /\ r \in w.records)
<1>1. /\ job \in Jobs /\ (job \in Own <=> job.by = Executor)
      /\ \A r : (job \in Loose(r) <=> job.by = None /\ r \in job.what.records)
      /\ job \in Own => job.what = w
  BY CleanJobs
<1>2. CASE job.by = Executor
  <2>. DEFINE new == [job EXCEPT !.by = None]
  <2>1. Unowned(Executor, job) = new
    BY <1>2 DEF Unowned
  <2>2. new \in Jobs /\ new.by = None /\ new.what = w
    BY <1>1, <1>2 DEF Jobs
  <2>3. None \notin Others /\ None # Executor
    BY Constants
  <2>. HIDE DEF new
  <2>4. new \in Clean(v) /\ new \notin Own /\ \A r : new \in Loose(r) <=> r \in w.records
    BY <2>2, <2>3 DEF Clean, Own, Loose
  <2>5. job \in Own /\ \A r : job \notin Loose(r)
    BY <1>1, <1>2, <2>3
  <2>. QED BY <2>1, <2>2, <2>4, <2>5
<1>3. CASE job.by # Executor
  <2>1. Unowned(Executor, job) = job
    BY <1>3 DEF Unowned
  <2>2. job \in Clean(v) /\ job \notin Own
    BY <1>1, <1>3 DEF Clean
  <2>. QED BY <1>1, <2>1, <2>2
<1>. QED BY <1>2, <1>3

LEMMA UnownedSeq ==
  ASSUME NEW w, NEW v, NEW s \in Seq(Clean(w))
  PROVE  LET t == [i \in DOMAIN s |-> Unowned(Executor, s[i])]
         IN  /\ t \in Seq(Clean(v)) /\ Count(t, Own) = 0
             /\ \A r : Count(t, Loose(r)) = Count(s, Loose(r)) + IF r \in w.records THEN Count(s, Own) ELSE 0
<1>. DEFINE t == [i \in DOMAIN s |-> Unowned(Executor, s[i])]
<1>1. DOMAIN s = 1..Len(s) /\ Len(s) \in Nat /\ \A i \in DOMAIN s : s[i] \in Clean(w)
  BY Elements
<1>2. DOMAIN t = DOMAIN s /\ \A i \in DOMAIN s : t[i] = Unowned(Executor, s[i])
  OBVIOUS
<1>3. \A i \in DOMAIN s :
        /\ t[i] \in Clean(v) /\ t[i] \notin Own
        /\ \A r : t[i] \in Loose(r) <=> s[i] \in Loose(r) \/ (s[i] \in Own /\ r \in w.records)
  <2>. SUFFICES ASSUME NEW i \in DOMAIN s
                PROVE  /\ t[i] \in Clean(v) /\ t[i] \notin Own
                       /\ \A r : t[i] \in Loose(r) <=> s[i] \in Loose(r) \/ (s[i] \in Own /\ r \in w.records)
    OBVIOUS
  <2>1. s[i] \in Clean(w) /\ t[i] = Unowned(Executor, s[i])
    BY <1>1, <1>2
  <2>. DEFINE job == s[i]
  <2>2. job \in Clean(w)
    BY <2>1
  <2>. HIDE DEF t, job
  <2>3. /\ Unowned(Executor, job) \in Clean(v) /\ Unowned(Executor, job) \notin Own
        /\ \A r : Unowned(Executor, job) \in Loose(r) <=> job \in Loose(r) \/ (job \in Own /\ r \in w.records)
    BY ONLY <2>2, UnownedJob
  <2>. QED BY <2>1, <2>3 DEF job
<1>4. t \in Seq(Clean(v))
  <2>. DEFINE n == Len(s)
  <2>1. n \in Nat /\ t = [i \in 1..n |-> t[i]] /\ \A i \in 1..n : t[i] \in Clean(v)
    BY <1>1, <1>2, <1>3
  <2>. HIDE DEF n, t
  <2>2. t \in [1..n -> Clean(v)]
    BY <2>1
  <2>. QED BY <2>1, <2>2
<1>. HIDE DEF t
<1>5. Count(t, Own) = 0
  BY <1>2, <1>3, <1>4, CountZero
<1>6. ASSUME NEW r
      PROVE  Count(t, Loose(r)) = Count(s, Loose(r)) + IF r \in w.records THEN Count(s, Own) ELSE 0
  <2>1. CASE r \in w.records
    <3>1. \A i \in DOMAIN t : t[i] \in Loose(r) <=> s[i] \in Loose(r) \cup Own
      BY <1>2, <1>3, <2>1
    <3>2. Count(t, Loose(r)) = Count(s, Loose(r) \cup Own)
      BY <1>2, <3>1, CountSame
    <3>3. Loose(r) \cap Own = {}
      BY Constants DEF Loose, Own
    <3>4. Count(s, Loose(r) \cup Own) = Count(s, Loose(r)) + Count(s, Own)
      BY <3>3, CountBoth
    <3>. QED BY <2>1, <3>2, <3>4
  <2>2. CASE r \notin w.records
    <3>1. \A i \in DOMAIN t : t[i] \in Loose(r) <=> s[i] \in Loose(r)
      BY <1>2, <1>3, <2>2
    <3>2. Count(t, Loose(r)) = Count(s, Loose(r))
      BY <1>2, <3>1, CountSame
    <3>3. Count(s, Loose(r)) \in Nat
      BY CountType
    <3>. QED BY <2>2, <3>2, <3>3
  <2>. QED BY <2>1, <2>2
<1>. QED BY <1>4, <1>5, <1>6 DEF t

\* serve() is cancelled: the write it has submitted becomes nobody's.
LEMMA AbandonOurs ==
  ASSUME DbTypeOK, Typed, Ours, Abandon(Executor), NEW v
  PROVE  /\ queue' \in Seq(Clean(v)) /\ putting' \in Seq(Clean(v)) /\ writing' \in Clean(v) \cup {None}
         /\ Count(putting', Own) = 0 /\ Count(queue', Own) = 0 /\ writing' \notin Own
         /\ \A r \in Records :
               InDb(r)' = InDb(r) + Bit(call[Executor].at = "waiting" /\ r \in serve.batch.records)
         /\ call'[Executor] = Idle
<1>1. /\ queue \in Seq(Clean(Task)) /\ putting \in Seq(Clean(Task)) /\ writing \in Clean(Task) \cup {None}
      /\ Count(putting, Own) = Bit(call[Executor].at = "putting")
      /\ Count(queue, Own) + Bit(writing \in Own) = Bit(call[Executor].at = "waiting")
  BY DEF Ours
<1>2. Task.records = serve.batch.records
  BY DEF Task
<1>3. putting' \in Seq(Clean(v)) /\ Count(putting', Own) = 0
  <2>1. putting' \in Seq(Clean(Task)) /\ Count(putting', Own) = 0
    <3>1. CASE /\ call[Executor].at = "putting"
               /\ \E i \in DOMAIN putting : putting[i].by = Executor /\ putting' = RemoveAt(putting, i)
      <4>1. PICK i \in DOMAIN putting : putting[i].by = Executor /\ putting' = RemoveAt(putting, i)
        BY <3>1
      <4>2. putting[i] \in Own
        <5>1. putting[i] \in Clean(Task)
          BY <1>1, Elements
        <5>. QED BY <4>1, <5>1, CleanJobs
      <4>3. /\ RemoveAt(putting, i) \in Seq(Clean(Task))
            /\ Count(putting, Own) = Count(RemoveAt(putting, i), Own) + Bit(putting[i] \in Own)
        BY <1>1, CountRemove
      <4>4. Count(RemoveAt(putting, i), Own) \in Nat
        BY <4>3, CountType
      <4>5. Bit(putting[i] \in Own) = 1 /\ Count(putting, Own) = 1
        BY <1>1, <3>1, <4>2 DEF Bit
      <4>. QED BY <4>1, <4>3, <4>4, <4>5
    <3>2. CASE call[Executor].at # "putting" /\ UNCHANGED putting
      BY <1>1, <3>2 DEF Bit
    <3>. QED BY <3>1, <3>2 DEF Abandon
  <2>. QED BY <2>1, Reclean
<1>4. /\ queue' \in Seq(Clean(v)) /\ Count(queue', Own) = 0
      /\ \A r : Count(queue', Loose(r)) = Count(queue, Loose(r))
                                             + IF r \in Task.records THEN Count(queue, Own) ELSE 0
  <2>. DEFINE t == [i \in DOMAIN queue |-> Unowned(Executor, queue[i])]
  <2>1. queue' = t
    BY DEF Abandon
  <2>2. /\ t \in Seq(Clean(v)) /\ Count(t, Own) = 0
        /\ \A r : Count(t, Loose(r)) = Count(queue, Loose(r)) + IF r \in Task.records THEN Count(queue, Own) ELSE 0
    BY <1>1, UnownedSeq
  <2>. HIDE DEF t
  <2>. QED BY <2>1, <2>2
<1>5. /\ writing' \in Clean(v) \cup {None} /\ writing' \notin Own
      /\ \A r : Bit(writing' \in Loose(r)) = Bit(writing \in Loose(r))
                                               + IF r \in Task.records THEN Bit(writing \in Own) ELSE 0
  <2>1. CASE writing = None
    <3>1. writing' = None
      BY <2>1 DEF Abandon
    <3>2. None \notin Own /\ \A r : None \notin Loose(r)
      BY Constants DEF Own, Loose
    <3>. QED BY <2>1, <3>1, <3>2 DEF Bit
  <2>2. CASE writing # None
    <3>1. writing' = Unowned(Executor, writing) /\ writing \in Clean(Task)
      BY <1>1, <2>2 DEF Abandon
    <3>2. /\ writing' \in Clean(v) /\ writing' \notin Own
          /\ \A r : writing' \in Loose(r) <=> writing \in Loose(r) \/ (writing \in Own /\ r \in Task.records)
      BY <3>1, UnownedJob
    <3>3. \A r : ~(writing \in Loose(r) /\ writing \in Own)
      BY <3>1, CleanJobs
    <3>. QED BY <3>2, <3>3 DEF Bit
  <2>. QED BY <2>1, <2>2
<1>6. ASSUME NEW r \in Records
      PROVE  InDb(r)' = InDb(r) + Bit(call[Executor].at = "waiting" /\ r \in serve.batch.records)
  <2>1. InDb(r) = Count(queue, Loose(r)) + Bit(writing \in Loose(r))
        /\ InDb(r)' = Count(queue', Loose(r)) + Bit(writing' \in Loose(r))
    BY DEF InDb
  <2>2. /\ Count(queue, Loose(r)) \in Nat /\ Bit(writing \in Loose(r)) \in Nat
        /\ Count(queue, Own) \in Nat /\ Bit(writing \in Own) \in Nat
    BY <1>1, CountType DEF Bit
  <2>3. CASE r \in serve.batch.records
    <3>1. Bit(call[Executor].at = "waiting" /\ r \in serve.batch.records) = Count(queue, Own) + Bit(writing \in Own)
      BY <1>1, <2>3 DEF Bit
    <3>2. /\ Count(queue', Loose(r)) = Count(queue, Loose(r)) + Count(queue, Own)
          /\ Bit(writing' \in Loose(r)) = Bit(writing \in Loose(r)) + Bit(writing \in Own)
      BY <1>2, <1>4, <1>5, <2>3
    <3>. QED BY <2>1, <2>2, <3>1, <3>2
  <2>4. CASE r \notin serve.batch.records
    <3>1. Bit(call[Executor].at = "waiting" /\ r \in serve.batch.records) = 0
      BY <2>4 DEF Bit
    <3>2. /\ Count(queue', Loose(r)) = Count(queue, Loose(r)) + 0
          /\ Bit(writing' \in Loose(r)) = Bit(writing \in Loose(r)) + 0
      BY <1>2, <1>4, <1>5, <2>4
    <3>. QED BY <2>1, <2>2, <3>1, <3>2
  <2>. QED BY <2>3, <2>4
<1>7. call'[Executor] = Idle
  BY Constants DEF DbTypeOK, Abandon
<1>. QED BY <1>3, <1>4, <1>5, <1>6, <1>7


LEMMA CancelInv ==
  ASSUME DbTypeOK, ExecInv, ServeCancelled, stopping' = TRUE
  PROVE  ExecInv'
<1>1. /\ serve' = [Start EXCEPT !.at = "gone"] /\ lost' = Lost("cancelled", Held) /\ Abandon(Executor)
      /\ UNCHANGED <<ended, ring, drops, rows, announced, faults>>
  BY DEF ServeCancelled
<1>2. /\ serve \in ServeType /\ serve.todo \in Seq(Full) /\ serve.got \in Full \cup {None} /\ serve.batch \in ItemType
      /\ serve.batch.records \subseteq Records /\ lost \in LostType /\ CountersTell
  <2>1. serve \in ServeType /\ lost \in LostType /\ CountersTell
    BY DEF ExecInv, Typed, LostType
  <2>2. serve.todo \in Seq(Full) /\ serve.got \in Full \cup {None} /\ serve.batch \in ItemType
    BY <2>1 DEF ServeType
  <2>. QED BY <2>1, <2>2 DEF ItemType
<1>3. /\ serve' \in ServeType /\ serve'.at = "gone" /\ serve'.got = None /\ serve'.todo = <<>>
  BY <1>1, FullItems DEF Start, ServeType, States
<1>4. /\ queue' \in Seq(Clean(Task')) /\ putting' \in Seq(Clean(Task')) /\ writing' \in Clean(Task') \cup {None}
      /\ Count(putting', Own) = 0 /\ Count(queue', Own) = 0 /\ writing' \notin Own
      /\ \A r \in Records :
            InDb(r)' = InDb(r) + Bit(call[Executor].at = "waiting" /\ r \in serve.batch.records)
      /\ call'[Executor] = Idle
  <2>1. Typed /\ Ours
    BY DEF ExecInv
  <2>. QED BY <1>1, <2>1, AbandonOurs
<1>5. Ours'
  <2>1. Bit(writing' \in Own) = 0 /\ Bit(call'[Executor].at = "putting") = 0 /\ Bit(call'[Executor].at = "waiting") = 0
    BY <1>4 DEF Bit, Idle
  <2>. QED BY <1>4, <2>1 DEF Ours
<1>6. Hands' /\ Calling' /\ Rowed'
  BY <1>3, <1>4 DEF Hands, Calling, Rowed
<1>7. call[Executor].at = "waiting" <=> Submitted
  <2>1. serve.at \in States /\ Calling
    BY <1>2 DEF ExecInv, ServeType
  <2>2. call[Executor].at = "waiting" => serve.at = "persisting"
    BY <2>1 DEF Calling, Idle, States
  <2>. QED BY <2>2 DEF Submitted
<1>8. Submitted => \A r \in serve.batch.records : rows[r] = 0
  <2>1. Submitted => serve.at = "persisting" /\ ~Succeeded
    BY DEF Submitted, Succeeded
  <2>. QED BY <2>1 DEF ExecInv, Rowed
\* What each record is worth before and after.
<1>9. ASSUME NEW r \in Records
      PROVE  /\ r \in Held => LostOnes(r) = 0
             /\ Count(ring, With(r)) + InDb(r)' + rows[r] + LostOnes(r) + Bit(r \in Held) = Bit(r \in ended)
  <2>1. /\ Count(ring, With(r)) + GotOne(r) + Count(serve.todo, With(r)) + BatchOne(r)
             + InDb(r) + rows[r] + LostOnes(r) = Bit(r \in ended)
        /\ Count(ring, With(r)) \in Nat /\ Count(serve.todo, With(r)) \in Nat
        /\ InDb(r) \in Nat /\ rows[r] \in Nat /\ LostOnes(r) \in Nat
        /\ Bit(r \in ended) \in {0, 1} /\ GotOne(r) \in {0, 1} /\ BatchOne(r) \in {0, 1}
    BY SumOf
  <2>. DEFINE move == Bit(call[Executor].at = "waiting" /\ r \in serve.batch.records)
  <2>2. InDb(r)' = InDb(r) + move
    BY <1>4
  <2>3. move = IF Submitted THEN BatchOne(r) ELSE 0
    <3>1. CASE Submitted
      <4>1. serve.at = "persisting" /\ call[Executor].at = "waiting"
        BY <3>1 DEF Submitted
      <4>2. BatchOne(r) = Bit(r \in serve.batch.records)
        BY <1>8, <3>1, <4>1 DEF BatchOne, Bit
      <4>. QED BY <3>1, <4>1, <4>2 DEF Bit
    <3>2. CASE ~Submitted
      BY <1>7, <3>2 DEF Bit
    <3>. QED BY <3>1, <3>2
  <2>4. r \in Held <=> \/ GotOne(r) = 1
                       \/ Count(serve.todo, With(r)) # 0
                       \/ BatchOne(r) = 1 /\ ~Submitted
    <3>1. r \in AllRecords(serve.todo) <=> Count(serve.todo, With(r)) # 0
      BY <1>2, ItemsCount
    <3>2. (serve.got # None /\ r \in serve.got.records) <=> GotOne(r) = 1
      BY DEF GotOne, Bit
    <3>3. (serve.at \in {"persisting", "yielding"} /\ r \in serve.batch.records /\ rows[r] = 0) <=> BatchOne(r) = 1
      BY DEF BatchOne, Bit
    <3>4. r \in Held <=> \/ serve.got # None /\ r \in serve.got.records
                         \/ r \in AllRecords(serve.todo)
                         \/ serve.at \in {"persisting", "yielding"} /\ ~Submitted /\ r \in serve.batch.records /\ rows[r] = 0
      BY DEF Held
    <3>. QED BY <3>1, <3>2, <3>3, <3>4
  <2>. DEFINE a == Count(ring, With(r))  b == GotOne(r)  c == Count(serve.todo, With(r))  d == BatchOne(r)
              e == InDb(r)  f == rows[r]  g == LostOnes(r)  h == Bit(r \in ended)  x == Bit(r \in Held)
  <2>5. /\ a + b + c + d + e + f + g = h
        /\ a \in Nat /\ b \in {0, 1} /\ c \in Nat /\ d \in {0, 1} /\ e \in Nat /\ f \in Nat /\ g \in Nat /\ h \in {0, 1}
    BY <2>1
  <2>. HIDE DEF move
  <2>6. /\ x \in {0, 1}
        /\ x = 1 <=> r \in Held
        /\ x = 1 <=> b = 1 \/ c # 0 \/ (d = 1 /\ ~Submitted)
        /\ move = IF Submitted THEN d ELSE 0
    <3>1. x \in {0, 1} /\ (x = 1 <=> r \in Held)
      BY DEF Bit
    <3>. QED BY <2>3, <2>4, <3>1
  <2>. HIDE DEF a, b, c, d, e, f, g, h, x
  <2>7. (x = 1 => g = 0) /\ a + (e + move) + f + g + x = h
    <3>1. CASE Submitted
      BY ONLY <2>5, <2>6, <3>1
    <3>2. CASE ~Submitted
      BY ONLY <2>5, <2>6, <3>2
    <3>. QED BY <3>1, <3>2
  <2>8. (r \in Held => g = 0) /\ a + InDb(r)' + f + g + x = h
    BY <2>2, <2>6, <2>7 DEF e
  <2>. QED BY <2>8 DEF a, f, g, h, x
<1>10. Held \in SUBSET Records
  <2>1. AllRecords(serve.todo) \subseteq Records
    BY <1>2, ItemsCount
  <2>2. serve.got # None => serve.got.records \subseteq Records
    BY <1>2, FullItems
  <2>. QED BY <1>2, <2>1, <2>2 DEF Held
<1>11. lost' \in LostType /\ \A r \in Records : LostOnes(r)' = LostOnes(r) + Bit(r \in Held)
  <2>. DEFINE S == Held
  <2>1. lost' = Lost("cancelled", S) /\ S \in SUBSET Records /\ "cancelled" \in Reasons /\ \A r \in S : LostOnes(r) = 0
    BY <1>1, <1>9, <1>10 DEF Reasons
  <2>. HIDE DEF S
  <2>2. lost' \in LostType /\ \A r \in Records : LostOnes(r)' = LostOnes(r) + Bit(r \in S)
    BY <1>2, <2>1, LostMore
  <2>. QED BY <2>2 DEF S
<1>12. CountersTell'
  <2>1. lost'.overflow = lost.overflow /\ lost'.exhausted = lost.exhausted
    BY <1>1, <1>2 DEF Lost, LostType
  <2>. QED BY <1>1, <1>2, <2>1 DEF CountersTell
<1>13. Typed'
  BY <1>1, <1>3, <1>11 DEF ExecInv, Typed, LostType
<1>14. AnnouncedHasRow'
  BY <1>1 DEF ExecInv, AnnouncedHasRow
<1>15. Accounts'
  <2>. SUFFICES ASSUME NEW r \in Records PROVE Places(r)' = Bit(r \in ended')
    BY DEF Accounts
  <2>1. Places(r)' = Count(ring', With(r)) + GotOne(r)' + Count(serve'.todo, With(r)) + BatchOne(r)'
                       + InDb(r)' + rows'[r] + LostOnes(r)'
    BY DEF Places
  <2>2. GotOne(r)' = 0 /\ BatchOne(r)' = 0 /\ Count(serve'.todo, With(r)) = 0
    BY <1>3, CountEmpty DEF GotOne, BatchOne, Bit
  <2>3. Count(ring, With(r)) + InDb(r)' + rows[r] + LostOnes(r) + Bit(r \in Held) = Bit(r \in ended)
    BY <1>9
  <2>4. LostOnes(r)' = LostOnes(r) + Bit(r \in Held) /\ ring' = ring /\ rows' = rows /\ ended' = ended
    BY <1>1, <1>11
  <2>5. /\ Count(ring, With(r)) \in Nat /\ InDb(r)' \in Nat /\ rows[r] \in Nat /\ LostOnes(r) \in Nat
        /\ Bit(r \in Held) \in Nat
    <3>1. Count(ring, With(r)) \in Nat /\ InDb(r) \in Nat /\ rows[r] \in Nat /\ LostOnes(r) \in Nat
      BY SumOf
    <3>2. InDb(r)' = InDb(r) + Bit(call[Executor].at = "waiting" /\ r \in serve.batch.records)
      BY <1>4
    <3>3. Bit(call[Executor].at = "waiting" /\ r \in serve.batch.records) \in Nat /\ Bit(r \in Held) \in Nat
      BY DEF Bit
    <3>. QED BY <3>1, <3>2, <3>3
  <2>. QED BY <2>1, <2>2, <2>3, <2>4, <2>5
<1>. QED BY <1>5, <1>6, <1>12, <1>13, <1>14, <1>15 DEF ExecInv

LEMMA ShutdownInv ==
  ASSUME DbTypeOK, ExecInv, Shutdown \/ ShutdownTimesOut
  PROVE  ExecInv'
<1>1. CASE ServeCancelled /\ stopping' = TRUE
  BY <1>1, CancelInv
<1>2. CASE /\ stopping' = TRUE /\ ~stopping
           /\ UNCHANGED <<dbvars, ended, ring, serve, drops, lost, rows, announced, faults>>
  <2>1. UNCHANGED <<queue, putting, writing, call>>
    BY <1>2 DEF dbvars
  <2>2. Typed' /\ Hands' /\ Calling' /\ Rowed' /\ AnnouncedHasRow'
    BY <1>2, <2>1 DEF ExecInv, Typed, Hands, Calling, Rowed, Succeeded, AnnouncedHasRow
  <2>3. Ours'
    BY <1>2, <2>1, OursKept DEF ExecInv, Task
  <2>4. CountersTell'
    BY <1>2 DEF ExecInv, CountersTell
  <2>5. Accounts'
    BY <1>2, <2>1 DEF ExecInv, Accounts, Places, GotOne, BatchOne, InDb, LostOnes
  <2>. QED BY <2>2, <2>3, <2>4, <2>5 DEF ExecInv
<1>3. CASE Shutdown
  BY <1>1, <1>2, <1>3 DEF Shutdown
<1>4. CASE ShutdownTimesOut
  <2>1. stopping' = TRUE
    BY <1>4 DEF ShutdownTimesOut, ExecInv, Typed
  <2>. QED BY <1>1, <1>4, <2>1 DEF ShutdownTimesOut
<1>. QED BY <1>3, <1>4


----------------------------------------------------------------------------
(* The database's side *)

\* A step of the database that leaves the executor alone.
LEMMA DbMoves ==
  ASSUME ExecInv, UNCHANGED exvars,
         queue' \in Seq(Clean(Task)), putting' \in Seq(Clean(Task)), writing' \in Clean(Task) \cup {None},
         Count(putting', Own) = Bit(call'[Executor].at = "putting"),
         Count(queue', Own) + Bit(writing' \in Own) = Bit(call'[Executor].at = "waiting"),
         \A r \in Records : InDb(r)' = InDb(r),
         Calling', Succeeded' <=> Succeeded
  PROVE  ExecInv'
<1>1. UNCHANGED <<ended, ring, serve, stopping, drops, lost, rows, announced, faults>> /\ Task' = Task
  BY DEF exvars, Task
<1>2. Typed' /\ Hands' /\ Rowed' /\ CountersTell' /\ AnnouncedHasRow'
  BY <1>1 DEF ExecInv, Typed, Hands, Rowed, CountersTell, AnnouncedHasRow
<1>3. Ours'
  BY <1>1 DEF Ours
<1>4. Accounts'
  BY <1>1 DEF ExecInv, Accounts, Places, GotOne, BatchOne, LostOnes
<1>. QED BY <1>2, <1>3, <1>4 DEF ExecInv

\* Where serve() is while its write waits.
LEMMA InSubmit ==
  ASSUME ExecInv
  PROVE  call[Executor].at \in {"putting", "waiting"} => serve.at = "persisting" /\ ~Succeeded
<1>1. serve.at \in States /\ Calling
  BY DEF ExecInv, Typed, ServeType
<1>. QED BY <1>1 DEF Calling, Idle, States, Succeeded

LEMMA TakeWriteInv ==
  ASSUME DbTypeOK, ExecInv, TakeWrite
  PROVE  ExecInv'
<1>1. /\ writing = None /\ queue # <<>> /\ writing' = Head(queue) /\ UNCHANGED exvars
      /\ \/ /\ putting = <<>> /\ queue' = Tail(queue) /\ UNCHANGED <<putting, call>>
         \/ /\ putting # <<>>
            /\ queue' = Append(Tail(queue), Head(putting))
            /\ putting' = Tail(putting)
            /\ call' = Called(Head(putting).by, "waiting", None)
  BY DEF TakeWrite, Take
<1>2. /\ queue \in Seq(Clean(Task)) /\ putting \in Seq(Clean(Task))
      /\ Count(putting, Own) = Bit(call[Executor].at = "putting")
      /\ Count(queue, Own) + Bit(writing \in Own) = Bit(call[Executor].at = "waiting")
  BY DEF ExecInv, Ours
<1>3. /\ Head(queue) \in Clean(Task) /\ Tail(queue) \in Seq(Clean(Task))
      /\ \A V : Count(queue, V) = Bit(Head(queue) \in V) + Count(Tail(queue), V)
  BY <1>1, <1>2, CountHead
<1>4. Bit(writing \in Own) = 0 /\ \A r : Bit(writing \in Loose(r)) = 0
  BY <1>1, Constants DEF Own, Loose, Bit
<1>. DEFINE head == Head(queue)   tail == Tail(queue)
<1>5. \A V : Bit(head \in V) \in Nat /\ Count(tail, V) \in Nat
  BY <1>3, CountType DEF Bit
<1>6. /\ head \in Clean(Task) /\ tail \in Seq(Clean(Task))
      /\ \A V : Count(queue, V) = Bit(head \in V) + Count(tail, V)
      /\ writing' = head
  BY <1>1, <1>3
<1>7. CASE putting = <<>> /\ queue' = tail /\ UNCHANGED <<putting, call>>
  <2>. HIDE DEF head, tail
  <2>1. Count(queue', Own) + Bit(writing' \in Own) = Bit(call'[Executor].at = "waiting")
    BY <1>2, <1>4, <1>5, <1>6, <1>7
  <2>2. \A r \in Records : InDb(r)' = InDb(r)
    BY <1>4, <1>5, <1>6, <1>7 DEF InDb
  <2>3. Calling' /\ (Succeeded' <=> Succeeded)
    BY <1>1, <1>7 DEF ExecInv, Calling, Succeeded, exvars
  <2>. QED BY <1>1, <1>2, <1>6, <1>7, <2>1, <2>2, <2>3, DbMoves
<1>8. CASE /\ putting # <<>>
           /\ queue' = Append(tail, Head(putting))
           /\ putting' = Tail(putting)
           /\ call' = Called(Head(putting).by, "waiting", None)
  <2>1. /\ Head(putting) \in Clean(Task) /\ Tail(putting) \in Seq(Clean(Task))
        /\ \A V : Count(putting, V) = Bit(Head(putting) \in V) + Count(Tail(putting), V)
    BY <1>2, <1>8, CountHead
  <2>. DEFINE job == Head(putting)   later == Tail(putting)
  <2>2. job.by \in Callers /\ job.by # None
    <3>1. putting \in Seq([by : Callers, what : Writes])
      BY DEF DbTypeOK
    <3>2. job \in [by : Callers, what : Writes]
      BY <1>8, <3>1, CountHead
    <3>. QED BY <3>2, Constants
  <2>3. /\ job \in Clean(Task) /\ later \in Seq(Clean(Task))
        /\ \A V : Count(putting, V) = Bit(job \in V) + Count(later, V)
        /\ \A V : Bit(job \in V) \in Nat /\ Count(later, V) \in Nat
        /\ putting' = later /\ queue' = Append(tail, job) /\ call' = Called(job.by, "waiting", None)
    BY <1>8, <2>1, CountType DEF Bit
  <2>. HIDE DEF head, tail, job, later
  <2>4. (job \in Own <=> job.by = Executor) /\ \A r : job \notin Loose(r)
    BY <2>2, <2>3, CleanJobs
  <2>5. /\ queue' \in Seq(Clean(Task)) /\ \A V : Count(queue', V) = Count(tail, V) + Bit(job \in V)
    BY <1>6, <2>3, AppendProperties, CountAppend
  <2>6. \A r \in Records : InDb(r)' = InDb(r)
    <3>. SUFFICES ASSUME NEW r \in Records PROVE InDb(r)' = InDb(r)
      OBVIOUS
    <3>1. /\ Count(queue', Loose(r)) = Count(tail, Loose(r)) + Bit(job \in Loose(r))
          /\ Bit(job \in Loose(r)) = 0 /\ Bit(writing' \in Loose(r)) = Bit(head \in Loose(r))
          /\ Count(queue, Loose(r)) = Bit(head \in Loose(r)) + Count(tail, Loose(r))
      BY <1>6, <2>4, <2>5 DEF Bit
    <3>. QED BY <1>4, <1>5, <3>1 DEF InDb
  <2>7. /\ Count(putting', Own) = Bit(call'[Executor].at = "putting")
        /\ Count(queue', Own) + Bit(writing' \in Own) = Bit(call'[Executor].at = "waiting")
        /\ Calling' /\ (Succeeded' <=> Succeeded)
    <3>0. DOMAIN call = Callers
      BY DEF DbTypeOK
    <3>1. /\ Count(queue', Own) = Count(tail, Own) + Bit(job \in Own) /\ Bit(writing' \in Own) = Bit(head \in Own)
          /\ Count(queue, Own) = Bit(head \in Own) + Count(tail, Own)
          /\ Count(putting, Own) = Bit(job \in Own) + Count(putting', Own)
          /\ Bit(head \in Own) \in Nat /\ Count(tail, Own) \in Nat /\ Bit(job \in Own) \in Nat /\ Count(putting', Own) \in Nat
      BY <1>5, <1>6, <2>3, <2>5
    <3>2. CASE job.by = Executor
      <4>1. Bit(job \in Own) = 1
        BY <2>4, <3>2 DEF Bit
      <4>2. call[Executor].at = "putting"
        BY <1>2, <3>1, <4>1 DEF Bit
      <4>3. call'[Executor].at = "waiting"
        BY <2>2, <2>3, <3>0, <3>2 DEF Called
      <4>4. Count(queue, Own) + Bit(writing \in Own) = 0 /\ Count(putting, Own) = 1
        BY <1>2, <4>2 DEF Bit
      <4>5. Bit(call'[Executor].at = "putting") = 0 /\ Bit(call'[Executor].at = "waiting") = 1
        BY <4>3 DEF Bit
      <4>6. serve.at = "persisting" /\ serve' = serve /\ ~Succeeded
        BY <1>1, <4>2, InSubmit DEF exvars
      <4>7. Calling' /\ ~Succeeded'
        BY <4>3, <4>6 DEF Calling, Succeeded
      <4>8. Count(putting', Own) = 0 /\ Count(queue', Own) + Bit(writing' \in Own) = 1
        <5>. DEFINE a == Count(tail, Own)  b == Bit(head \in Own)  c == Count(putting', Own)
                    d == Count(queue, Own)  e == Bit(writing \in Own)
        <5>1. /\ Count(queue', Own) = a + 1 /\ Bit(writing' \in Own) = b /\ d = b + a
              /\ Count(putting, Own) = 1 + c /\ a \in Nat /\ b \in Nat /\ c \in Nat
              /\ d + e = 0 /\ Count(putting, Own) = 1 /\ e = 0
          BY <1>4, <3>1, <4>1, <4>4
        <5>. HIDE DEF a, b, c, d, e
        <5>2. a = 0 /\ b = 0 /\ c = 0
          BY ONLY <5>1
        <5>. QED BY <5>1, <5>2 DEF c
      <4>. QED BY <4>5, <4>6, <4>7, <4>8
    <3>3. CASE job.by # Executor
      <4>1. Bit(job \in Own) = 0
        BY <2>4, <3>3 DEF Bit
      <4>2. call'[Executor] = call[Executor]
        BY <2>3, <3>3, <3>0, Constants DEF Called
      <4>3. Calling' /\ (Succeeded' <=> Succeeded)
        BY <1>1, <4>2 DEF ExecInv, Calling, Succeeded, exvars
      <4>4. Count(putting', Own) = Count(putting, Own)
            /\ Count(queue', Own) + Bit(writing' \in Own) = Count(queue, Own) + Bit(writing \in Own)
        BY <1>4, <3>1, <4>1
      <4>. QED BY <1>2, <4>2, <4>3, <4>4
    <3>. QED BY <3>2, <3>3
  <2>. QED BY <1>1, <1>6, <2>3, <2>5, <2>6, <2>7, DbMoves
<1>. QED BY <1>1, <1>7, <1>8

LEMMA OtherEnqueuesInv ==
  ASSUME DbTypeOK, ExecInv, OtherEnqueues
  PROVE  ExecInv'
<1>. DEFINE job == [by |-> None, what |-> OtherWrite]
<1>1. /\ queue' = Append(queue, job) \/ queue' = queue
      /\ UNCHANGED <<putting, writing, call>> /\ UNCHANGED exvars
  BY DEF OtherEnqueues, Enqueue
<1>2. /\ queue \in Seq(Clean(Task)) /\ putting \in Seq(Clean(Task)) /\ writing \in Clean(Task) \cup {None}
      /\ Count(putting, Own) = Bit(call[Executor].at = "putting")
      /\ Count(queue, Own) + Bit(writing \in Own) = Bit(call[Executor].at = "waiting")
  BY DEF ExecInv, Ours
<1>3. job \in Clean(Task) /\ job \notin Own /\ \A r : job \notin Loose(r)
  BY Constants DEF Clean, Own, Loose, Jobs
<1>4. /\ queue' \in Seq(Clean(Task)) /\ Count(queue', Own) = Count(queue, Own)
      /\ \A r : Count(queue', Loose(r)) = Count(queue, Loose(r))
  <2>1. CASE queue' = Append(queue, job)
    <3>. HIDE DEF job
    <3>1. queue' \in Seq(Clean(Task)) /\ \A V : Count(queue', V) = Count(queue, V) + Bit(job \in V)
      BY <1>2, <1>3, <2>1, AppendProperties, CountAppend
    <3>2. \A V : Count(queue, V) \in Nat
      BY <1>2, CountType
    <3>3. Bit(job \in Own) = 0 /\ \A r : Bit(job \in Loose(r)) = 0
      BY <1>3 DEF Bit
    <3>. QED BY <3>1, <3>2, <3>3
  <2>2. CASE queue' = queue
    BY <1>2, <2>2
  <2>. QED BY <1>1, <2>1, <2>2
<1>5. \A r \in Records : InDb(r)' = InDb(r)
  BY <1>1, <1>4 DEF InDb
<1>6. Calling' /\ (Succeeded' <=> Succeeded)
  BY <1>1 DEF ExecInv, Calling, Succeeded, exvars
<1>. QED BY <1>1, <1>2, <1>4, <1>5, <1>6, DbMoves

LEMMA OtherCallersInv ==
  ASSUME DbTypeOK, ExecInv, NEW c \in Others, OtherSubmits(c) \/ OtherReturns(c)
  PROVE  ExecInv'
<1>. DEFINE job == [by |-> c, what |-> OtherWrite]
<1>0. c \in Callers /\ c # Executor /\ c # None /\ DOMAIN call = Callers
  BY Constants DEF Others, DbTypeOK
<1>1. /\ \/ queue' = queue /\ putting' = putting
         \/ queue' = Append(queue, job) /\ putting' = putting
         \/ queue' = queue /\ putting' = Append(putting, job)
      /\ UNCHANGED writing /\ UNCHANGED exvars
  BY DEF OtherSubmits, OtherReturns, Submit
<1>2. /\ queue \in Seq(Clean(Task)) /\ putting \in Seq(Clean(Task)) /\ writing \in Clean(Task) \cup {None}
      /\ Count(putting, Own) = Bit(call[Executor].at = "putting")
      /\ Count(queue, Own) + Bit(writing \in Own) = Bit(call[Executor].at = "waiting")
  BY DEF ExecInv, Ours
<1>3. job \in Clean(Task) /\ job \notin Own /\ \A r : job \notin Loose(r)
  BY <1>0, Constants DEF Clean, Own, Loose, Jobs
<1>4. call'[Executor] = call[Executor]
  BY <1>0, Constants DEF OtherSubmits, OtherReturns, Submit, Called
<1>. HIDE DEF job
<1>5. \A s \in Seq(Clean(Task)) :
        /\ Append(s, job) \in Seq(Clean(Task)) /\ Count(Append(s, job), Own) = Count(s, Own)
        /\ \A r : Count(Append(s, job), Loose(r)) = Count(s, Loose(r))
  <2>. SUFFICES ASSUME NEW s \in Seq(Clean(Task))
                PROVE  /\ Append(s, job) \in Seq(Clean(Task)) /\ Count(Append(s, job), Own) = Count(s, Own)
                       /\ \A r : Count(Append(s, job), Loose(r)) = Count(s, Loose(r))
    OBVIOUS
  <2>1. Append(s, job) \in Seq(Clean(Task)) /\ \A V : Count(Append(s, job), V) = Count(s, V) + Bit(job \in V)
    BY <1>3, AppendProperties, CountAppend
  <2>2. \A V : Count(s, V) \in Nat
    BY CountType
  <2>3. Bit(job \in Own) = 0 /\ \A r : Bit(job \in Loose(r)) = 0
    BY <1>3 DEF Bit
  <2>. QED BY <2>1, <2>2, <2>3
<1>6. /\ queue' \in Seq(Clean(Task)) /\ Count(queue', Own) = Count(queue, Own)
      /\ \A r : Count(queue', Loose(r)) = Count(queue, Loose(r))
      /\ putting' \in Seq(Clean(Task)) /\ Count(putting', Own) = Count(putting, Own)
  <2>1. CASE queue' = queue /\ putting' = putting
    BY <1>2, <2>1
  <2>2. CASE queue' = Append(queue, job) /\ putting' = putting
    BY <1>2, <1>5, <2>2
  <2>3. CASE queue' = queue /\ putting' = Append(putting, job)
    BY <1>2, <1>5, <2>3
  <2>. QED BY <1>1, <2>1, <2>2, <2>3
<1>7. \A r \in Records : InDb(r)' = InDb(r)
  BY <1>1, <1>6 DEF InDb
<1>8. Calling' /\ (Succeeded' <=> Succeeded)
  BY <1>1, <1>4 DEF ExecInv, Calling, Succeeded, exvars
<1>. QED BY <1>1, <1>2, <1>4, <1>6, <1>7, <1>8, DbMoves

LEMMA DatabaseStaysInv ==
  ASSUME DbTypeOK, ExecInv, UNCHANGED <<queue, putting, writing, call>>, UNCHANGED exvars
  PROVE  ExecInv'
<1>1. /\ queue \in Seq(Clean(Task)) /\ putting \in Seq(Clean(Task)) /\ writing \in Clean(Task) \cup {None}
      /\ Count(putting, Own) = Bit(call[Executor].at = "putting")
      /\ Count(queue, Own) + Bit(writing \in Own) = Bit(call[Executor].at = "waiting")
  BY DEF ExecInv, Ours
<1>2. \A r \in Records : InDb(r)' = InDb(r)
  BY DEF InDb
<1>3. Calling' /\ (Succeeded' <=> Succeeded)
  BY DEF ExecInv, Calling, Succeeded, exvars
<1>. QED BY <1>1, <1>2, <1>3, DbMoves


\* A record of a write that nobody waits for is nowhere else.
LEMMA LooseAlone ==
  ASSUME ExecInv, NEW r \in Records, InDb(r) # 0
  PROVE  BatchOne(r) = 0 /\ rows[r] = 0 /\ LostOnes(r) = 0 /\ InDb(r) = 1
<1>1. /\ Count(ring, With(r)) + GotOne(r) + Count(serve.todo, With(r)) + BatchOne(r)
           + InDb(r) + rows[r] + LostOnes(r) = Bit(r \in ended)
      /\ Count(ring, With(r)) \in Nat /\ GotOne(r) \in {0, 1} /\ Count(serve.todo, With(r)) \in Nat
      /\ BatchOne(r) \in {0, 1} /\ InDb(r) \in Nat /\ rows[r] \in Nat /\ LostOnes(r) \in Nat
      /\ Bit(r \in ended) \in {0, 1}
  BY SumOf
<1>. DEFINE a == Count(ring, With(r))  b == GotOne(r)  c == Count(serve.todo, With(r))  d == BatchOne(r)
            e == InDb(r)  f == rows[r]  g == LostOnes(r)  h == Bit(r \in ended)
<1>2. /\ a + b + c + d + e + f + g = h /\ e # 0
      /\ a \in Nat /\ b \in {0, 1} /\ c \in Nat /\ d \in {0, 1} /\ e \in Nat /\ f \in Nat /\ g \in Nat /\ h \in {0, 1}
  BY <1>1
<1>3. d = 0 /\ f = 0 /\ g = 0 /\ e = 1
  <2>. HIDE DEF a, b, c, d, e, f, g, h
  <2>. QED BY ONLY <1>2
<1>. QED BY <1>3

\* What a write that ends leaves: rows for the records in, and for a write
\* nobody waits for the rest given up.
LEMMA WriteEndsInv ==
  ASSUME DbTypeOK, ExecInv, WriteEnds
  PROVE  ExecInv'
<1>. DEFINE w == writing.what
<1>1. PICK result \in {Answer(w), "locked", "broken"} :
        LET in == IF result = "ok" THEN Inserted(w) ELSE {}
        IN  /\ result # Answer(w) => faults < MaxFaults
            /\ faults' = IF result = Answer(w) THEN faults ELSE faults + 1
            /\ Written(result)
            /\ rows' = [r \in Records |-> rows[r] + IF r \in in THEN 1 ELSE 0]
            /\ lost' = IF writing.by = None THEN Lost("cancelled", w.records \ in) ELSE lost
  BY DEF WriteEnds
<1>. DEFINE in == IF result = "ok" THEN Inserted(w) ELSE {}
<1>2. /\ writing # None /\ writing' = None /\ UNCHANGED <<queue, putting>>
      /\ call' = IF writing.by = None THEN call ELSE Called(writing.by, "back", result)
      /\ UNCHANGED <<ended, ring, serve, stopping, drops, announced>>
  BY <1>1 DEF Written, WriteEnds, Unchanged
<1>3. /\ writing \in Clean(Task) /\ queue \in Seq(Clean(Task)) /\ putting \in Seq(Clean(Task))
      /\ Count(putting, Own) = Bit(call[Executor].at = "putting")
      /\ Count(queue, Own) + Bit(writing \in Own) = Bit(call[Executor].at = "waiting")
      /\ DOMAIN call = Callers
  BY <1>2 DEF ExecInv, Ours, DbTypeOK
<1>4. /\ writing \in Jobs /\ writing.by \in Callers \cup {None} /\ w \in Writes /\ w.records \subseteq Records
      /\ w.op \in {"batch", "fallback", "other"}
      /\ writing \in Own <=> writing.by = Executor
      /\ \A r : writing \in Loose(r) <=> writing.by = None /\ r \in w.records
      /\ writing \in Own => w = Task
      /\ writing.by \in Others => w = OtherWrite
  <2>1. /\ writing \in Jobs /\ writing.by \in Callers \cup {None} /\ w \in Writes
        /\ writing \in Own <=> writing.by = Executor
        /\ \A r : writing \in Loose(r) <=> writing.by = None /\ r \in w.records
        /\ writing \in Own => w = Task
    BY <1>3, CleanJobs
  <2>2. w.records \subseteq Records /\ w.op \in {"batch", "fallback", "other"}
    BY <2>1, Constants
  <2>3. writing.by \in Others => w = OtherWrite
    BY <1>3 DEF Clean
  <2>. QED BY <2>1, <2>2, <2>3
<1>5. in \subseteq w.records
  BY <1>4 DEF Inserted
<1>6. /\ rows \in [Records -> Nat] /\ rows' \in [Records -> Nat]
      /\ \A r \in Records : rows'[r] = rows[r] + Bit(r \in in)
      /\ lost \in LostType /\ serve \in ServeType
  <2>1. rows \in [Records -> Nat] /\ lost \in LostType /\ serve \in ServeType
    BY DEF ExecInv, Typed, LostType
  <2>2. rows' = [r \in Records |-> rows[r] + Bit(r \in in)]
    BY <1>1 DEF Bit
  <2>3. \A r : Bit(r \in in) \in Nat
    BY DEF Bit
  <2>. HIDE DEF in
  <2>. QED BY <2>1, <2>2, <2>3
<1>7. faults' \in 0..MaxFaults
  <2>1. faults \in 0..MaxFaults
    BY DEF ExecInv, Typed
  <2>. QED BY <1>1, <2>1, Constants
<1>8. \A V : Bit(writing' \in V) = Bit(None \in V)
  BY <1>2
<1>9. Bit(None \in Own) = 0 /\ \A r : Bit(None \in Loose(r)) = 0
  BY Constants DEF Own, Loose, Bit
<1>10. Hands'
  BY <1>2 DEF ExecInv, Hands
<1>11. \A r : GotOne(r)' = GotOne(r)
  BY <1>2 DEF GotOne
<1>12. \A r : InDb(r) = Count(queue, Loose(r)) + Bit(writing \in Loose(r))
              /\ InDb(r)' = Count(queue, Loose(r)) /\ Count(queue, Loose(r)) \in Nat
  <2>1. \A r : Count(queue, Loose(r)) \in Nat
    BY <1>3, CountType
  <2>2. \A r : Bit(writing' \in Loose(r)) = 0 /\ queue' = queue
    BY <1>2, <1>8, <1>9
  <2>3. \A r : InDb(r)' = Count(queue', Loose(r)) + Bit(writing' \in Loose(r))
    BY DEF InDb
  <2>. QED BY <2>1, <2>2, <2>3 DEF InDb
<1>. HIDE DEF in, w
\* Each record ends up as it should if the batch's part and what is given up do.
<1>13. SUFFICES ASSUME lost' \in LostType, CountersTell', Calling', Ours', Rowed', AnnouncedHasRow',
                       \A r \in Records : /\ BatchOne(r)' + InDb(r)' + rows'[r] + LostOnes(r)'
                                               = BatchOne(r) + InDb(r) + rows[r] + LostOnes(r)
                                          /\ LostOnes(r)' \in Nat
                PROVE  ExecInv'
  <2>1. CASE writing.by = None
    <3>1. call' = call /\ lost' = Lost("cancelled", w.records \ in)
      BY <1>1, <1>2, <2>1 DEF in
    <3>2. \A r \in w.records : r \in Records /\ InDb(r) = 1 /\ BatchOne(r) = 0 /\ rows[r] = 0 /\ LostOnes(r) = 0
      <4>. SUFFICES ASSUME NEW r \in w.records
                    PROVE  r \in Records /\ InDb(r) = 1 /\ BatchOne(r) = 0 /\ rows[r] = 0 /\ LostOnes(r) = 0
        OBVIOUS
      <4>1. r \in Records /\ Bit(writing \in Loose(r)) = 1
        BY <1>4, <2>1 DEF Bit
      <4>2. InDb(r) # 0
        BY <1>12, <4>1
      <4>. QED BY <4>1, <4>2, LooseAlone
    <3>. DEFINE S == w.records \ in
    <3>3. S \in SUBSET Records /\ "cancelled" \in Reasons /\ lost' = Lost("cancelled", S) /\ \A r \in S : LostOnes(r) = 0
      BY <1>4, <3>1, <3>2 DEF Reasons
    <3>4. lost' \in LostType /\ \A r \in Records : LostOnes(r)' = LostOnes(r) + Bit(r \in S)
      <4>. HIDE DEF S
      <4>. QED BY <1>6, <3>3, LostMore
    <3>5. CountersTell'
      <4>1. lost'.overflow = lost.overflow /\ lost'.exhausted = lost.exhausted
        BY <1>6, <3>3 DEF Lost, LostType
      <4>. QED BY <1>2, <4>1 DEF ExecInv, CountersTell
    <3>6. Calling'
      BY <1>2, <3>1 DEF ExecInv, Calling
    <3>7. Ours'
      <4>1. writing \notin Own /\ Task' = Task
        BY <1>2, <1>4, <2>1, Constants DEF Task
      <4>. QED BY <1>2, <1>3, <1>8, <1>9, <3>1, <4>1 DEF Ours, Bit
    <3>8. \A r \in Records : r \notin w.records => rows'[r] = rows[r]
      BY <1>5, <1>6 DEF Bit
    <3>9. \A r \in serve.batch.records :
             r \in Records /\ (serve.at \in {"persisting", "yielding"} \/ rows[r] # 0 => rows'[r] = rows[r])
      <4>. SUFFICES ASSUME NEW r \in serve.batch.records
                    PROVE  r \in Records /\ (serve.at \in {"persisting", "yielding"} \/ rows[r] # 0 => rows'[r] = rows[r])
        OBVIOUS
      <4>1. r \in Records
        BY <1>6 DEF ServeType, ItemType
      <4>2. rows[r] # 0 => r \notin w.records
        BY <3>2
      <4>3. serve.at \in {"persisting", "yielding"} /\ rows[r] = 0 => BatchOne(r) = 1
        BY DEF BatchOne, Bit
      <4>4. serve.at \in {"persisting", "yielding"} /\ rows[r] = 0 => r \notin w.records
        BY <3>2, <4>3
      <4>. QED BY <3>8, <4>1, <4>2, <4>4
    <3>10. Rowed'
      <4>1. serve' = serve /\ (Succeeded' <=> Succeeded)
        BY <1>2, <3>1 DEF Succeeded
      <4>2. serve.at = "emitting" => \A r \in serve.batch.records : rows[r] = 1
        BY DEF ExecInv, Rowed
      <4>3. serve.at \in {"persisting", "yielding", "emitting"} => \A r \in serve.batch.records : rows'[r] = rows[r]
        BY <3>9, <4>2
      <4>. QED BY <4>1, <4>3 DEF ExecInv, Rowed
    <3>11. AnnouncedHasRow'
      <4>1. \A r \in announced : r \in Records /\ rows[r] = 1
        BY DEF ExecInv, Typed, AnnouncedHasRow
      <4>2. \A r \in announced : r \notin w.records
        BY <3>2, <4>1
      <4>3. \A r \in announced : rows'[r] = 1
        BY <3>8, <4>1, <4>2
      <4>. QED BY <1>2, <4>3 DEF AnnouncedHasRow
    <3>12. \A r \in Records : /\ BatchOne(r)' + InDb(r)' + rows'[r] + LostOnes(r)'
                                   = BatchOne(r) + InDb(r) + rows[r] + LostOnes(r)
                              /\ LostOnes(r)' \in Nat
      <4>. SUFFICES ASSUME NEW r \in Records
                    PROVE  /\ BatchOne(r)' + InDb(r)' + rows'[r] + LostOnes(r)'
                                = BatchOne(r) + InDb(r) + rows[r] + LostOnes(r)
                           /\ LostOnes(r)' \in Nat
        OBVIOUS
      <4>1. LostOnes(r)' = LostOnes(r) + Bit(r \in S) /\ rows'[r] = rows[r] + Bit(r \in in)
        BY <1>6, <3>4
      <4>2. LostOnes(r) \in Nat /\ rows[r] \in Nat /\ Bit(r \in S) \in Nat /\ Bit(r \in in) \in Nat /\ InDb(r) \in Nat
        BY SumOf DEF Bit
      <4>3. CASE r \in w.records
        <5>1. Bit(r \in S) + Bit(r \in in) = 1
          BY <1>5, <4>3 DEF Bit
        <5>2. InDb(r)' = 0 /\ InDb(r) = 1
          <6>1. Bit(writing \in Loose(r)) = 1
            BY <1>4, <2>1, <4>3 DEF Bit
          <6>2. InDb(r) = 1
            BY <3>2, <4>3
          <6>. QED BY <1>12, <6>1, <6>2
        <5>3. BatchOne(r) = 0 /\ BatchOne(r)' = 0
          <6>1. BatchOne(r) = 0 /\ rows[r] = 0
            BY <3>2, <4>3
          <6>2. ~(serve.at \in {"persisting", "yielding"} /\ r \in serve.batch.records)
            BY <6>1 DEF BatchOne, Bit
          <6>. QED BY <1>2, <6>1, <6>2 DEF BatchOne, Bit
        <5>. HIDE DEF S
        <5>. QED BY <4>1, <4>2, <5>1, <5>2, <5>3
      <4>4. CASE r \notin w.records
        <5>1. Bit(r \in S) = 0 /\ Bit(r \in in) = 0
          BY <1>5, <4>4 DEF Bit
        <5>2. InDb(r)' = InDb(r)
          <6>1. Bit(writing \in Loose(r)) = 0
            BY <1>4, <4>4 DEF Bit
          <6>. QED BY <1>12, <6>1
        <5>3. BatchOne(r)' = BatchOne(r)
          BY <1>2, <3>8, <4>4 DEF BatchOne
        <5>4. rows'[r] = rows[r] /\ LostOnes(r)' = LostOnes(r)
          BY <4>1, <4>2, <5>1
        <5>. QED BY <4>2, <5>2, <5>3, <5>4
      <4>. QED BY <4>3, <4>4
    <3>. QED BY <1>13, <3>4, <3>5, <3>6, <3>7, <3>10, <3>11, <3>12
  <2>2. CASE writing.by \in Others
    <3>1. w = OtherWrite /\ in = {}
      BY <1>4, <1>5, <2>2, Constants
    <3>2. writing.by # None /\ writing.by # Executor /\ writing.by \in Callers
      BY <2>2, Constants
    <3>3. call'[Executor] = call[Executor] /\ lost' = lost
      BY <1>1, <1>2, <1>3, <3>2, Constants DEF Called
    <3>4. rows' = rows
      <4>1. \A r \in Records : rows'[r] = rows[r]
        BY <1>6, <3>1 DEF Bit
      <4>. QED BY <1>6, <4>1
    <3>5. lost' \in LostType /\ CountersTell' /\ Calling' /\ AnnouncedHasRow' /\ Rowed'
      BY <1>2, <1>6, <3>3, <3>4 DEF ExecInv, CountersTell, Calling, AnnouncedHasRow, Rowed, Succeeded
    <3>6. Ours'
      <4>1. writing \notin Own /\ Task' = Task
        BY <1>2, <1>4, <3>2 DEF Task
      <4>. QED BY <1>2, <1>3, <1>8, <1>9, <3>3, <4>1 DEF Ours, Bit
    <3>7. \A r \in Records : /\ BatchOne(r)' + InDb(r)' + rows'[r] + LostOnes(r)'
                                  = BatchOne(r) + InDb(r) + rows[r] + LostOnes(r)
                             /\ LostOnes(r)' \in Nat
      <4>1. \A r : BatchOne(r)' = BatchOne(r) /\ LostOnes(r)' = LostOnes(r)
        BY <1>2, <3>3, <3>4 DEF BatchOne, LostOnes
      <4>2. \A r : InDb(r)' = InDb(r)
        <5>1. \A r : Bit(writing \in Loose(r)) = 0
          BY <1>4, <3>2 DEF Bit
        <5>. QED BY <1>12, <5>1
      <4>. QED BY <3>4, <4>1, <4>2, SumOf
    <3>. QED BY <1>13, <3>5, <3>6, <3>7
  <2>3. CASE writing.by = Executor
    <3>1. /\ w = Task /\ w.records = serve.batch.records /\ w.op = serve.op
          /\ Bit(writing \in Own) = 1 /\ writing.by # None
      BY <1>4, <2>3, Constants DEF Task, Bit
    <3>2. Count(queue, Own) = 0 /\ call[Executor].at = "waiting"
      <4>1. Count(queue, Own) \in Nat
        BY <1>3, CountType
      <4>2. Count(queue, Own) + 1 = Bit(call[Executor].at = "waiting")
        BY <1>3, <3>1
      <4>3. Bit(call[Executor].at = "waiting") \in {0, 1}
            /\ (Bit(call[Executor].at = "waiting") = 1 => call[Executor].at = "waiting")
        BY DEF Bit
      <4>4. Bit(call[Executor].at = "waiting") = 1 /\ Count(queue, Own) = 0
        <5>. HIDE DEF w
        <5>. QED BY <4>1, <4>2, <4>3
      <4>. QED BY <4>3, <4>4
    <3>3. serve.at = "persisting" /\ \A r \in serve.batch.records : rows[r] = 0
      <4>1. serve.at = "persisting" /\ ~Succeeded
        BY <3>2, InSubmit
      <4>. QED BY <4>1 DEF ExecInv, Rowed
    <3>4. call'[Executor].at = "back" /\ call'[Executor].result = result /\ lost' = lost
      BY <1>1, <1>2, <1>3, <2>3, <3>1, Constants DEF Called
    <3>5. /\ result = "ok" => in = IF serve.op = "batch" THEN serve.batch.records
                                   ELSE serve.batch.records \ Orphans
          /\ result # "ok" => in = {}
      <4>1. serve.op \in {"batch", "fallback"}
        BY <1>6 DEF ServeType
      <4>. QED BY <3>1, <4>1 DEF in, Inserted
    <3>6. \A r \in serve.batch.records : r \in Records /\ rows'[r] = Bit(r \in in)
      <4>1. \A r \in serve.batch.records : r \in Records /\ rows'[r] = rows[r] + Bit(r \in in) /\ rows[r] = 0
        BY <1>4, <1>6, <3>1, <3>3
      <4>2. \A r : Bit(r \in in) \in Nat
        BY DEF Bit
      <4>. QED BY <4>1, <4>2
    <3>7. Rowed'
      <4>1. serve' = serve /\ (Succeeded' <=> result = "ok")
        BY <1>2, <3>4 DEF Succeeded
      <4>2. result = "ok" => \A r \in serve.batch.records :
                                rows'[r] = Bit(~(serve.op = "fallback" /\ r \in Orphans))
        <5>1. serve.op \in {"batch", "fallback"}
          BY <1>6 DEF ServeType
        <5>. QED BY <3>5, <3>6, <5>1 DEF Bit
      <4>3. result # "ok" => \A r \in serve.batch.records : rows'[r] = 0
        BY <3>5, <3>6 DEF Bit
      <4>. QED BY <3>3, <4>1, <4>2, <4>3 DEF Rowed
    <3>8. lost' \in LostType /\ CountersTell' /\ Calling'
      BY <1>2, <1>6, <3>3, <3>4 DEF ExecInv, CountersTell, Calling
    <3>9. AnnouncedHasRow'
      <4>1. \A r \in announced : r \in Records /\ rows[r] = 1
        BY DEF ExecInv, Typed, AnnouncedHasRow
      <4>2. \A r \in announced : r \notin in
        BY <1>5, <3>1, <3>3, <4>1
      <4>3. \A r \in announced : rows'[r] = 1
        BY <1>6, <4>1, <4>2 DEF Bit
      <4>. QED BY <1>2, <4>3 DEF AnnouncedHasRow
    <3>10. Ours'
      <4>1. Task' = Task
        BY <1>2 DEF Task
      <4>2. Count(putting, Own) = 0
        BY <1>3, <3>2 DEF Bit
      <4>3. /\ Bit(call'[Executor].at = "putting") = 0 /\ Bit(call'[Executor].at = "waiting") = 0
            /\ Bit(writing' \in Own) = 0
        BY <1>8, <1>9, <3>4 DEF Bit
      <4>4. /\ queue' = queue /\ putting' = putting /\ writing' = None
        BY <1>2
      <4>. QED BY <1>3, <3>2, <4>1, <4>2, <4>3, <4>4 DEF Ours
    <3>11. \A r \in Records : /\ BatchOne(r)' + InDb(r)' + rows'[r] + LostOnes(r)'
                                   = BatchOne(r) + InDb(r) + rows[r] + LostOnes(r)
                              /\ LostOnes(r)' \in Nat
      <4>. SUFFICES ASSUME NEW r \in Records
                    PROVE  /\ BatchOne(r)' + InDb(r)' + rows'[r] + LostOnes(r)'
                                = BatchOne(r) + InDb(r) + rows[r] + LostOnes(r)
                           /\ LostOnes(r)' \in Nat
        OBVIOUS
      <4>1. LostOnes(r)' = LostOnes(r) /\ LostOnes(r) \in Nat
        BY <3>4, SumOf DEF LostOnes
      <4>2. InDb(r)' = InDb(r) /\ InDb(r) \in Nat
        <5>1. Bit(writing \in Loose(r)) = 0
          BY <1>4, <3>1 DEF Bit
        <5>. QED BY <1>12, <5>1
      <4>3. BatchOne(r)' + rows'[r] = BatchOne(r) + rows[r]
        <5>1. CASE r \in serve.batch.records
          <6>1. rows[r] = 0 /\ rows'[r] = Bit(r \in in)
            BY <3>3, <3>6, <5>1
          <6>. QED BY <1>2, <3>3, <5>1, <6>1 DEF BatchOne, Bit
        <5>2. CASE r \notin serve.batch.records
          <6>1. rows'[r] = rows[r]
            BY <1>5, <1>6, <3>1, <5>2 DEF Bit
          <6>. QED BY <1>2, <5>2, <6>1 DEF BatchOne, Bit
        <5>. QED BY <5>1, <5>2
      <4>4. BatchOne(r)' \in Nat /\ rows'[r] \in Nat /\ BatchOne(r) \in Nat /\ rows[r] \in Nat
        BY <1>6 DEF BatchOne, Bit
      <4>. QED BY <4>1, <4>2, <4>3, <4>4
    <3>. QED BY <1>13, <3>7, <3>8, <3>9, <3>10, <3>11
  <2>. QED BY <1>4, <2>1, <2>2, <2>3 DEF Others
<1>14. Typed'
  BY <1>2, <1>6, <1>7, <1>13 DEF ExecInv, Typed, LostType
<1>15. Accounts'
  <2>. SUFFICES ASSUME NEW r \in Records PROVE Places(r)' = Bit(r \in ended')
    BY DEF Accounts
  <2>1. Places(r)' = Count(ring', With(r)) + GotOne(r)' + Count(serve'.todo, With(r)) + BatchOne(r)'
                       + InDb(r)' + rows'[r] + LostOnes(r)'
    BY DEF Places
  <2>2. ring' = ring /\ serve' = serve /\ ended' = ended /\ GotOne(r)' = GotOne(r)
    BY <1>2, <1>11
  <2>3. /\ BatchOne(r)' + InDb(r)' + rows'[r] + LostOnes(r)' = BatchOne(r) + InDb(r) + rows[r] + LostOnes(r)
        /\ LostOnes(r)' \in Nat
    BY <1>13
  <2>4. BatchOne(r)' \in Nat /\ InDb(r)' \in Nat /\ rows'[r] \in Nat
    <3>1. BatchOne(r)' \in Nat
      BY DEF BatchOne, Bit
    <3>. QED BY <1>6, <1>12, <3>1
  <2>5. /\ Count(ring, With(r)) + GotOne(r) + Count(serve.todo, With(r)) + BatchOne(r)
             + InDb(r) + rows[r] + LostOnes(r) = Bit(r \in ended)
        /\ Count(ring, With(r)) \in Nat /\ GotOne(r) \in Nat /\ Count(serve.todo, With(r)) \in Nat
        /\ BatchOne(r) \in Nat /\ InDb(r) \in Nat /\ rows[r] \in Nat /\ LostOnes(r) \in Nat
    <3>1. GotOne(r) \in Nat /\ BatchOne(r) \in Nat
      BY DEF GotOne, BatchOne, Bit
    <3>. QED BY <3>1, SumOf
  <2>. DEFINE a == Count(ring, With(r))  b == GotOne(r)  c == Count(serve.todo, With(r))  d == BatchOne(r)
              e == InDb(r)  f == rows[r]  g == LostOnes(r)  h == Bit(r \in ended)
              dd == BatchOne(r)'  ee == InDb(r)'  ff == rows'[r]  gg == LostOnes(r)'
  <2>6. /\ dd + ee + ff + gg = d + e + f + g /\ a + b + c + d + e + f + g = h
        /\ a \in Nat /\ b \in Nat /\ c \in Nat /\ d \in Nat /\ e \in Nat /\ f \in Nat /\ g \in Nat
        /\ dd \in Nat /\ ee \in Nat /\ ff \in Nat /\ gg \in Nat
    BY <2>3, <2>4, <2>5
  <2>7. a + b + c + dd + ee + ff + gg = h
    <3>. HIDE DEF a, b, c, d, e, f, g, h, dd, ee, ff, gg
    <3>. QED BY ONLY <2>6
  <2>. QED BY <2>1, <2>2, <2>7
<1>. QED BY <1>10, <1>13, <1>14, <1>15 DEF ExecInv


LEMMA DatabaseCutOffInv ==
  ASSUME DbTypeOK, ExecInv, DatabaseCutOff
  PROVE  ExecInv'
<1>. DEFINE Q == UNION {queue[i].what.records : i \in DOMAIN queue}
            W == IF writing = None THEN {} ELSE writing.what.records
            S == Q \cup W
<1>0. /\ \A r : r \in Q <=> \E i \in DOMAIN queue : r \in queue[i].what.records
      /\ \A r : r \in W <=> writing # None /\ r \in writing.what.records
  OBVIOUS
<1>1. /\ serve.at = "gone" /\ writing' = None /\ queue' = <<>> /\ putting' = putting
      /\ call' = [c \in Callers |-> IF \E i \in DOMAIN queue : queue[i].by = c
                                    THEN [at |-> "back", result |-> "cancelled"] ELSE call[c]]
      /\ lost' = Lost("cancelled", S)
      /\ UNCHANGED <<ended, ring, serve, stopping, drops, rows, announced, faults>>
  <2>1. lost' = Lost("cancelled", S)
    BY DEF DatabaseCutOff
  <2>. HIDE DEF S
  <2>. QED BY <2>1 DEF DatabaseCutOff, CutOff
<1>2. /\ queue \in Seq(Clean(Task)) /\ putting \in Seq(Clean(Task)) /\ writing \in Clean(Task) \cup {None}
      /\ call[Executor] = Idle /\ call[Executor].at = "idle" /\ Typed /\ Ours /\ lost \in LostType
  BY <1>1 DEF ExecInv, Ours, Calling, Idle, Typed, LostType
<1>3. Count(queue, Own) = 0 /\ Count(putting, Own) = 0 /\ writing \notin Own
  BY <1>2, NoneOwn
<1>4. \A i \in DOMAIN queue : queue[i] \in Clean(Task) /\ queue[i] \notin Own
  BY <1>2, <1>3, Elements, CountZero
<1>5. \A job \in Clean(Task) :
         job \notin Own => /\ job.by # Executor /\ job.what.records \subseteq Records
                           /\ \A r : r \in job.what.records <=> job \in Loose(r)
  <2>. SUFFICES ASSUME NEW job \in Clean(Task), job \notin Own
                PROVE  /\ job.by # Executor /\ job.what.records \subseteq Records
                       /\ \A r : r \in job.what.records <=> job \in Loose(r)
    OBVIOUS
  <2>1. /\ job.what \in Writes /\ (job \in Own <=> job.by = Executor)
        /\ \A r : (job \in Loose(r) <=> job.by = None /\ r \in job.what.records)
        /\ \A r : r \in job.what.records => job \in Loose(r) \/ job \in Own
    BY CleanJobs
  <2>2. job.what.records \subseteq Records
    BY <2>1, Constants
  <2>. QED BY <2>1, <2>2
<1>6. call'[Executor] = Idle
  BY <1>1, <1>2, <1>4, <1>5, Constants
<1>7. \A r : r \in S <=> (\E i \in DOMAIN queue : queue[i] \in Loose(r)) \/ writing \in Loose(r)
  <2>1. \A r : (\E i \in DOMAIN queue : r \in queue[i].what.records) <=> \E i \in DOMAIN queue : queue[i] \in Loose(r)
    BY <1>4, <1>5
  <2>2. writing # None => \A r : r \in writing.what.records <=> writing \in Loose(r)
    BY <1>2, <1>3, <1>5
  <2>3. \A r : None \notin Loose(r)
    BY Constants DEF Loose
  <2>. HIDE DEF Q, W
  <2>4. \A r : r \in W <=> writing \in Loose(r)
    BY <1>0, <2>2, <2>3
  <2>5. \A r : r \in Q <=> \E i \in DOMAIN queue : queue[i] \in Loose(r)
    BY <1>0, <2>1
  <2>. QED BY <2>4, <2>5
<1>8. S \in SUBSET Records
  <2>1. \A i \in DOMAIN queue : queue[i].what.records \subseteq Records
    BY <1>4, <1>5
  <2>2. writing # None => writing.what.records \subseteq Records
    BY <1>2, <1>3, <1>5
  <2>. HIDE DEF Q, W
  <2>3. Q \subseteq Records
    BY <1>0, <2>1
  <2>4. W \subseteq Records
    BY <1>0, <2>2
  <2>. QED BY <2>3, <2>4
<1>. HIDE DEF S
<1>9. \A r : InDb(r) # 0 <=> r \in S
  <2>. SUFFICES ASSUME NEW r PROVE InDb(r) # 0 <=> r \in S
    OBVIOUS
  <2>1. Count(queue, Loose(r)) = 0 <=> \A i \in DOMAIN queue : queue[i] \notin Loose(r)
    BY <1>2, CountZero
  <2>2. Bit(writing \in Loose(r)) \in {0, 1} /\ (Bit(writing \in Loose(r)) = 0 <=> writing \notin Loose(r))
    BY DEF Bit
  <2>3. Count(queue, Loose(r)) \in Nat
    BY <1>2, CountType
  <2>4. InDb(r) = 0 <=> Count(queue, Loose(r)) = 0 /\ Bit(writing \in Loose(r)) = 0
    BY <2>2, <2>3 DEF InDb
  <2>. QED BY <1>7, <2>1, <2>2, <2>4
<1>10. \A r \in Records : InDb(r) = Bit(r \in S) /\ (r \in S => LostOnes(r) = 0)
  <2>. SUFFICES ASSUME NEW r \in Records PROVE InDb(r) = Bit(r \in S) /\ (r \in S => LostOnes(r) = 0)
    OBVIOUS
  <2>1. InDb(r) # 0 => InDb(r) = 1 /\ LostOnes(r) = 0
    BY LooseAlone
  <2>. QED BY <1>9, <2>1 DEF Bit
<1>11. lost' \in LostType /\ \A r \in Records : LostOnes(r)' = LostOnes(r) + Bit(r \in S)
  <2>1. "cancelled" \in Reasons /\ \A r \in S : LostOnes(r) = 0
    BY <1>8, <1>10 DEF Reasons
  <2>. QED BY <1>1, <1>2, <1>8, <2>1, LostMore
<1>12. CountersTell'
  <2>1. lost'.overflow = lost.overflow /\ lost'.exhausted = lost.exhausted
    BY <1>1, <1>2 DEF Lost, LostType
  <2>. QED BY <1>1, <2>1 DEF ExecInv, CountersTell
<1>13. Typed' /\ Hands' /\ Calling' /\ Rowed' /\ AnnouncedHasRow'
  <2>1. Typed'
    BY <1>1, <1>2, <1>11 DEF Typed, LostType
  <2>2. Hands' /\ Calling' /\ Rowed' /\ AnnouncedHasRow'
    BY <1>1, <1>6 DEF ExecInv, Hands, Calling, Rowed, AnnouncedHasRow
  <2>. QED BY <2>1, <2>2
<1>14. Ours'
  <2>1. Task' = Task
    BY <1>1 DEF Task
  <2>2. <<>> \in Seq(Clean(Task)) /\ Count(<<>>, Own) = 0
    BY CountEmpty
  <2>3. Bit(writing' \in Own) = 0 /\ Bit(call'[Executor].at = "putting") = 0 /\ Bit(call'[Executor].at = "waiting") = 0
    BY <1>1, <1>6, Constants DEF Bit, Own, Idle
  <2>. QED BY <1>1, <1>2, <1>3, <2>1, <2>2, <2>3 DEF Ours
<1>15. Accounts'
  <2>. SUFFICES ASSUME NEW r \in Records PROVE Places(r)' = Bit(r \in ended')
    BY DEF Accounts
  <2>1. Places(r)' = Count(ring', With(r)) + GotOne(r)' + Count(serve'.todo, With(r)) + BatchOne(r)'
                       + InDb(r)' + rows'[r] + LostOnes(r)'
    BY DEF Places
  <2>2. GotOne(r)' = GotOne(r) /\ BatchOne(r)' = BatchOne(r)
    BY <1>1 DEF GotOne, BatchOne
  <2>3. InDb(r)' = 0
    <3>1. Bit(None \in Loose(r)) = 0
      BY Constants DEF Loose, Bit
    <3>2. Count(<<>>, Loose(r)) = 0
      BY CountEmpty
    <3>. QED BY <1>1, <3>1, <3>2 DEF InDb
  <2>4. LostOnes(r)' = LostOnes(r) + InDb(r)
    BY <1>10, <1>11
  <2>5. ring' = ring /\ serve' = serve /\ rows' = rows /\ ended' = ended
    BY <1>1
  <2>6. /\ Count(ring, With(r)) + GotOne(r) + Count(serve.todo, With(r)) + BatchOne(r)
             + InDb(r) + rows[r] + LostOnes(r) = Bit(r \in ended)
        /\ Count(ring, With(r)) \in Nat /\ Count(serve.todo, With(r)) \in Nat
        /\ InDb(r) \in Nat /\ rows[r] \in Nat /\ LostOnes(r) \in Nat
    BY SumOf
  <2>7. GotOne(r) \in Nat /\ BatchOne(r) \in Nat
    BY DEF GotOne, BatchOne, Bit
  <2>8. Places(r)' = Count(ring, With(r)) + GotOne(r) + Count(serve.todo, With(r)) + BatchOne(r)
                       + 0 + rows[r] + (LostOnes(r) + InDb(r))
    BY <2>1, <2>2, <2>3, <2>4, <2>5
  <2>. DEFINE a == Count(ring, With(r))  b == GotOne(r)  c == Count(serve.todo, With(r))  d == BatchOne(r)
              e == InDb(r)  f == rows[r]  g == LostOnes(r)  h == Bit(r \in ended)  p == Places(r)'
  <2>9. /\ a + b + c + d + e + f + g = h /\ p = a + b + c + d + 0 + f + (g + e)
        /\ a \in Nat /\ b \in Nat /\ c \in Nat /\ d \in Nat /\ e \in Nat /\ f \in Nat /\ g \in Nat
    BY <2>6, <2>7, <2>8
  <2>10. p = h
    <3>. HIDE DEF a, b, c, d, e, f, g, h, p
    <3>. QED BY ONLY <2>9
  <2>. QED BY <2>5, <2>10
<1>. QED BY <1>12, <1>13, <1>14, <1>15 DEF ExecInv


----------------------------------------------------------------------------
(* The invariant *)

LEMMA ExecFirst ==
  ASSUME Init
  PROVE  DbInv /\ ExecInv
<1>1. /\ DbInit /\ ended = {} /\ ring = <<>> /\ serve = Start /\ stopping = FALSE
      /\ drops = [overflow |-> 0, exhausted |-> 0]
      /\ lost = [overflow |-> {}, exhausted |-> {}, logged |-> {}, cancelled |-> {}]
      /\ rows = [r \in Records |-> 0]
      /\ announced = {} /\ faults = 0
  BY DEF Init
<1>2. DbInv
  BY <1>1, DbFirst
<1>3. /\ queue = <<>> /\ putting = <<>> /\ writing = None /\ call[Executor] = Idle /\ call[Executor].at = "idle"
  BY <1>1, Constants DEF DbInit, Idle
<1>4. Typed
  <2>1. serve \in ServeType
    BY <1>1, FullItems
  <2>2. ring \in Seq(Full) /\ Len(ring) <= TelemetryQueueMax
    BY <1>1, Constants
  <2>3. lost \in LostType /\ drops \in [overflow : Nat, exhausted : Nat]
    BY <1>1 DEF LostType
  <2>4. rows \in [Records -> Nat] /\ faults \in 0..MaxFaults /\ stopping \in BOOLEAN
    <3>1. rows \in [Records -> Nat] /\ stopping \in BOOLEAN
      BY <1>1
    <3>2. faults \in 0..MaxFaults
      BY <1>1, Constants
    <3>. QED BY <3>1, <3>2
  <2>5. ended \subseteq Records /\ announced \subseteq Records
    BY <1>1
  <2>. QED BY <2>1, <2>2, <2>3, <2>4, <2>5 DEF Typed, LostType
<1>5. serve.at = "waiting" /\ serve.got = None /\ serve.todo = <<>>
  BY <1>1 DEF Start
<1>6. Hands /\ Calling /\ Rowed
  BY <1>3, <1>5 DEF Hands, Calling, Rowed
<1>7. \A V : None \notin V => Count(queue, V) + Bit(writing \in V) = 0
  BY <1>3, CountEmpty DEF Bit
<1>8. Ours
  <2>1. None \notin Own
    BY Constants DEF Own
  <2>2. Count(putting, Own) = 0 /\ Bit(call[Executor].at = "putting") = 0 /\ Bit(call[Executor].at = "waiting") = 0
    BY <1>3, CountEmpty DEF Bit
  <2>3. <<>> \in Seq(Clean(Task))
    OBVIOUS
  <2>. QED BY <1>3, <1>7, <2>1, <2>2, <2>3 DEF Ours
<1>9. Accounts
  <2>. SUFFICES ASSUME NEW r \in Records PROVE Places(r) = Bit(r \in ended)
    BY DEF Accounts
  <2>1. Count(ring, With(r)) = 0 /\ Count(serve.todo, With(r)) = 0
    BY <1>1, <1>5, CountEmpty
  <2>2. InDb(r) = 0
    BY <1>7, Constants DEF InDb, Loose
  <2>3. GotOne(r) = 0 /\ BatchOne(r) = 0 /\ rows[r] = 0 /\ LostOnes(r) = 0 /\ Bit(r \in ended) = 0
    BY <1>1, <1>5 DEF GotOne, BatchOne, LostOnes, Bit
  <2>. QED BY <2>1, <2>2, <2>3 DEF Places
<1>10. CountersTell /\ AnnouncedHasRow
  BY <1>1, FS_EmptySet DEF CountersTell, AnnouncedHasRow
<1>. QED BY <1>2, <1>4, <1>6, <1>8, <1>9, <1>10 DEF ExecInv

LEMMA ExecStep ==
  ASSUME DbTypeOK, ExecInv, [Next]_vars
  PROVE  ExecInv'
<1>1. CASE \E r \in Records : Execute(r)
  BY <1>1, ExecuteInv
<1>2. CASE BackoffElapses
  BY <1>2, BackoffInv
<1>3. CASE GetItem
  BY <1>3, GetItemInv
<1>4. CASE Wakes
  BY <1>4, WakesInv
<1>5. CASE Reaped
  BY <1>5, DrainInv, ReturnInv
<1>6. CASE FlushQueue
  BY <1>6, FlushInv
<1>7. CASE Persisted
  BY <1>7, PersistedInv
<1>8. CASE Emit
  BY <1>8, EmitInv
<1>9. CASE NextBatch
  BY <1>9, NextBatchInv
<1>10. CASE OperationalError
  BY <1>10, OperationalErrorInv
<1>11. CASE Requeue
  BY <1>11, RequeueInv
<1>12. CASE IntegrityError
  BY <1>12, IntegrityErrorInv
<1>13. CASE OtherError
  BY <1>13, OtherErrorInv
<1>14. CASE Shutdown \/ ShutdownTimesOut
  BY <1>14, ShutdownInv
<1>15. CASE WriteEnds
  BY <1>15, WriteEndsInv
<1>16. CASE TakeWrite
  BY <1>16, TakeWriteInv
<1>17. CASE OtherEnqueues
  BY <1>17, OtherEnqueuesInv
<1>18. CASE \E c \in Others : OtherSubmits(c) \/ OtherReturns(c)
  BY <1>18, OtherCallersInv
<1>19. CASE StopDatabase \/ DatabaseJoined \/ DatabaseReopens
  <2>1. UNCHANGED <<queue, putting, writing, call>> /\ UNCHANGED exvars
    BY <1>19 DEF StopDatabase, StopAccepting, DatabaseJoined, Joined, DatabaseReopens, Reopen
  <2>. QED BY <2>1, DatabaseStaysInv
<1>20. CASE DatabaseCutOff
  BY <1>20, DatabaseCutOffInv
<1>21. CASE UNCHANGED vars
  <2>1. UNCHANGED <<queue, putting, writing, call>> /\ UNCHANGED exvars
    BY <1>21 DEF vars, dbvars
  <2>. QED BY <2>1, DatabaseStaysInv
<1>. QED BY <1>1, <1>2, <1>3, <1>4, <1>5, <1>6, <1>7, <1>8, <1>9, <1>10, <1>11, <1>12, <1>13, <1>14,
            <1>15, <1>16, <1>17, <1>18, <1>19, <1>20, <1>21 DEF Next

----------------------------------------------------------------------------
(* What the executor does to the database *)

\* A submit() of serve()'s that was idle or is back.
LEMMA SubmitStep ==
  ASSUME call[Executor].at \in {"idle", "back"}, NEW w \in Writes, Submit(Executor, w),
         UNCHANGED <<accepting, writing, stage, cut, restarts>>
  PROVE  DbNext
<1>1. CallerStep(Executor)
  BY DEF CallerStep
<1>. QED BY <1>1, Constants DEF DbNext

\* serve() takes the result of its submit(), or has none to take.
LEMMA ReturnStep ==
  ASSUME DbTypeOK, call[Executor].at = "back" \/ call[Executor] = Idle,
         call' = [call EXCEPT ![Executor] = Idle],
         UNCHANGED <<accepting, queue, putting, writing, stage, cut, restarts>>
  PROVE  [DbNext]_dbvars
<1>1. CASE call[Executor].at = "back"
  <2>1. CallerStep(Executor)
    BY <1>1 DEF CallerStep
  <2>. QED BY <2>1, Constants DEF DbNext
<1>2. CASE call[Executor] = Idle
  <2>1. call' = call
    BY <1>2, Constants DEF DbTypeOK
  <2>. QED BY <2>1 DEF dbvars
<1>. QED BY <1>1, <1>2

\* While serve() has no write under way its submit() is back, or it is in none.
LEMMA OutOfSubmit ==
  ASSUME ExecInv, call[Executor].at \notin {"putting", "waiting"}, DbTypeOK
  PROVE  call[Executor].at = "back" \/ call[Executor] = Idle
<1>1. serve.at \in States /\ Calling
  BY DEF ExecInv, Typed, ServeType
<1>. QED BY <1>1 DEF Calling, States

LEMMA ProceedStep ==
  ASSUME DbTypeOK, ExecInv, ExecInv', NEW todo, NEW left, Proceed(todo, left),
         serve.at \in {"reaping", "flushing", "emitting", "dropping"}
  PROVE  [DbNext]_dbvars
<1>1. call[Executor].at = "back" \/ call[Executor] = Idle
  BY DEF ExecInv, Calling
<1>2. call[Executor].at \in {"idle", "back"}
  BY <1>1 DEF Idle
<1>3. UNCHANGED <<accepting, writing, stage, cut, restarts>>
  BY DEF Proceed
<1>4. CASE call' = [call EXCEPT ![Executor] = Idle] /\ UNCHANGED <<queue, putting>>
  BY <1>1, <1>3, <1>4, ReturnStep
<1>5. CASE \E item : /\ serve' = [serve EXCEPT !.at = "persisting", !.got = None, !.op = "batch",
                                              !.batch = item, !.todo = Tail(Rest(todo))]
                     /\ Submit(Executor, [op |-> "batch", records |-> item.records])
  <2>1. PICK item : /\ serve' = [serve EXCEPT !.at = "persisting", !.got = None, !.op = "batch",
                                             !.batch = item, !.todo = Tail(Rest(todo))]
                    /\ Submit(Executor, [op |-> "batch", records |-> item.records])
    BY <1>5
  <2>2. serve \in ServeType
    BY DEF ExecInv, Typed
  <2>3. serve'.at = "persisting" /\ serve'.batch = item
    BY <2>1, <2>2 DEF ServeType
  <2>4. item \in Full
    BY <2>3 DEF ExecInv, Hands
  <2>5. [op |-> "batch", records |-> item.records] \in Writes
    BY <2>4, FullItems, Constants
  <2>. QED BY <1>2, <1>3, <2>1, <2>5, SubmitStep
<1>. QED BY <1>4, <1>5 DEF Proceed, Rest

LEMMA CancelStep ==
  ASSUME DbTypeOK, ExecInv, ServeCancelled
  PROVE  [DbNext]_dbvars
<1>1. Abandon(Executor) /\ UNCHANGED <<accepting, stage, cut, restarts>>
  BY DEF ServeCancelled
<1>2. CASE call[Executor].at \in {"putting", "waiting"}
  <2>1. CallerStep(Executor)
    BY <1>1, <1>2 DEF CallerStep
  <2>. QED BY <2>1, Constants DEF DbNext
<1>3. CASE call[Executor].at \notin {"putting", "waiting"}
  <2>1. call[Executor].at = "back" \/ call[Executor] = Idle
    BY <1>3, OutOfSubmit
  <2>2. /\ queue \in Seq(Clean(Task)) /\ writing \in Clean(Task) \cup {None}
        /\ Count(queue, Own) = 0 /\ writing \notin Own
    <3>1. Typed /\ Ours /\ call[Executor].at \in {"idle", "back"}
      BY <2>1 DEF ExecInv, Idle
    <3>. QED BY <3>1, NoneOwn DEF Ours
  <2>3. \A job \in Clean(Task) : job \notin Own => Unowned(Executor, job) = job
    BY CleanJobs DEF Unowned
  <2>4. queue' = queue
    <3>1. \A i \in DOMAIN queue : queue[i] \in Clean(Task) /\ queue[i] \notin Own
      BY <2>2, Elements, CountZero
    <3>2. \A i \in DOMAIN queue : Unowned(Executor, queue[i]) = queue[i]
      BY <2>3, <3>1
    <3>3. queue' = [i \in DOMAIN queue |-> Unowned(Executor, queue[i])]
      BY <1>1 DEF Abandon
    <3>4. queue = [i \in DOMAIN queue |-> queue[i]]
      BY <2>2
    <3>. QED BY <3>2, <3>3, <3>4
  <2>5. writing' = writing
    BY <1>1, <2>2, <2>3 DEF Abandon
  <2>6. putting' = putting /\ call' = [call EXCEPT ![Executor] = Idle]
    BY <1>1, <1>3 DEF Abandon
  <2>. QED BY <1>1, <2>1, <2>4, <2>5, <2>6, ReturnStep
<1>. QED BY <1>2, <1>3

LEMMA DatabaseStep ==
  ASSUME DbTypeOK, ExecInv, ExecInv', [Next]_vars
  PROVE  [DbNext]_dbvars
<1>1. CASE \/ \E r \in Records : Execute(r)
           \/ BackoffElapses \/ GetItem \/ Wakes \/ OperationalError \/ Requeue \/ OtherError
  BY <1>1 DEF Execute, BackoffElapses, GetItem, Wakes, OperationalError, Requeue, OtherError
<1>2. CASE Reaped
  <2>1. serve.at = "reaping"
    BY <1>2 DEF Reaped
  <2>2. CASE DrainAndPersist
    BY <2>1, <2>2, ProceedStep DEF DrainAndPersist
  <2>3. CASE UNCHANGED dbvars
    BY <2>3
  <2>. QED BY <1>2, <2>2, <2>3 DEF Reaped
<1>3. CASE FlushQueue \/ Emit \/ NextBatch
  BY <1>3, ProceedStep DEF FlushQueue, Emit, NextBatch
<1>4. CASE Persisted
  <2>1. call[Executor].at = "back"
    BY <1>4 DEF Persisted, Back
  <2>. QED BY <1>4, <2>1, ReturnStep DEF Persisted
<1>5. CASE IntegrityError
  <2>1. /\ call[Executor].at \in {"idle", "back"} /\ serve.batch.records \in SUBSET Records
        /\ Submit(Executor, [op |-> "fallback", records |-> serve.batch.records])
        /\ UNCHANGED <<accepting, writing, stage, cut, restarts>>
    BY <1>5, BackKnows DEF IntegrityError
  <2>2. [op |-> "fallback", records |-> serve.batch.records] \in Writes
    BY <2>1, Constants
  <2>. QED BY <2>1, <2>2, SubmitStep
<1>6. CASE Shutdown \/ ShutdownTimesOut
  BY <1>6, CancelStep DEF Shutdown, ShutdownTimesOut
<1>7. CASE WriteEnds
  <2>1. \E result \in Results : Written(result)
    BY <1>7 DEF WriteEnds, Answer, Results
  <2>. QED BY <2>1 DEF DbNext
<1>8. CASE TakeWrite
  BY <1>8 DEF TakeWrite, DbNext
<1>9. CASE OtherEnqueues
  BY <1>9, Constants DEF OtherEnqueues, DbNext
<1>10. CASE \E c \in Others : OtherSubmits(c) \/ OtherReturns(c)
  <2>1. PICK c \in Others : OtherSubmits(c) \/ OtherReturns(c)
    BY <1>10
  <2>2. c \in Callers
    BY Constants
  <2>3. CallerStep(c)
    <3>1. CASE OtherSubmits(c)
      BY <3>1, Constants DEF OtherSubmits, CallerStep
    <3>2. CASE OtherReturns(c)
      BY <3>2 DEF OtherReturns, CallerStep
    <3>. QED BY <2>1, <3>1, <3>2
  <2>. QED BY <2>2, <2>3 DEF DbNext
<1>11. CASE StopDatabase \/ DatabaseJoined \/ DatabaseReopens
  BY <1>11 DEF StopDatabase, DatabaseJoined, DatabaseReopens, DbNext
<1>12. CASE DatabaseCutOff
  BY <1>12 DEF DatabaseCutOff, DbNext
<1>13. CASE UNCHANGED vars
  BY <1>13 DEF vars
<1>. QED BY <1>1, <1>2, <1>3, <1>4, <1>5, <1>6, <1>7, <1>8, <1>9, <1>10, <1>11, <1>12, <1>13 DEF Next


----------------------------------------------------------------------------
(* The theorems *)

LEMMA ExecutorInvariant == Spec => [](DbInv /\ ExecInv)
<1>1. Init => DbInv /\ ExecInv
  BY ExecFirst
<1>2. DbInv /\ ExecInv /\ [Next]_vars => (DbInv /\ ExecInv)'
  <2>. SUFFICES ASSUME DbInv, ExecInv, [Next]_vars PROVE DbInv' /\ ExecInv'
    OBVIOUS
  <2>1. DbTypeOK
    BY DEF DbInv
  <2>2. ExecInv'
    BY <2>1, ExecStep
  <2>3. [DbNext]_dbvars
    BY <2>1, <2>2, DatabaseStep
  <2>. QED BY <2>2, <2>3, DbStep
<1>. QED BY <1>1, <1>2, PTL DEF Spec

\* All that the executor, the other callers and the shutdown do to the
\* database's queue is what its callers may do: submit while not in submit(),
\* take the result, be cancelled in it, enqueue.
THEOREM ImplementsDatabase == Spec => DbSpec
<1>1. Init => DbInit
  BY DEF Init
<1>2. DbInv /\ ExecInv /\ (DbInv /\ ExecInv)' /\ [Next]_vars => [DbNext]_dbvars
  BY DatabaseStep DEF DbInv
<1>. QED BY <1>1, <1>2, ExecutorInvariant, PTL DEF Spec, DbSpec

\* So the connections are closed only when every accepted write has ended.
THEOREM ExecutorClosesDrained == Spec => []NothingAfterClose
BY ImplementsDatabase, ClosedIsDrained, PTL

LEMMA TypesFollow ==
  ASSUME DbTypeOK, ExecInv
  PROVE  TypeOK
<1>1. /\ ring \in Seq(Full) /\ serve \in ServeType /\ serve.todo \in Seq(Full)
      /\ lost \in LostType /\ drops \in [overflow : Nat, exhausted : Nat]
      /\ ended \subseteq Records /\ announced \subseteq Records /\ Len(ring) <= TelemetryQueueMax
      /\ rows \in [Records -> Nat] /\ faults \in 0..MaxFaults
  BY DEF ExecInv, Typed, ServeType, LostType
<1>2. \A item \in Full : ItemOK(item)
  BY FullItems DEF ItemOK
<1>3. (\A i \in DOMAIN ring : ItemOK(ring[i])) /\ \A i \in DOMAIN serve.todo : ItemOK(serve.todo[i])
  <2>1. (\A i \in DOMAIN ring : ring[i] \in Full) /\ \A i \in DOMAIN serve.todo : serve.todo[i] \in Full
    BY <1>1, Elements
  <2>. QED BY <1>2, <2>1
<1>4. serve.at \in States
  BY <1>1 DEF ServeType
<1>5. serve.at = "persisting" => ItemOK(serve.batch)
  BY <1>2 DEF ExecInv, Hands
<1>6. \A why \in Reasons : lost[why] \subseteq Records
  BY <1>1 DEF Reasons, LostType
<1>7. \A which \in DOMAIN drops : drops[which] \in Nat
  BY <1>1
<1>. QED BY <1>1, <1>3, <1>4, <1>5, <1>6, <1>7 DEF TypeOK

\* The state keeps its type; the queue keeps its bound and what is on it, being
\* drained or being persisted has records.
THEOREM ExecutorTypeCorrect == Spec => []TypeOK
<1>1. DbInv /\ ExecInv => TypeOK
  BY TypesFollow DEF DbInv
<1>. QED BY <1>1, ExecutorInvariant, PTL

LEMMA AccountsFollow ==
  ASSUME DbTypeOK, ExecInv
  PROVE  RecordAccounted
<1>1. ASSUME NEW r \in Records
      PROVE  OnQueue(r) + InHand(r) + InDatabase(r) + rows[r]
                 + Cardinality({why \in Reasons : r \in lost[why]})
               = IF r \in ended THEN 1 ELSE 0
  <2>1. /\ Count(ring, With(r)) + GotOne(r) + Count(serve.todo, With(r)) + BatchOne(r)
             + InDb(r) + rows[r] + LostOnes(r) = Bit(r \in ended)
        /\ Count(ring, With(r)) \in Nat /\ GotOne(r) \in {0, 1} /\ Count(serve.todo, With(r)) \in Nat
        /\ BatchOne(r) \in {0, 1} /\ InDb(r) \in Nat /\ rows[r] \in Nat /\ LostOnes(r) \in Nat
        /\ Bit(r \in ended) \in {0, 1}
    BY SumOf
  <2>2. ASSUME NEW s \in Seq(Full)
        PROVE  Cardinality({i \in DOMAIN s : r \in s[i].records}) = Count(s, With(r))
    <3>1. \A i \in DOMAIN s : r \in s[i].records <=> s[i] \in With(r)
      BY Elements, FullItems
    <3>2. {i \in DOMAIN s : r \in s[i].records} = Hits(s, With(r))
      BY <3>1 DEF Hits
    <3>. QED BY <3>2 DEF Count
  <2>3. OnQueue(r) = Count(ring, With(r))
    <3>1. ring \in Seq(Full)
      BY DEF ExecInv, Typed
    <3>. QED BY <2>2, <3>1 DEF OnQueue
  <2>4. InHand(r) = GotOne(r) + Count(serve.todo, With(r)) + BatchOne(r)
    <3>1. serve.todo \in Seq(Full)
      BY DEF ExecInv, Typed, ServeType
    <3>2. Cardinality({i \in DOMAIN serve.todo : r \in serve.todo[i].records}) = Count(serve.todo, With(r))
      BY <2>2, <3>1
    <3>. QED BY <3>2 DEF InHand, GotOne, BatchOne, Bit
  <2>5. InDatabase(r) = InDb(r)
    <3>. DEFINE last == IF writing = None THEN <<>> ELSE <<writing>>
                jobs == queue \o putting \o last
    <3>1. queue \in Seq(Jobs) /\ putting \in Seq(Jobs) /\ writing \in Jobs \cup {None}
          /\ \A i \in DOMAIN putting : putting[i].by # None
      <4>1. queue \in Seq(Jobs) /\ putting \in Seq([by : Callers, what : Writes]) /\ writing \in Jobs \cup {None}
        BY DEF DbTypeOK
      <4>2. [by : Callers, what : Writes] \subseteq Jobs
        BY DEF Jobs
      <4>3. putting \in Seq(Jobs)
        BY <4>1, <4>2, WiderSeq
      <4>4. \A i \in DOMAIN putting : putting[i] \in [by : Callers, what : Writes]
        BY <4>1, Elements
      <4>. QED BY <4>1, <4>3, <4>4, Constants
    <3>2. last \in Seq(Jobs) /\ Count(last, Loose(r)) = Bit(writing \in Loose(r))
      <4>1. CASE writing = None
        <5>1. last = <<>> /\ writing \notin Loose(r)
          BY <4>1, Constants DEF Loose
        <5>2. <<>> \in Seq(Jobs)
          OBVIOUS
        <5>. QED BY <5>1, <5>2, CountEmpty DEF Bit
      <4>2. CASE writing # None
        <5>1. last = <<writing>> /\ writing \in Jobs
          BY <3>1, <4>2
        <5>. QED BY <5>1, OneElement, CountOne
      <4>. QED BY <4>1, <4>2
    <3>. HIDE DEF last
    <3>3. /\ queue \o putting \in Seq(Jobs)
          /\ Count(queue \o putting, Loose(r)) = Count(queue, Loose(r)) + Count(putting, Loose(r))
      BY <3>1, ConcatProperties, CountConcat
    <3>4. /\ jobs \in Seq(Jobs)
          /\ Count(jobs, Loose(r)) = Count(queue \o putting, Loose(r)) + Count(last, Loose(r))
      <4>. DEFINE front == queue \o putting
      <4>1. front \in Seq(Jobs) /\ last \in Seq(Jobs)
        BY <3>2, <3>3
      <4>. HIDE DEF front
      <4>2. front \o last \in Seq(Jobs) /\ Count(front \o last, Loose(r)) = Count(front, Loose(r)) + Count(last, Loose(r))
        BY <4>1, ConcatProperties, CountConcat
      <4>. QED BY <4>2 DEF front
    <3>5. Count(putting, Loose(r)) = 0
      <4>1. \A i \in DOMAIN putting : putting[i] \notin Loose(r)
        BY <3>1 DEF Loose
      <4>. QED BY <3>1, <4>1, CountZero
    <3>6. InDatabase(r) = Cardinality({i \in DOMAIN jobs : jobs[i].by = None /\ r \in jobs[i].what.records})
      BY DEF InDatabase, last
    <3>. HIDE DEF jobs
    <3>7. {i \in DOMAIN jobs : jobs[i].by = None /\ r \in jobs[i].what.records} = Hits(jobs, Loose(r))
      <4>1. \A i \in DOMAIN jobs : jobs[i] \in Jobs
        BY <3>4, Elements
      <4>. QED BY <4>1 DEF Hits, Loose
    <3>8. Count(queue, Loose(r)) \in Nat
      BY <3>1, CountType
    <3>9. InDatabase(r) = Count(jobs, Loose(r))
      BY <3>6, <3>7 DEF Count
    <3>. QED BY <3>2, <3>3, <3>4, <3>5, <3>8, <3>9 DEF InDb
  <2>6. Cardinality({why \in Reasons : r \in lost[why]}) = LostOnes(r)
    <3>. DEFINE gone == {why \in Reasons : r \in lost[why]}
    <3>1. LostOnes(r) \in {0, 1}
      <4>. DEFINE a == Count(ring, With(r))  b == GotOne(r)  c == Count(serve.todo, With(r))  d == BatchOne(r)
                  e == InDb(r)  f == rows[r]  g == LostOnes(r)  h == Bit(r \in ended)
      <4>1. /\ a + b + c + d + e + f + g = h
            /\ a \in Nat /\ b \in {0, 1} /\ c \in Nat /\ d \in {0, 1} /\ e \in Nat /\ f \in Nat /\ g \in Nat /\ h \in {0, 1}
        BY <2>1
      <4>2. g \in {0, 1}
        <5>. HIDE DEF a, b, c, d, e, f, g, h
        <5>. QED BY ONLY <4>1
      <4>. QED BY <4>2
    <3>2. CASE LostOnes(r) = 0
      <4>1. r \notin lost.overflow /\ r \notin lost.exhausted /\ r \notin lost.logged /\ r \notin lost.cancelled
        BY <3>2 DEF LostOnes, Bit
      <4>2. gone = {}
        BY <4>1 DEF Reasons
      <4>. QED BY <3>2, <4>2, FS_EmptySet
    <3>3. CASE LostOnes(r) = 1
      <4>1. \E why \in Reasons : r \in lost[why] /\ \A other \in Reasons : r \in lost[other] => other = why
        <5>1. \/ r \in lost.overflow /\ r \notin lost.exhausted /\ r \notin lost.logged /\ r \notin lost.cancelled
              \/ r \notin lost.overflow /\ r \in lost.exhausted /\ r \notin lost.logged /\ r \notin lost.cancelled
              \/ r \notin lost.overflow /\ r \notin lost.exhausted /\ r \in lost.logged /\ r \notin lost.cancelled
              \/ r \notin lost.overflow /\ r \notin lost.exhausted /\ r \notin lost.logged /\ r \in lost.cancelled
          BY <3>3 DEF LostOnes, Bit
        <5>. QED BY <5>1 DEF Reasons
      <4>2. PICK why \in Reasons : r \in lost[why] /\ \A other \in Reasons : r \in lost[other] => other = why
        BY <4>1
      <4>3. gone = {why}
        BY <4>2
      <4>. QED BY <3>3, <4>3, FS_Singleton
    <3>. QED BY <3>1, <3>2, <3>3
  <2>7. (IF r \in ended THEN 1 ELSE 0) = Bit(r \in ended)
    BY DEF Bit
  <2>. DEFINE a == Count(ring, With(r))  b == GotOne(r)  c == Count(serve.todo, With(r))  d == BatchOne(r)
              e == InDb(r)  f == rows[r]  g == LostOnes(r)  h == Bit(r \in ended)
  <2>8. /\ a + b + c + d + e + f + g = h
        /\ a \in Nat /\ b \in {0, 1} /\ c \in Nat /\ d \in {0, 1} /\ e \in Nat /\ f \in Nat /\ g \in Nat
    BY <2>1
  <2>9. a + (b + c + d) + e + f + g = h
    <3>. HIDE DEF a, b, c, d, e, f, g, h
    <3>. QED BY ONLY <2>8
  <2>. QED BY <2>3, <2>4, <2>5, <2>6, <2>7, <2>9
<1>. QED BY <1>1 DEF RecordAccounted, ExecInv

\* Every execution that has ended has its record in one place: nothing that
\* fails, is retried, deferred, cancelled or restarted duplicates or forgets
\* it; the drop counters and the completion events tell the truth.
THEOREM RecordsAreAccounted == Spec => []RecordAccounted
<1>1. DbInv /\ ExecInv => RecordAccounted
  BY AccountsFollow DEF DbInv
<1>. QED BY <1>1, ExecutorInvariant, PTL
=============================================================================
