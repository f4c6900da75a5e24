-------------------------- MODULE BusServiceProofs --------------------------
(***************************************************************************)
(* Proofs about BusService for any listeners, names, scenarios, dispatch   *)
(* slots and number of events: its counters count what they are kept for,  *)
(* a hold and its cancel listener come and go together, a name belongs to  *)
(* a live listener, and no handler is started that is not due.             *)
(***************************************************************************)
EXTENDS BusService, TLAPS, FiniteSetTheorems, FunctionTheorems, SequenceTheorems

----------------------------------------------------------------------------
(* Counting in sequences of tasks *)

\* The positions of s with a task of one of the kinds, and their number.
Hits(s, kinds) == {i \in DOMAIN s : s[i].kind \in kinds}
Number(s, kinds) == Cardinality(Hits(s, kinds))
Bit(b) == IF b THEN 1 ELSE 0

LEMMA NumberType ==
  ASSUME NEW S, NEW s \in Seq(S), NEW K
  PROVE  /\ Hits(s, K) \subseteq 1..Len(s) /\ Len(s) \in Nat /\ DOMAIN s = 1..Len(s)
         /\ IsFiniteSet(Hits(s, K)) /\ Number(s, K) \in Nat
<1>1. DOMAIN s = 1..Len(s) /\ Len(s) \in Nat
  BY LenProperties
<1>2. IsFiniteSet(1..Len(s))
  BY <1>1, FS_Interval
<1>3. Hits(s, K) \subseteq 1..Len(s)
  BY <1>1 DEF Hits
<1>4. IsFiniteSet(Hits(s, K))
  BY <1>2, <1>3, FS_Subset
<1>. QED BY <1>1, <1>3, <1>4, FS_CardinalityType DEF Number

\* A shift keeps the number of positions.
LEMMA Shifted ==
  ASSUME NEW B, IsFiniteSet(B), B \subseteq Nat, NEW m \in Nat
  PROVE  LET T == {i + m : i \in B} IN IsFiniteSet(T) /\ Cardinality(T) = Cardinality(B)
<1>. DEFINE T == {i + m : i \in B}
            f == [i \in B |-> i + m]
<1>1. f \in [B -> T]
  OBVIOUS
<1>2. \A a, b \in B : f[a] = f[b] => a = b
  OBVIOUS
<1>3. \A y \in T : \E a \in B : f[a] = y
  OBVIOUS
<1>4. f \in Bijection(B, T)
  BY <1>1, <1>2, <1>3 DEF Bijection, Injection, Surjection, IsInjective
<1>5. ExistsBijection(B, T)
  BY <1>4 DEF ExistsBijection
<1>. QED BY <1>5, FS_Bijection

LEMMA NumberConcat ==
  ASSUME NEW S, NEW s \in Seq(S), NEW t \in Seq(S), NEW K
  PROVE  Number(s \o t, K) = Number(s, K) + Number(t, K)
<1>. DEFINE m == Len(s)
            T == {i + m : i \in Hits(t, K)}
<1>1. /\ Hits(s, K) \subseteq 1..m /\ m \in Nat /\ IsFiniteSet(Hits(s, K)) /\ Number(s, K) \in Nat
      /\ Hits(t, K) \subseteq 1..Len(t) /\ Len(t) \in Nat /\ IsFiniteSet(Hits(t, K)) /\ Number(t, K) \in Nat
  BY NumberType
<1>2. Hits(t, K) \subseteq Nat
  BY <1>1
<1>3. IsFiniteSet(T) /\ Cardinality(T) = Number(t, K)
  BY <1>1, <1>2, Shifted DEF Number
<1>4. /\ DOMAIN (s \o t) = 1..(m + Len(t)) /\ DOMAIN s = 1..m /\ DOMAIN t = 1..Len(t)
      /\ \A i \in 1..(m + Len(t)) : (s \o t)[i] = IF i <= m THEN s[i] ELSE t[i - m]
  BY ConcatProperties, LenProperties
<1>5. \A i : i \in Hits(s \o t, K) => i \in Hits(s, K) \/ i \in T
  <2>. SUFFICES ASSUME NEW i \in Hits(s \o t, K) PROVE i \in Hits(s, K) \/ i \in T
    OBVIOUS
  <2>1. i \in 1..(m + Len(t)) /\ (s \o t)[i].kind \in K
    BY <1>4 DEF Hits
  <2>2. CASE i <= m
    <3>1. i \in DOMAIN s /\ s[i].kind \in K
      BY <1>1, <1>4, <2>1, <2>2
    <3>. QED BY <3>1 DEF Hits
  <2>3. CASE ~(i <= m)
    <3>1. i - m \in DOMAIN t /\ t[i - m].kind \in K
      BY <1>1, <1>4, <2>1, <2>3
    <3>2. i - m \in Hits(t, K) /\ i = (i - m) + m
      BY <1>1, <2>1, <3>1 DEF Hits
    <3>. QED BY <3>2
  <2>. QED BY <2>2, <2>3
<1>6. \A i : i \in Hits(s, K) => i \in Hits(s \o t, K)
  <2>. SUFFICES ASSUME NEW i \in Hits(s, K) PROVE i \in Hits(s \o t, K)
    OBVIOUS
  <2>1. i \in 1..m /\ s[i].kind \in K
    BY <1>1 DEF Hits
  <2>2. i \in 1..(m + Len(t)) /\ i <= m
    BY <1>1, <2>1
  <2>3. (s \o t)[i] = s[i] /\ i \in DOMAIN (s \o t)
    BY <1>4, <2>2
  <2>. QED BY <2>1, <2>3 DEF Hits
<1>7. \A k : k \in Hits(t, K) => k + m \in Hits(s \o t, K)
  <2>. SUFFICES ASSUME NEW k \in Hits(t, K) PROVE k + m \in Hits(s \o t, K)
    OBVIOUS
  <2>1. k \in 1..Len(t) /\ t[k].kind \in K
    BY <1>1 DEF Hits
  <2>2. k + m \in 1..(m + Len(t)) /\ ~(k + m <= m) /\ (k + m) - m = k
    BY <1>1, <2>1
  <2>3. (s \o t)[k + m] = t[k] /\ k + m \in DOMAIN (s \o t)
    BY <1>4, <2>2
  <2>. QED BY <2>1, <2>3 DEF Hits
<1>8. Hits(s \o t, K) = Hits(s, K) \cup T
  BY <1>5, <1>6, <1>7
<1>9. \A i \in T : i \notin 1..m
  BY <1>1
<1>10. Hits(s, K) \cap T = {}
  BY <1>1, <1>9
<1>11. Cardinality(Hits(s, K) \cap T) = 0
  BY <1>10, FS_EmptySet
<1>12. Cardinality(Hits(s, K) \cup T)
         = Cardinality(Hits(s, K)) + Cardinality(T) - Cardinality(Hits(s, K) \cap T)
  BY <1>1, <1>3, FS_Union
<1>13. Cardinality(Hits(s \o t, K)) = Cardinality(Hits(s, K)) + Cardinality(T)
  <2>. HIDE DEF T
  <2>1. Cardinality(Hits(s, K)) \in Nat /\ Cardinality(T) \in Nat
    BY <1>1, <1>3 DEF Number
  <2>. QED BY <1>8, <1>11, <1>12, <2>1
<1>. QED BY <1>3, <1>13 DEF Number

LEMMA NumberOne ==
  ASSUME NEW e, NEW K
  PROVE  Number(<<e>>, K) = Bit(e.kind \in K)
<1>1. DOMAIN <<e>> = {1} /\ <<e>>[1] = e
  OBVIOUS
<1>2. Hits(<<e>>, K) = IF e.kind \in K THEN {1} ELSE {}
  BY <1>1 DEF Hits
<1>. QED BY <1>2, FS_EmptySet, FS_Singleton DEF Number, Bit

LEMMA NumberZero ==
  ASSUME NEW s, NEW K, \A i \in DOMAIN s : s[i].kind \notin K
  PROVE  Number(s, K) = 0
<1>1. Hits(s, K) = {}
  BY DEF Hits
<1>. QED BY <1>1, FS_EmptySet DEF Number

LEMMA NumberAll ==
  ASSUME NEW S, NEW s \in Seq(S), NEW K, \A i \in DOMAIN s : s[i].kind \in K
  PROVE  Number(s, K) = Len(s)
<1>1. DOMAIN s = 1..Len(s) /\ Len(s) \in Nat
  BY LenProperties
<1>2. Hits(s, K) = 1..Len(s)
  BY <1>1 DEF Hits
<1>3. Cardinality(1..Len(s)) = IF 1 > Len(s) THEN 0 ELSE Len(s) - 1 + 1
  BY <1>1, FS_Interval
<1>4. Cardinality(1..Len(s)) = Len(s)
  BY <1>1, <1>3
<1>. QED BY <1>2, <1>4 DEF Number

LEMMA NumberAppend ==
  ASSUME NEW S, NEW s \in Seq(S), NEW e \in S, NEW K
  PROVE  Append(s, e) \in Seq(S) /\ Number(Append(s, e), K) = Number(s, K) + Bit(e.kind \in K)
<1>1. <<e>> \in Seq(S)
  OBVIOUS
<1>2. Append(s, e) = s \o <<e>>
  BY AppendIsConcat
<1>3. Number(s \o <<e>>, K) = Number(s, K) + Number(<<e>>, K)
  BY <1>1, NumberConcat
<1>4. Append(s, e) \in Seq(S)
  BY AppendProperties
<1>. QED BY <1>2, <1>3, <1>4, NumberOne

LEMMA NumberHead ==
  ASSUME NEW S, NEW s \in Seq(S), s # <<>>, NEW K
  PROVE  /\ Head(s) \in S /\ Head(s) = s[1] /\ 1 \in DOMAIN s /\ Tail(s) \in Seq(S)
         /\ Len(Tail(s)) = Len(s) - 1
         /\ \A i \in DOMAIN Tail(s) : i \in Nat /\ i + 1 \in DOMAIN s /\ Tail(s)[i] = s[i + 1]
         /\ Number(s, K) = Bit(Head(s).kind \in K) + Number(Tail(s), K)
<1>1. Head(s) \in S /\ Tail(s) \in Seq(S) /\ Tail(s) = SubSeq(s, 2, Len(s)) /\ Len(Tail(s)) = Len(s) - 1
  BY HeadTailProperties, TailIsSubSeq
<1>2. Len(s) \in Nat /\ Len(s) # 0 /\ Head(s) = s[1] /\ DOMAIN s = 1..Len(s)
  BY EmptySeq, LenProperties
<1>3. SubSeq(s, 1, Len(s)) = <<s[1]>> \o SubSeq(s, 2, Len(s))
  <2>1. 1 \in 1..Len(s) /\ Len(s) \in 1..Len(s) /\ 1 + 1 = 2
    BY <1>2
  <2>. QED BY <2>1, SubSeqRecursiveFirst
<1>4. s = <<Head(s)>> \o Tail(s)
  BY <1>1, <1>2, <1>3, SubSeqFull
<1>5. <<Head(s)>> \in Seq(S)
  BY <1>1
<1>6. Number(<<Head(s)>> \o Tail(s), K) = Number(<<Head(s)>>, K) + Number(Tail(s), K)
  <2>. DEFINE h == <<Head(s)>>   t == Tail(s)
  <2>1. h \in Seq(S) /\ t \in Seq(S)
    BY <1>1, <1>5
  <2>. HIDE DEF h, t
  <2>2. Number(h \o t, K) = Number(h, K) + Number(t, K)
    BY ONLY <2>1, NumberConcat
  <2>. QED BY ONLY <2>2 DEF h, t
<1>7. 1 \in DOMAIN s
  BY <1>2
<1>8. \A i \in DOMAIN Tail(s) : i \in Nat /\ i + 1 \in DOMAIN s /\ Tail(s)[i] = s[i + 1]
  <2>1. DOMAIN Tail(s) = 1..(Len(s) - 1)
    BY <1>1, LenProperties
  <2>2. \A i \in 1..(Len(s) - 1) : i \in Nat /\ i + 1 \in 1..Len(s) /\ Tail(s)[i] = s[i + 1]
    BY <1>2, HeadTailProperties
  <2>. QED BY <1>2, <2>1, <2>2
<1>. QED BY <1>1, <1>2, <1>4, <1>6, <1>7, <1>8, NumberOne

----------------------------------------------------------------------------
(* The elements of a sequence at some positions *)

Rank(I, i) == Cardinality({j \in I : j <= i})

\* The positions are numbered in their order.
LEMMA RankFacts ==
  ASSUME NEW n \in Nat, NEW I, I \subseteq 1..n
  PROVE  /\ IsFiniteSet(I) /\ Cardinality(I) \in Nat
         /\ \A i \in I : Rank(I, i) \in 1..Cardinality(I)
         /\ \A i, j \in I : i < j => Rank(I, i) < Rank(I, j)
         /\ \A k \in 1..Cardinality(I) : \E i \in I : Rank(I, i) = k
<1>1. IsFiniteSet(I) /\ Cardinality(I) \in Nat
  <2>1. IsFiniteSet(1..n)
    BY FS_Interval
  <2>2. IsFiniteSet(I)
    BY <2>1, FS_Subset
  <2>. QED BY <2>2, FS_CardinalityType
<1>. DEFINE Upto(i) == {j \in I : j <= i}
<1>2. \A i : Upto(i) \subseteq I /\ IsFiniteSet(Upto(i)) /\ Cardinality(Upto(i)) \in Nat
             /\ Cardinality(Upto(i)) <= Cardinality(I)
  <2>. SUFFICES ASSUME NEW i
                PROVE  /\ Upto(i) \subseteq I /\ IsFiniteSet(Upto(i)) /\ Cardinality(Upto(i)) \in Nat
                       /\ Cardinality(Upto(i)) <= Cardinality(I)
    OBVIOUS
  <2>1. Upto(i) \subseteq I
    OBVIOUS
  <2>. HIDE DEF Upto
  <2>2. IsFiniteSet(Upto(i)) /\ Cardinality(Upto(i)) <= Cardinality(I)
    BY <1>1, <2>1, FS_Subset
  <2>. QED BY <2>1, <2>2, FS_CardinalityType
<1>3. \A i \in I : i \in Upto(i)
  OBVIOUS
<1>4. ASSUME NEW i \in I PROVE Cardinality(Upto(i)) \in 1..Cardinality(I)
  <2>1. Upto(i) # {}
    BY <1>3
  <2>. HIDE DEF Upto
  <2>2. Cardinality(Upto(i)) # 0
    BY <1>2, <2>1, FS_EmptySet
  <2>. QED BY <1>1, <1>2, <2>2
<1>5. ASSUME NEW i \in I, NEW j \in I, i < j PROVE Cardinality(Upto(i)) < Cardinality(Upto(j))
  <2>0. I \subseteq Nat /\ i \in Nat /\ j \in Nat
    OBVIOUS
  <2>1. j \notin Upto(i) /\ Upto(i) \cup {j} \subseteq Upto(j)
    <3>1. ~(j <= i) /\ \A x \in I : x <= i => x <= j
      BY <1>5, <2>0
    <3>2. \A x : x \in Upto(i) <=> x \in I /\ x <= i
      OBVIOUS
    <3>3. \A x : x \in Upto(j) <=> x \in I /\ x <= j
      OBVIOUS
    <3>4. j <= j
      BY <2>0
    <3>. HIDE DEF Upto
    <3>. QED BY <3>1, <3>2, <3>3, <3>4
  <2>. HIDE DEF Upto
  <2>2. IsFiniteSet(Upto(i) \cup {j}) /\ Cardinality(Upto(i) \cup {j}) = Cardinality(Upto(i)) + 1
    BY <1>2, <2>1, FS_AddElement
  <2>3. Cardinality(Upto(i) \cup {j}) <= Cardinality(Upto(j))
    BY <1>2, <2>1, FS_Subset
  <2>. QED BY <1>2, <2>2, <2>3
<1>6. \A i : Rank(I, i) = Cardinality(Upto(i))
  BY DEF Rank
<1>. HIDE DEF Upto
<1>7. \A i, j \in I : Rank(I, i) = Rank(I, j) => i = j
  <2>. SUFFICES ASSUME NEW i \in I, NEW j \in I, i # j PROVE Rank(I, i) # Rank(I, j)
    OBVIOUS
  <2>1. i < j \/ j < i
    OBVIOUS
  <2>2. Cardinality(Upto(i)) \in Nat /\ Cardinality(Upto(j)) \in Nat
    BY <1>2
  <2>3. i < j => Cardinality(Upto(i)) < Cardinality(Upto(j))
    BY <1>5
  <2>4. j < i => Cardinality(Upto(j)) < Cardinality(Upto(i))
    BY <1>5
  <2>. QED BY <1>6, <2>1, <2>2, <2>3, <2>4
<1>8. \A k \in 1..Cardinality(I) : \E i \in I : Rank(I, i) = k
  <2>. DEFINE f == [i \in I |-> Rank(I, i)]
              N == 1..Cardinality(I)
  <2>1. f \in Injection(I, N)
    BY <1>4, <1>6, <1>7 DEF Injection, IsInjective
  <2>2. IsFiniteSet(N) /\ Cardinality(N) = Cardinality(I)
    <3>1. IsFiniteSet(N) /\ Cardinality(N) = IF 1 > Cardinality(I) THEN 0 ELSE Cardinality(I) - 1 + 1
      BY <1>1, FS_Interval
    <3>. QED BY <1>1, <3>1
  <2>. HIDE DEF N
  <2>3. f \in Surjection(I, N)
    <3>. HIDE DEF f
    <3>. QED BY <2>1, <2>2, FS_Injection
  <2>4. \A k \in N : \E i \in I : f[i] = k
    BY <2>3 DEF Surjection
  <2>. QED BY <2>4 DEF N
<1>. QED BY <1>1, <1>4, <1>5, <1>6, <1>8

\* Where the k-th of the positions I is.
Nth(I, k) == CHOOSE i \in I : Rank(I, i) = k

LEMMA KeptFacts ==
  ASSUME NEW S, NEW s \in Seq(S), NEW I, I \subseteq DOMAIN s
  PROVE  /\ Kept(s, I) \in Seq(S) /\ DOMAIN Kept(s, I) = 1..Cardinality(I) /\ Cardinality(I) \in Nat
         /\ \A k \in DOMAIN Kept(s, I) : Nth(I, k) \in I /\ Kept(s, I)[k] = s[Nth(I, k)]
         /\ \A k, m \in DOMAIN Kept(s, I) : k < m => Nth(I, k) < Nth(I, m)
         /\ \A i \in I : \E k \in DOMAIN Kept(s, I) : Nth(I, k) = i
<1>1. DOMAIN s = 1..Len(s) /\ Len(s) \in Nat
  BY LenProperties
<1>2. /\ Cardinality(I) \in Nat
      /\ \A i \in I : Rank(I, i) \in 1..Cardinality(I)
      /\ \A i, j \in I : i < j => Rank(I, i) < Rank(I, j)
      /\ \A k \in 1..Cardinality(I) : \E i \in I : Rank(I, i) = k
  BY <1>1, RankFacts
<1>3. \A k \in 1..Cardinality(I) : Nth(I, k) \in I /\ Rank(I, Nth(I, k)) = k
  BY <1>2 DEF Nth
<1>4. Kept(s, I) = [k \in 1..Cardinality(I) |-> s[Nth(I, k)]]
  BY DEF Kept, Nth, Rank
<1>5. \A k \in 1..Cardinality(I) : s[Nth(I, k)] \in S
  BY <1>1, <1>3, ElementOfSeq
<1>6. Kept(s, I) \in Seq(S)
  BY <1>2, <1>4, <1>5
<1>7. I \subseteq Nat
  BY <1>1
<1>8. \A k, m \in 1..Cardinality(I) : k < m => Nth(I, k) < Nth(I, m)
  <2>. SUFFICES ASSUME NEW k \in 1..Cardinality(I), NEW m \in 1..Cardinality(I), k < m
                PROVE  Nth(I, k) < Nth(I, m)
    OBVIOUS
  <2>. DEFINE i == Nth(I, k)   j == Nth(I, m)
  <2>1. i \in I /\ j \in I /\ Rank(I, i) = k /\ Rank(I, j) = m
    BY <1>3
  <2>. HIDE DEF i, j
  <2>2. j < i => m < k
    BY <1>2, <2>1
  <2>3. i # j /\ ~(j < i)
    BY <1>2, <2>1, <2>2
  <2>. QED BY <1>7, <2>1, <2>3 DEF i, j
<1>9. ASSUME NEW i \in I PROVE \E k \in 1..Cardinality(I) : Nth(I, k) = i
  <2>. DEFINE k == Rank(I, i)
  <2>1. k \in 1..Cardinality(I) /\ Nth(I, k) \in I /\ Rank(I, Nth(I, k)) = k
    BY <1>2, <1>3
  <2>2. ~(Nth(I, k) < i) /\ ~(i < Nth(I, k))
    BY <1>2, <2>1
  <2>3. Nth(I, k) = i
    BY <1>7, <2>1, <2>2
  <2>. QED BY <2>1, <2>3
<1>. QED BY <1>2, <1>3, <1>4, <1>6, <1>8, <1>9

----------------------------------------------------------------------------
(* The inductive invariant *)

Changes == [old : States, new : States]
Kinds == {"main", "cancel", "proxy", "immediate", "release", "done", "settled", "go"}
TaskType == [kind : Kinds, l : Listeners \cup {None}, e : Changes \cup {None}]
RouteType == [kind : {"main", "cancel"}, l : Listeners]

\* The tasks about an event, and those that steps of handlers and timers add.
Pipe == {"main", "cancel", "proxy"}
Others == {"immediate", "release", "done", "settled"}

BusType ==
    [keys : [Names -> Listeners \cup {None}], routes : Seq(RouteType),
     cancelled : SUBSET Listeners, fired : SUBSET Listeners,
     timer : [Listeners -> {"none", "sleeping"}], left : SUBSET Listeners, holding : Int,
     delayed : SUBSET app.debounced, owed : SUBSET app.debounced, shut : SUBSET app.throttled,
     running : [Listeners -> [Via -> Nat]], slots : Int, pending : Int,
     loop : [at : {"waiting", "queued", "blocked", "woken"}, todo : Seq(TaskType)],
     ready : Seq(TaskType)]

On(routes, kind, l) == \E i \in DOMAIN routes : routes[i] = Route(kind, l)
Distinct(s) == \A i, j \in DOMAIN s : s[i] = s[j] => i = j

\* What a task relies on, when the listeners S have been routed.
TaskOK(t, S) ==
    /\ t.kind \in {"main", "cancel", "immediate"} => t.l \in S
    /\ t.kind = "release" => t.l \in Listeners
    /\ t.kind = "proxy" => t.l = None
    /\ t.kind \in Pipe => t.e \in Changes
    /\ t.kind = "main" => Matches(t.l, t.e)
    /\ t.kind = "immediate" => t.l \in app.immediate

Tasked(b, S) ==
    /\ \A i \in DOMAIN b.ready : TaskOK(b.ready[i], S)
    /\ \A i \in DOMAIN b.loop.todo : TaskOK(b.loop.todo[i], S) /\ b.loop.todo[i].kind \in Pipe

\* A live listener that was routed is routed, a sleeping timer has its cancel
\* listener, and a cancel listener its timer.
Routed(b, S) ==
    /\ Distinct(b.routes)
    /\ \A l \in Listeners : /\ On(b.routes, "main", l) => l \in S
                            /\ l \in S \ b.cancelled => On(b.routes, "main", l)
                            /\ On(b.routes, "cancel", l) => b.timer[l] = "sleeping"
                            /\ b.timer[l] = "sleeping" /\ l \notin b.cancelled => On(b.routes, "cancel", l)

\* Timers, debounce tasks and handlers are those of routed listeners.
Used(b, S) ==
    /\ \A l \in Listeners : b.timer[l] = "sleeping" => l \in S /\ l \in app.held
    /\ b.delayed \subseteq S /\ b.delayed \cap b.cancelled = {}
    /\ \A l \in Listeners : \A v \in Via : b.running[l][v] > 0 => l \in S

\* Debounced handlers do not overlap.
OneLate(b) ==
    \A l \in Listeners : /\ b.running[l]["late"] <= 1
                         /\ l \in b.delayed \cap app.parallel => b.running[l]["late"] = 0

Sound(b, S) == b \in BusType /\ Tasked(b, S) /\ Routed(b, S) /\ Used(b, S) /\ OneLate(b)

\* A name is held by a live listener that is routed or about to be.
Named(b, S) ==
    \A n \in Names : LET l == b.keys[n] IN l # None => NameOf[l] = n /\ l \notin b.cancelled /\ l \in S

\* The accounts of the slots, of the pending count and of the active timers.
Runs(r, v) == UNION {{l} \X (1..r[l][v]) : l \in Listeners}
Run(b, v) == Cardinality(Runs(b.running, v))
Asleep(b) == Cardinality({l \in Listeners : b.timer[l] = "sleeping"})
SlotSum(b) == b.slots + Number(b.ready, FanOut) + Run(b, "slot") + Bit(b.loop.at = "woken")
PendSum(b) ==
    b.pending - Number(b.ready, FanOut \cup {"immediate", "settled"}) - Run(b, "slot") - Run(b, "now")
HoldSum(b) == b.holding - Asleep(b) - Run(b, "timer")

Balanced(b) == SlotSum(b) = app.slots /\ PendSum(b) = 0 /\ HoldSum(b) = 0

\* The loop's task is ready once, and the tasks about one event are under way
\* at a time, in order, StateProxy's last.
Line(b) ==
    /\ \A i, j \in DOMAIN b.ready :
          b.ready[i].kind = "go" =>
              /\ b.loop.at \in {"queued", "woken"}
              /\ b.ready[j].kind = "go" => i = j
              /\ b.loop.at = "queued" /\ b.ready[j].kind \in Pipe => j < i
    /\ b.loop.at \in {"waiting", "queued"} <=> b.loop.todo = <<>>
    /\ b.loop.at = "blocked" => b.slots = 0
    /\ b.slots >= 0
    /\ \A i, j \in DOMAIN b.ready : b.ready[i].kind = "proxy" /\ b.ready[j].kind \in Pipe => j <= i
    /\ \A i \in DOMAIN b.loop.todo : b.loop.todo[i].kind = "proxy" <=> i = Len(b.loop.todo)
    /\ b.loop.todo # <<>> => \A i \in DOMAIN b.ready : b.ready[i].kind # "proxy"
    /\ \A i, j \in DOMAIN b.ready :
          b.ready[i].kind \in Pipe /\ b.ready[j].kind \in Pipe => b.ready[i].e = b.ready[j].e
    /\ \A i, j \in DOMAIN b.loop.todo : b.loop.todo[i].e = b.loop.todo[j].e
    /\ \A i \in DOMAIN b.ready : \A j \in DOMAIN b.loop.todo :
          b.ready[i].kind \in Pipe => b.ready[i].e = b.loop.todo[j].e

Pending(b, t) == (\E i \in DOMAIN b.ready : b.ready[i] = t) \/ \E i \in DOMAIN b.loop.todo : b.loop.todo[i] = t

\* A sleeping timer learns of the event that ends its hold before StateProxy
\* does, unless it was started by an immediate fire that read the state before;
\* then the next event that matches starts it again before StateProxy has it.
Hold(b, state, l) ==
    l \notin b.cancelled /\ b.timer[l] = "sleeping" =>
        /\ \A e \in Changes : Pending(b, Task("proxy", None, e)) /\ e.new # "on" =>
              l \in app.immediate \/ Pending(b, Task("cancel", l, e))
        /\ l \in b.left =>
              /\ l \in app.immediate /\ state # "on"
              /\ \A e \in Changes : Pending(b, Task("proxy", None, e)) /\ e.new = "on" =>
                    Pending(b, Task("main", l, e))

\* The variables beside the event loop's state.
Around ==
    /\ app \in Scenarios /\ home \in States /\ cache \in States /\ sent \in 0..app.events
    /\ stream \in Seq(Changes) /\ adding \in Seq(Listeners) /\ Distinct(adding)
    /\ subs \subseteq Listeners /\ gone \subseteq Listeners /\ ran \subseteq Listeners
    /\ \A i \in DOMAIN adding : adding[i] \notin subs
    /\ bus.cancelled \subseteq subs \cup gone
    /\ bus.loop.at = "queued" => stream # <<>>
    /\ app.once \cap ran \subseteq bus.fired

Registering == {adding[i] : i \in DOMAIN adding}

BusInv ==
    /\ Around /\ Sound(bus, subs) /\ Named(bus, subs \cup Registering)
    /\ Balanced(bus) /\ Line(bus) /\ \A l \in Listeners : Hold(bus, cache, l)

----------------------------------------------------------------------------
(* Routes *)

LEMMA WithoutFacts ==
  ASSUME NEW s \in Seq(RouteType), Distinct(s), NEW kind, NEW l
  PROVE  LET t == Without(s, kind, l)
         IN  /\ t \in Seq(RouteType) /\ Distinct(t)
             /\ \A k, m : On(t, k, m) <=> On(s, k, m) /\ ~(k = kind /\ m = l)
<1>. DEFINE I == {i \in DOMAIN s : s[i] # Route(kind, l)}
            t == Kept(s, I)
<1>1. I \subseteq DOMAIN s
  OBVIOUS
<1>2. Without(s, kind, l) = t
  BY DEF Without
<1>3. \A i : i \in I <=> i \in DOMAIN s /\ s[i] # Route(kind, l)
  OBVIOUS
<1>. HIDE DEF I
<1>4. /\ t \in Seq(RouteType)
      /\ \A k \in DOMAIN t : Nth(I, k) \in I /\ t[k] = s[Nth(I, k)]
      /\ \A k, m \in DOMAIN t : k < m => Nth(I, k) < Nth(I, m)
      /\ \A i \in I : \E k \in DOMAIN t : Nth(I, k) = i
      /\ DOMAIN t = 1..Cardinality(I) /\ Cardinality(I) \in Nat
  BY <1>1, KeptFacts
<1>. HIDE DEF t
<1>5. DOMAIN s = 1..Len(s) /\ Len(s) \in Nat
  BY LenProperties
<1>6. Distinct(t)
  <2>. SUFFICES ASSUME NEW i \in DOMAIN t, NEW j \in DOMAIN t, t[i] = t[j], i # j PROVE FALSE
    BY DEF Distinct
  <2>1. Nth(I, i) \in DOMAIN s /\ Nth(I, j) \in DOMAIN s /\ s[Nth(I, i)] = s[Nth(I, j)]
    BY <1>1, <1>4
  <2>2. Nth(I, i) = Nth(I, j)
    BY <2>1 DEF Distinct
  <2>3. i < j \/ j < i
    BY <1>4
  <2>4. Nth(I, i) \in Nat /\ Nth(I, j) \in Nat
    BY <1>5, <2>1
  <2>. QED BY <1>4, <2>2, <2>3, <2>4
<1>7. \A k, m : Route(k, m) = Route(kind, l) <=> k = kind /\ m = l
  BY DEF Route
<1>8. \A k, m : On(t, k, m) <=> On(s, k, m) /\ ~(k = kind /\ m = l)
  <2>. SUFFICES ASSUME NEW k, NEW m PROVE On(t, k, m) <=> On(s, k, m) /\ ~(k = kind /\ m = l)
    OBVIOUS
  <2>1. ASSUME On(t, k, m) PROVE On(s, k, m) /\ ~(k = kind /\ m = l)
    <3>1. PICK i \in DOMAIN t : t[i] = Route(k, m)
      BY <2>1 DEF On
    <3>2. Nth(I, i) \in I /\ s[Nth(I, i)] = Route(k, m)
      BY <1>4, <3>1
    <3>. QED BY <1>3, <1>7, <3>2 DEF On
  <2>2. ASSUME On(s, k, m), ~(k = kind /\ m = l) PROVE On(t, k, m)
    <3>1. PICK i \in DOMAIN s : s[i] = Route(k, m)
      BY <2>2 DEF On
    <3>2. i \in I
      BY <1>3, <1>7, <2>2, <3>1
    <3>3. PICK j \in DOMAIN t : Nth(I, j) = i
      BY <1>4, <3>2
    <3>4. t[j] = Route(k, m)
      BY <1>4, <3>1, <3>3
    <3>. QED BY <3>4 DEF On
  <2>. QED BY <2>1, <2>2
<1>. QED BY <1>2, <1>4, <1>6, <1>8

LEMMA WithFacts ==
  ASSUME NEW s \in Seq(RouteType), Distinct(s), NEW kind \in {"main", "cancel"}, NEW l \in Listeners,
         ~On(s, kind, l)
  PROVE  LET t == Append(s, Route(kind, l))
         IN  /\ t \in Seq(RouteType) /\ Distinct(t)
             /\ \A k, m : On(t, k, m) <=> On(s, k, m) \/ (k = kind /\ m = l)
<1>. DEFINE r == Route(kind, l)
            t == Append(s, r)
<1>1. r \in RouteType
  BY DEF Route, RouteType
<1>2. \A k, m : Route(k, m) = r <=> k = kind /\ m = l
  BY DEF Route
<1>3. DOMAIN s = 1..Len(s) /\ Len(s) \in Nat
  BY LenProperties
<1>4. \A i \in DOMAIN s : s[i] # r
  BY DEF On
<1>. HIDE DEF r
<1>5. /\ t \in Seq(RouteType) /\ DOMAIN t = 1..(Len(s) + 1) /\ t[Len(s) + 1] = r
      /\ \A i \in 1..Len(s) : t[i] = s[i]
  BY <1>1, <1>3, AppendProperties, LenProperties
<1>. HIDE DEF t
<1>6. \A i \in DOMAIN t : i \in DOMAIN s \/ i = Len(s) + 1
  BY <1>3, <1>5
<1>7. \A i \in DOMAIN s : i \in DOMAIN t
  BY <1>3, <1>5
<1>8. Len(s) + 1 \in DOMAIN t
  BY <1>3, <1>5
<1>9. Distinct(t)
  BY <1>3, <1>4, <1>5, <1>6 DEF Distinct
<1>10. \A k, m : On(t, k, m) <=> On(s, k, m) \/ (k = kind /\ m = l)
  BY <1>2, <1>3, <1>5, <1>6, <1>7, <1>8 DEF On
<1>. QED BY <1>5, <1>9, <1>10 DEF t, r

----------------------------------------------------------------------------
(* Counting handlers and timers *)

RunningType == [Listeners -> [Via -> Nat]]

LEMMA RunsFinite ==
  ASSUME NEW r \in RunningType, NEW v \in Via
  PROVE  /\ IsFiniteSet(Runs(r, v)) /\ Cardinality(Runs(r, v)) \in Nat
         /\ \A l, k : <<l, k>> \in Runs(r, v) <=> l \in Listeners /\ k \in 1..r[l][v]
         /\ \A x \in Runs(r, v) : \E l \in Listeners : \E k \in 1..r[l][v] : x = <<l, k>>
<1>. DEFINE f == [l \in Listeners |-> {l} \X (1..r[l][v])]
            T == {{l} \X (1..r[l][v]) : l \in Listeners}
<1>1. f \in Surjection(Listeners, T)
  BY DEF Surjection
<1>2. IsFiniteSet(T)
  <2>. HIDE DEF f, T
  <2>. QED BY <1>1, FS_Surjection, BusAssumption
<1>3. ASSUME NEW l \in Listeners PROVE IsFiniteSet({l} \X (1..r[l][v]))
  <2>. DEFINE n == r[l][v]
  <2>1. n \in Nat
    BY DEF RunningType
  <2>. HIDE DEF n
  <2>2. IsFiniteSet(1..n)
    BY <2>1, FS_Interval
  <2>3. IsFiniteSet({l})
    BY FS_Singleton
  <2>4. IsFiniteSet({l} \X (1..n))
    BY <2>2, <2>3, FS_Product
  <2>. QED BY <2>4 DEF n
<1>4. \A x \in T : IsFiniteSet(x)
  BY <1>3
<1>5. IsFiniteSet(UNION T)
  <2>. HIDE DEF T
  <2>. QED BY <1>2, <1>4, FS_UNION
<1>6. IsFiniteSet(Runs(r, v))
  BY <1>5 DEF Runs
<1>7. \A x : x \in Runs(r, v) <=> \E l \in Listeners : x \in {l} \X (1..r[l][v])
  BY DEF Runs
<1>8. \A x, l : x \in {l} \X (1..r[l][v]) <=> \E k \in 1..r[l][v] : x = <<l, k>>
  OBVIOUS
<1>9. \A l, k : <<l, k>> \in Runs(r, v) <=> l \in Listeners /\ k \in 1..r[l][v]
  BY <1>7, <1>8
<1>10. \A x \in Runs(r, v) : \E l \in Listeners : \E k \in 1..r[l][v] : x = <<l, k>>
  BY <1>7, <1>8
<1>. QED BY <1>6, <1>9, <1>10, FS_CardinalityType

LEMMA RunsSame ==
  ASSUME NEW r, NEW q, NEW v, \A l \in Listeners : q[l][v] = r[l][v]
  PROVE  Runs(q, v) = Runs(r, v)
BY DEF Runs

LEMMA RunsPlus ==
  ASSUME NEW r \in RunningType, NEW q \in RunningType, NEW v \in Via, NEW l \in Listeners,
         q[l][v] = r[l][v] + 1, \A m \in Listeners \ {l} : q[m][v] = r[m][v]
  PROVE  Cardinality(Runs(q, v)) = Cardinality(Runs(r, v)) + 1
<1>. DEFINE x == <<l, r[l][v] + 1>>
<1>0. r[l][v] \in Nat
  BY DEF RunningType
<1>1. /\ IsFiniteSet(Runs(r, v))
      /\ \A m, k : <<m, k>> \in Runs(r, v) <=> m \in Listeners /\ k \in 1..r[m][v]
      /\ \A y \in Runs(r, v) : \E m \in Listeners : \E k \in 1..r[m][v] : y = <<m, k>>
  BY RunsFinite
<1>2. /\ \A m, k : <<m, k>> \in Runs(q, v) <=> m \in Listeners /\ k \in 1..q[m][v]
      /\ \A y \in Runs(q, v) : \E m \in Listeners : \E k \in 1..q[m][v] : y = <<m, k>>
  BY RunsFinite
<1>3. x \notin Runs(r, v) /\ x \in Runs(q, v) /\ x = <<l, r[l][v] + 1>>
  BY <1>0, <1>1, <1>2
<1>. HIDE DEF x
<1>4. \A k : k \in 1..q[l][v] <=> k \in 1..r[l][v] \/ k = r[l][v] + 1
  BY <1>0
<1>5. \A y : y \in Runs(q, v) => y \in Runs(r, v) \/ y = x
  <2>. SUFFICES ASSUME NEW y \in Runs(q, v) PROVE y \in Runs(r, v) \/ y = x
    OBVIOUS
  <2>0. PICK m \in Listeners : \E k \in 1..q[m][v] : y = <<m, k>>
    BY <1>2
  <2>1. PICK k \in 1..q[m][v] : y = <<m, k>>
    BY <2>0
  <2>2. CASE m = l
    BY <1>1, <1>3, <1>4, <2>1, <2>2
  <2>3. CASE m # l
    BY <1>1, <2>1, <2>3
  <2>. QED BY <2>2, <2>3
<1>6. \A y : y \in Runs(r, v) => y \in Runs(q, v)
  <2>. SUFFICES ASSUME NEW y \in Runs(r, v) PROVE y \in Runs(q, v)
    OBVIOUS
  <2>0. PICK m \in Listeners : \E k \in 1..r[m][v] : y = <<m, k>>
    BY <1>1
  <2>1. PICK k \in 1..r[m][v] : y = <<m, k>>
    BY <2>0
  <2>2. CASE m = l
    BY <1>2, <1>4, <2>1, <2>2
  <2>3. CASE m # l
    BY <1>2, <2>1, <2>3
  <2>. QED BY <2>2, <2>3
<1>7. Runs(q, v) = Runs(r, v) \cup {x}
  BY <1>3, <1>5, <1>6
<1>8. IsFiniteSet(Runs(r, v)) /\ x \notin Runs(r, v)
  BY <1>1, <1>3
<1>9. Cardinality(Runs(r, v) \cup {x}) = Cardinality(Runs(r, v)) + 1
  BY ONLY <1>8, FS_AddElement
<1>. QED BY <1>7, <1>9

LEMMA AsleepMinus ==
  ASSUME NEW b, NEW c, NEW l \in Listeners, b.timer[l] = "sleeping", c.timer[l] # "sleeping",
         \A m \in Listeners \ {l} : c.timer[m] = b.timer[m]
  PROVE  Asleep(b) = Asleep(c) + 1 /\ Asleep(c) \in Nat
<1>. DEFINE X == {m \in Listeners : b.timer[m] = "sleeping"}
            Y == {m \in Listeners : c.timer[m] = "sleeping"}
<1>1. l \notin Y /\ X = Y \cup {l} /\ Y \subseteq Listeners
  OBVIOUS
<1>2. Asleep(b) = Cardinality(X) /\ Asleep(c) = Cardinality(Y)
  BY DEF Asleep
<1>. HIDE DEF X, Y
<1>3. IsFiniteSet(Y)
  BY <1>1, FS_Subset, BusAssumption
<1>. QED BY <1>1, <1>2, <1>3, FS_AddElement, FS_CardinalityType

LEMMA AsleepSame ==
  ASSUME NEW b, NEW c, \A m \in Listeners : c.timer[m] = "sleeping" <=> b.timer[m] = "sleeping"
  PROVE  Asleep(c) = Asleep(b)
<1>1. {m \in Listeners : b.timer[m] = "sleeping"} = {m \in Listeners : c.timer[m] = "sleeping"}
  OBVIOUS
<1>. QED BY <1>1 DEF Asleep

LEMMA AsleepType ==
  ASSUME NEW b
  PROVE  Asleep(b) \in Nat
<1>1. IsFiniteSet({l \in Listeners : b.timer[l] = "sleeping"})
  BY FS_Subset, BusAssumption
<1>. QED BY <1>1, FS_CardinalityType DEF Asleep

LEMMA SumTypes ==
  ASSUME NEW b \in BusType
  PROVE  /\ b.slots \in Int /\ b.pending \in Int /\ b.holding \in Int
         /\ \A K : Number(b.ready, K) \in Nat
         /\ \A v \in Via : Run(b, v) \in Nat
         /\ Asleep(b) \in Nat /\ Bit(b.loop.at = "woken") \in Nat
         /\ SlotSum(b) \in Int /\ PendSum(b) \in Int /\ HoldSum(b) \in Int
<1>1. /\ b.slots \in Int /\ b.pending \in Int /\ b.holding \in Int /\ b.ready \in Seq(TaskType)
      /\ b.running \in RunningType
  BY DEF BusType, RunningType
<1>2. \A K : Number(b.ready, K) \in Nat
  BY <1>1, NumberType
<1>3. \A v \in Via : Run(b, v) \in Nat
  BY <1>1, RunsFinite DEF Run
<1>4. Asleep(b) \in Nat /\ Bit(b.loop.at = "woken") \in Nat
  BY AsleepType DEF Bit
<1>5. {"slot", "now", "timer"} \subseteq Via
  BY DEF Via
<1>6. SlotSum(b) \in Int
  BY <1>1, <1>2, <1>3, <1>4, <1>5 DEF SlotSum
<1>7. PendSum(b) \in Int
  BY <1>1, <1>2, <1>3, <1>5 DEF PendSum
<1>8. HoldSum(b) \in Int
  BY <1>1, <1>3, <1>4, <1>5 DEF HoldSum
<1>. QED BY <1>1, <1>2, <1>3, <1>4, <1>6, <1>7, <1>8

----------------------------------------------------------------------------
(* What a step may do to the event loop's state *)

\* The tasks that c has more than b are behind those of b, and none is about an event.
Later(b, c, S) ==
    \E x \in Seq(TaskType) : /\ c.ready = b.ready \o x
                             /\ \A i \in DOMAIN x : x[i].kind \in Others /\ TaskOK(x[i], S)

\* Nothing is revived, and of the listeners at most l is cancelled.
Calm(b, c, S, l) ==
    /\ c.loop = b.loop /\ c.slots = b.slots /\ Later(b, c, S)
    /\ b.cancelled \subseteq c.cancelled /\ c.cancelled \subseteq b.cancelled \cup {l}
    /\ b.fired \subseteq c.fired /\ c.left \subseteq b.left

Stills(b, c) == \A m \in Listeners : c.timer[m] = "sleeping" => b.timer[m] = "sleeping"
Fewer(b, c) == \A m \in Listeners : \A v \in Via : c.running[m][v] <= b.running[m][v]
Moves(b, c, s, p, h) ==
    SlotSum(c) = SlotSum(b) + s /\ PendSum(c) = PendSum(b) + p /\ HoldSum(c) = HoldSum(b) + h
NamesKept(b, c) == \A K : Named(b, K) => Named(c, K)

LEMMA LaterSame ==
  ASSUME NEW b \in BusType, NEW c, NEW S, c.ready = b.ready
  PROVE  Later(b, c, S)
<1>1. b.ready \in Seq(TaskType)
  BY DEF BusType
<1>2. << >> \in Seq(TaskType) /\ b.ready \o << >> = b.ready /\ DOMAIN << >> = {}
  BY <1>1, EmptySeq, ConcatEmptySeq
<1>. QED BY <1>2 DEF Later

LEMMA LaterOne ==
  ASSUME NEW b \in BusType, NEW c, NEW S, NEW t \in TaskType, t.kind \in Others, TaskOK(t, S),
         c.ready = Append(b.ready, t)
  PROVE  Later(b, c, S)
<1>1. b.ready \in Seq(TaskType)
  BY DEF BusType
<1>2. <<t>> \in Seq(TaskType) /\ DOMAIN <<t>> = {1} /\ <<t>>[1] = t
  OBVIOUS
<1>3. Append(b.ready, t) = b.ready \o <<t>>
  BY <1>1, AppendIsConcat
<1>. QED BY <1>2, <1>3 DEF Later

LEMMA LaterTrans ==
  ASSUME NEW a \in BusType, NEW b, NEW c, NEW S, Later(a, b, S), Later(b, c, S)
  PROVE  Later(a, c, S)
<1>1. PICK x \in Seq(TaskType) : /\ b.ready = a.ready \o x
                                 /\ \A i \in DOMAIN x : x[i].kind \in Others /\ TaskOK(x[i], S)
  BY DEF Later
<1>2. PICK y \in Seq(TaskType) : /\ c.ready = b.ready \o y
                                 /\ \A i \in DOMAIN y : y[i].kind \in Others /\ TaskOK(y[i], S)
  BY DEF Later
<1>3. a.ready \in Seq(TaskType)
  BY DEF BusType
<1>4. c.ready = a.ready \o (x \o y)
  <2>. DEFINE r == a.ready
  <2>1. r \in Seq(TaskType) /\ x \in Seq(TaskType) /\ y \in Seq(TaskType)
    BY <1>3
  <2>. HIDE DEF r
  <2>2. (r \o x) \o y = r \o (x \o y)
    BY ONLY <2>1, ConcatAssociative
  <2>. QED BY <1>1, <1>2, <2>2 DEF r
<1>5. x \o y \in Seq(TaskType) /\ DOMAIN (x \o y) = 1..(Len(x) + Len(y)) /\ DOMAIN x = 1..Len(x)
      /\ DOMAIN y = 1..Len(y) /\ Len(x) \in Nat /\ Len(y) \in Nat
      /\ \A i \in 1..(Len(x) + Len(y)) : (x \o y)[i] = IF i <= Len(x) THEN x[i] ELSE y[i - Len(x)]
  BY ConcatProperties, LenProperties
<1>6. \A i \in DOMAIN (x \o y) :
         \/ i \in DOMAIN x /\ (x \o y)[i] = x[i]
         \/ i - Len(x) \in DOMAIN y /\ (x \o y)[i] = y[i - Len(x)]
  BY <1>5
<1>7. \A i \in DOMAIN (x \o y) : (x \o y)[i].kind \in Others /\ TaskOK((x \o y)[i], S)
  BY <1>1, <1>2, <1>6
<1>. QED BY <1>4, <1>5, <1>7 DEF Later

LEMMA CalmTrans ==
  ASSUME NEW a \in BusType, NEW b, NEW c, NEW S, NEW l, Calm(a, b, S, l), Calm(b, c, S, l)
  PROVE  Calm(a, c, S, l)
<1>1. Later(a, c, S)
  BY LaterTrans DEF Calm
<1>. QED BY <1>1 DEF Calm

LEMMA MovesTrans ==
  ASSUME NEW a \in BusType, NEW b \in BusType, NEW c \in BusType,
         NEW s1 \in Int, NEW p1 \in Int, NEW h1 \in Int, NEW s2 \in Int, NEW p2 \in Int, NEW h2 \in Int,
         Moves(a, b, s1, p1, h1), Moves(b, c, s2, p2, h2)
  PROVE  Moves(a, c, s1 + s2, p1 + p2, h1 + h2)
<1>1. SlotSum(a) \in Int /\ PendSum(a) \in Int /\ HoldSum(a) \in Int
  BY SumTypes
<1>. QED BY <1>1 DEF Moves

LEMMA TasksFollow ==
  ASSUME NEW b \in BusType, NEW c, NEW S, Tasked(b, S), Later(b, c, S), c.loop = b.loop
  PROVE  Tasked(c, S) /\ c.ready \in Seq(TaskType)
<1>1. PICK x \in Seq(TaskType) : /\ c.ready = b.ready \o x
                                 /\ \A i \in DOMAIN x : x[i].kind \in Others /\ TaskOK(x[i], S)
  BY DEF Later
<1>. DEFINE r == b.ready
<1>2. r \in Seq(TaskType) /\ \A i \in DOMAIN r : TaskOK(r[i], S)
  BY DEF BusType, Tasked
<1>. HIDE DEF r
<1>3. r \o x \in Seq(TaskType) /\ DOMAIN (r \o x) = 1..(Len(r) + Len(x)) /\ DOMAIN x = 1..Len(x)
      /\ DOMAIN r = 1..Len(r) /\ Len(x) \in Nat /\ Len(r) \in Nat
      /\ \A i \in 1..(Len(r) + Len(x)) : (r \o x)[i] = IF i <= Len(r) THEN r[i] ELSE x[i - Len(r)]
  BY <1>2, ConcatProperties, LenProperties
<1>4. \A i \in DOMAIN (r \o x) : TaskOK((r \o x)[i], S)
  <2>. SUFFICES ASSUME NEW i \in DOMAIN (r \o x) PROVE TaskOK((r \o x)[i], S)
    OBVIOUS
  <2>1. \/ i \in DOMAIN r /\ (r \o x)[i] = r[i]
        \/ i - Len(r) \in DOMAIN x /\ (r \o x)[i] = x[i - Len(r)]
    BY <1>3
  <2>. QED BY <1>1, <1>2, <2>1
<1>5. c.ready = r \o x
  BY <1>1 DEF r
<1>. QED BY <1>3, <1>4, <1>5 DEF Tasked

----------------------------------------------------------------------------
(* What the operations on a listener do *)

LEMMA TypeFacts ==
  ASSUME NEW b \in BusType
  PROVE  /\ b.keys \in [Names -> Listeners \cup {None}] /\ b.routes \in Seq(RouteType)
         /\ b.cancelled \subseteq Listeners /\ b.fired \subseteq Listeners /\ b.left \subseteq Listeners
         /\ b.timer \in [Listeners -> {"none", "sleeping"}] /\ b.holding \in Int
         /\ b.delayed \subseteq app.debounced /\ b.owed \subseteq app.debounced /\ b.shut \subseteq app.throttled
         /\ b.running \in RunningType /\ b.slots \in Int /\ b.pending \in Int
         /\ b.ready \in Seq(TaskType)
BY DEF BusType, RunningType

LEMMA TimerCancelledFacts ==
  ASSUME NEW b, NEW S, Sound(b, S), NEW l \in Listeners
  PROVE  LET c == TimerCancelled(b, l)
         IN  /\ Sound(c, S) /\ Calm(b, c, S, l) /\ Stills(b, c) /\ Moves(b, c, 0, 0, 0)
             /\ c.timer[l] = "none" /\ ~On(c.routes, "cancel", l)
             /\ \A m : On(c.routes, "main", m) <=> On(b.routes, "main", m)
             /\ \A m \in Listeners \ {l} : c.timer[m] = b.timer[m]
             /\ c.keys = b.keys /\ c.ready = b.ready /\ c.running = b.running /\ c.cancelled = b.cancelled
             /\ c.fired = b.fired /\ c.delayed = b.delayed /\ c.left = b.left
<1>. DEFINE c == TimerCancelled(b, l)
<1>1. b \in BusType
  BY DEF Sound
<1>2. CASE b.timer[l] = "none"
  <2>1. c = b
    BY <1>2 DEF TimerCancelled
  <2>2. ~On(b.routes, "cancel", l)
    BY <1>2 DEF Sound, Routed
  <2>3. Later(b, b, S)
    BY <1>1, LaterSame
  <2>4. Moves(b, b, 0, 0, 0)
    BY <1>1, SumTypes DEF Moves
  <2>5. Fewer(b, b)
    BY <1>1, TypeFacts DEF Fewer, RunningType
  <2>. QED BY <1>2, <2>1, <2>2, <2>3, <2>4, <2>5 DEF Calm, Stills
<1>3. CASE b.timer[l] # "none"
  <2>. DEFINE t == Without(b.routes, "cancel", l)
  <2>1. c = [b EXCEPT !.timer[l] = "none", !.holding = @ - 1, !.routes = t]
    BY <1>3 DEF TimerCancelled
  <2>2. b.routes \in Seq(RouteType) /\ Distinct(b.routes) /\ b.timer[l] = "sleeping" /\ b.holding \in Int
        /\ b.timer \in [Listeners -> {"none", "sleeping"}]
    BY <1>1, <1>3, TypeFacts DEF Sound, Routed
  <2>3. /\ t \in Seq(RouteType) /\ Distinct(t)
        /\ \A k, m : On(t, k, m) <=> On(b.routes, k, m) /\ ~(k = "cancel" /\ m = l)
    BY <2>2, WithoutFacts
  <2>. HIDE DEF t
  <2>4. c \in BusType
    <3>. DEFINE tt == [b.timer EXCEPT ![l] = "none"]
                h == b.holding - 1
    <3>1. tt \in [Listeners -> {"none", "sleeping"}] /\ h \in Int
      BY <2>2
    <3>2. c = [b EXCEPT !.timer = tt, !.holding = h, !.routes = t]
      BY <2>1
    <3>. HIDE DEF tt, h, c
    <3>. QED BY <1>1, <2>3, <3>1, <3>2 DEF BusType
  <2>5. /\ c.keys = b.keys /\ c.ready = b.ready /\ c.running = b.running /\ c.cancelled = b.cancelled
        /\ c.fired = b.fired /\ c.delayed = b.delayed /\ c.left = b.left /\ c.loop = b.loop
        /\ c.slots = b.slots /\ c.pending = b.pending /\ c.owed = b.owed /\ c.shut = b.shut
        /\ c.routes = t /\ c.holding = b.holding - 1 /\ c.timer = [b.timer EXCEPT ![l] = "none"]
    BY <1>1, <2>1 DEF BusType
  <2>. HIDE DEF c
  <2>6. c.timer[l] = "none" /\ \A m \in Listeners \ {l} : c.timer[m] = b.timer[m]
    BY <2>2, <2>5
  <2>7. Routed(c, S)
    BY <2>3, <2>5, <2>6 DEF Sound, Routed
  <2>8. Used(c, S) /\ OneLate(c)
    BY <2>5, <2>6 DEF Sound, Used, OneLate
  <2>9. Later(b, c, S)
    BY <1>1, <2>5, LaterSame
  <2>10. Calm(b, c, S, l) /\ Stills(b, c)
    BY <2>2, <2>5, <2>6, <2>9 DEF Calm, Stills
  <2>11. Sound(c, S)
    BY <1>1, <2>4, <2>5, <2>7, <2>8, <2>9, TasksFollow DEF Sound
  <2>12. Asleep(b) = Asleep(c) + 1 /\ Asleep(c) \in Nat
    BY <2>2, <2>6, AsleepMinus
  <2>13. Moves(b, c, 0, 0, 0)
    <3>1. SlotSum(c) = SlotSum(b) /\ PendSum(c) = PendSum(b)
      BY <2>5 DEF SlotSum, PendSum, Run
    <3>2. Run(c, "timer") = Run(b, "timer") /\ Run(b, "timer") \in Nat
      BY <1>1, <2>5, SumTypes DEF Run, Via
    <3>3. HoldSum(c) = HoldSum(b)
      <4>. DEFINE x == b.holding   a == Asleep(c)   u == Run(b, "timer")
      <4>1. HoldSum(b) = x - (a + 1) - u /\ HoldSum(c) = (x - 1) - a - u
        BY <2>5, <2>12, <3>2 DEF HoldSum
      <4>2. x \in Int /\ a \in Nat /\ u \in Nat
        BY <2>2, <2>12, <3>2
      <4>. HIDE DEF x, a, u
      <4>. QED BY <4>1, <4>2
    <3>. QED BY <1>1, <3>1, <3>3, SumTypes DEF Moves
  <2>. QED BY <2>3, <2>5, <2>6, <2>10, <2>11, <2>13 DEF c
<1>4. b.timer[l] = "none" \/ b.timer[l] # "none"
  OBVIOUS
<1>. QED BY <1>2, <1>3

LEMMA TimerStartedFacts ==
  ASSUME NEW b, NEW S, Sound(b, S), NEW l \in Listeners, l \in S, l \in app.held
  PROVE  LET c == TimerStarted(b, l)
         IN  /\ Sound(c, S) /\ Calm(b, c, S, l) /\ Moves(b, c, 0, 0, 0)
             /\ l \notin c.left
             /\ \A m \in Listeners \ {l} : c.timer[m] = b.timer[m]
             /\ c.keys = b.keys /\ c.ready = b.ready /\ c.running = b.running /\ c.cancelled = b.cancelled
             /\ c.fired = b.fired
<1>. DEFINE d == TimerCancelled(b, l)
            c == TimerStarted(b, l)
            t == Append(d.routes, Route("cancel", l))
            tt == [d.timer EXCEPT ![l] = "sleeping"]
            h == d.holding + 1
            f == d.left \ {l}
<1>1. /\ Sound(d, S) /\ Calm(b, d, S, l) /\ Stills(b, d) /\ Moves(b, d, 0, 0, 0)
      /\ d.timer[l] = "none" /\ ~On(d.routes, "cancel", l)
      /\ \A m \in Listeners \ {l} : d.timer[m] = b.timer[m]
      /\ d.keys = b.keys /\ d.ready = b.ready /\ d.running = b.running /\ d.cancelled = b.cancelled
      /\ d.fired = b.fired /\ d.delayed = b.delayed /\ d.left = b.left
  BY TimerCancelledFacts
<1>2. b \in BusType /\ d \in BusType
  BY <1>1 DEF Sound
<1>. HIDE DEF d
<1>3. /\ d.routes \in Seq(RouteType) /\ Distinct(d.routes) /\ d.holding \in Int
      /\ d.timer \in [Listeners -> {"none", "sleeping"}] /\ d.left \subseteq Listeners
  BY <1>1, <1>2, TypeFacts DEF Sound, Routed
<1>4. /\ t \in Seq(RouteType) /\ Distinct(t)
      /\ \A k, m : On(t, k, m) <=> On(d.routes, k, m) \/ (k = "cancel" /\ m = l)
  BY <1>1, <1>3, WithFacts
<1>5. tt \in [Listeners -> {"none", "sleeping"}] /\ h \in Int /\ f \subseteq Listeners
  BY <1>3
<1>6. c = [d EXCEPT !.timer = tt, !.holding = h, !.left = f, !.routes = t]
  BY DEF TimerStarted, d
<1>7. h = d.holding + 1 /\ f = d.left \ {l} /\ tt[l] = "sleeping"
      /\ \A m \in Listeners \ {l} : tt[m] = d.timer[m]
  BY <1>3
<1>. HIDE DEF t, tt, h, f, c
<1>8. c \in BusType
  BY <1>2, <1>4, <1>5, <1>6 DEF BusType
<1>9. /\ c.keys = d.keys /\ c.ready = d.ready /\ c.running = d.running /\ c.cancelled = d.cancelled
      /\ c.fired = d.fired /\ c.delayed = d.delayed /\ c.left = f /\ c.loop = d.loop
      /\ c.slots = d.slots /\ c.pending = d.pending /\ c.owed = d.owed /\ c.shut = d.shut
      /\ c.routes = t /\ c.holding = h /\ c.timer = tt
  BY <1>2, <1>6 DEF BusType
<1>10. Routed(c, S)
  BY <1>1, <1>4, <1>7, <1>9 DEF Sound, Routed
<1>11. Used(c, S) /\ OneLate(c)
  BY <1>1, <1>7, <1>9 DEF Sound, Used, OneLate
<1>12. Later(d, c, S)
  BY <1>2, <1>9, LaterSame
<1>13. Calm(d, c, S, l)
  BY <1>7, <1>9, <1>12 DEF Calm
<1>14. Calm(b, c, S, l)
  BY <1>1, <1>2, <1>13, CalmTrans
<1>15. Sound(c, S)
  BY <1>1, <1>2, <1>8, <1>9, <1>10, <1>11, <1>12, TasksFollow DEF Sound
<1>16. Asleep(c) = Asleep(d) + 1 /\ Asleep(d) \in Nat
  BY <1>1, <1>7, <1>9, AsleepMinus
<1>17. Moves(d, c, 0, 0, 0)
  <2>1. SlotSum(c) = SlotSum(d) /\ PendSum(c) = PendSum(d)
    BY <1>9 DEF SlotSum, PendSum, Run
  <2>2. Run(c, "timer") = Run(d, "timer") /\ Run(d, "timer") \in Nat
    BY <1>2, <1>9, SumTypes DEF Run, Via
  <2>3. HoldSum(c) = HoldSum(d)
    BY <1>3, <1>7, <1>9, <1>16, <2>2 DEF HoldSum
  <2>. QED BY <1>2, <2>1, <2>3, SumTypes DEF Moves
<1>18. Moves(b, c, 0, 0, 0)
  BY <1>1, <1>2, <1>17, SumTypes DEF Moves
<1>19. l \notin c.left /\ \A m \in Listeners \ {l} : c.timer[m] = b.timer[m]
  BY <1>1, <1>7, <1>9
<1>. QED BY <1>1, <1>9, <1>14, <1>15, <1>18, <1>19 DEF c

LEMMA DelayCancelledFacts ==
  ASSUME NEW b, NEW S, Sound(b, S), NEW l \in Listeners
  PROVE  LET c == DelayCancelled(b, l)
         IN  /\ Sound(c, S) /\ Calm(b, c, S, l) /\ Moves(b, c, 0, 0, 0) /\ Fewer(b, c)
             /\ l \notin c.delayed
             /\ l \in app.parallel => c.running[l]["late"] = 0
             /\ c.keys = b.keys /\ c.ready = b.ready /\ c.cancelled = b.cancelled /\ c.routes = b.routes
             /\ c.fired = b.fired /\ c.timer = b.timer /\ c.delayed \subseteq b.delayed /\ c.left = b.left
             /\ \A v \in Via \ {"late"} : \A m \in Listeners : c.running[m][v] = b.running[m][v]
<1>. DEFINE c == DelayCancelled(b, l)
            r == [b.running EXCEPT ![l]["late"] = IF l \in app.parallel THEN 0 ELSE @]
            d == b.delayed \ {l}
<1>1. b \in BusType /\ b.running \in RunningType /\ b.delayed \subseteq app.debounced
  BY TypeFacts DEF Sound
<1>2. /\ r \in RunningType
      /\ \A v \in Via \ {"late"} : \A m \in Listeners : r[m][v] = b.running[m][v]
      /\ \A m \in Listeners \ {l} : r[m]["late"] = b.running[m]["late"]
      /\ r[l]["late"] = IF l \in app.parallel THEN 0 ELSE b.running[l]["late"]
      /\ \A m \in Listeners : \A v \in Via : b.running[m][v] \in Nat /\ r[m][v] <= b.running[m][v]
  BY <1>1 DEF RunningType, Via
<1>3. c = [b EXCEPT !.delayed = d, !.running = r]
  BY DEF DelayCancelled
<1>4. d \subseteq b.delayed /\ l \notin d
  OBVIOUS
<1>. HIDE DEF r, d, c
<1>5. c \in BusType
  BY <1>1, <1>2, <1>3, <1>4 DEF BusType, RunningType
<1>6. /\ c.keys = b.keys /\ c.ready = b.ready /\ c.cancelled = b.cancelled /\ c.routes = b.routes
      /\ c.fired = b.fired /\ c.timer = b.timer /\ c.left = b.left /\ c.loop = b.loop /\ c.slots = b.slots
      /\ c.pending = b.pending /\ c.holding = b.holding /\ c.delayed = d /\ c.running = r
  BY <1>1, <1>3 DEF BusType
<1>7. Routed(c, S)
  BY <1>6 DEF Sound, Routed
<1>8. Used(c, S)
  <2>1. \A m \in Listeners : \A v \in Via : r[m][v] > 0 => b.running[m][v] > 0
    BY <1>1, <1>2 DEF RunningType
  <2>. QED BY <1>4, <1>6, <2>1 DEF Sound, Used
<1>9. OneLate(c)
  BY <1>2, <1>4, <1>6 DEF Sound, OneLate
<1>10. Later(b, c, S)
  BY <1>1, <1>6, LaterSame
<1>11. Sound(c, S)
  BY <1>1, <1>5, <1>6, <1>7, <1>8, <1>9, <1>10, TasksFollow DEF Sound
<1>12. Calm(b, c, S, l)
  BY <1>6, <1>10 DEF Calm
<1>13. Moves(b, c, 0, 0, 0)
  <2>1. \A v \in Via \ {"late"} : Run(c, v) = Run(b, v)
    BY <1>2, <1>6, RunsSame DEF Run
  <2>2. Run(c, "slot") = Run(b, "slot") /\ Run(c, "now") = Run(b, "now") /\ Run(c, "timer") = Run(b, "timer")
    BY <2>1 DEF Via
  <2>3. Asleep(c) = Asleep(b)
    BY <1>6 DEF Asleep
  <2>4. SlotSum(c) = SlotSum(b) /\ PendSum(c) = PendSum(b) /\ HoldSum(c) = HoldSum(b)
    BY <1>6, <2>2, <2>3 DEF SlotSum, PendSum, HoldSum
  <2>. QED BY <1>1, <2>4, SumTypes DEF Moves
<1>14. Fewer(b, c)
  BY <1>2, <1>6 DEF Fewer
<1>. QED BY <1>2, <1>4, <1>6, <1>11, <1>12, <1>13, <1>14 DEF c

LEMMA EnqueueFacts ==
  ASSUME NEW b, NEW S, Sound(b, S), NEW t \in TaskType, t.kind \in Others, TaskOK(t, S), NEW l
  PROVE  LET c == Enqueue(b, t)
         IN  /\ Sound(c, S) /\ Calm(b, c, S, l)
             /\ Moves(b, c, Bit(t.kind \in FanOut), - Bit(t.kind \in FanOut \cup {"immediate", "settled"}), 0)
             /\ c.keys = b.keys /\ c.cancelled = b.cancelled /\ c.routes = b.routes /\ c.running = b.running
             /\ c.fired = b.fired /\ c.timer = b.timer /\ c.delayed = b.delayed /\ c.left = b.left
             /\ c.pending = b.pending
<1>. DEFINE c == Enqueue(b, t)
            r == Append(b.ready, t)
<1>1. b \in BusType /\ b.ready \in Seq(TaskType)
  BY TypeFacts DEF Sound
<1>2. /\ r \in Seq(TaskType)
      /\ \A K : Number(r, K) = Number(b.ready, K) + Bit(t.kind \in K)
  BY <1>1, NumberAppend
<1>3. c = [b EXCEPT !.ready = r]
  BY DEF Enqueue
<1>4. Later(b, [b EXCEPT !.ready = r], S)
  <2>1. [b EXCEPT !.ready = r].ready = Append(b.ready, t)
    BY <1>1 DEF BusType
  <2>. QED BY <1>1, <2>1, LaterOne
<1>. HIDE DEF r, c
<1>5. c \in BusType /\ Later(b, c, S)
  BY <1>1, <1>2, <1>3, <1>4 DEF BusType
<1>6. /\ c.keys = b.keys /\ c.cancelled = b.cancelled /\ c.routes = b.routes /\ c.running = b.running
      /\ c.fired = b.fired /\ c.timer = b.timer /\ c.left = b.left /\ c.loop = b.loop /\ c.slots = b.slots
      /\ c.pending = b.pending /\ c.holding = b.holding /\ c.delayed = b.delayed /\ c.ready = r
  BY <1>1, <1>3 DEF BusType
<1>7. Routed(c, S) /\ Used(c, S) /\ OneLate(c)
  BY <1>6 DEF Sound, Routed, Used, OneLate
<1>8. Sound(c, S)
  BY <1>1, <1>5, <1>6, <1>7, TasksFollow DEF Sound
<1>9. Calm(b, c, S, l)
  BY <1>5, <1>6 DEF Calm
<1>10. Moves(b, c, Bit(t.kind \in FanOut), - Bit(t.kind \in FanOut \cup {"immediate", "settled"}), 0)
  <2>. DEFINE K == FanOut \cup {"immediate", "settled"}
              x == Bit(t.kind \in FanOut)
              y == Bit(t.kind \in K)
  <2>1. Run(c, "slot") = Run(b, "slot") /\ Run(c, "now") = Run(b, "now") /\ Run(c, "timer") = Run(b, "timer")
        /\ Asleep(c) = Asleep(b)
    BY <1>6 DEF Run, Asleep
  <2>2. x \in Int /\ y \in Int
    BY DEF Bit
  <2>3. Number(c.ready, FanOut) = Number(b.ready, FanOut) + x /\ Number(c.ready, K) = Number(b.ready, K) + y
    BY <1>2, <1>6
  <2>4. /\ b.slots \in Int /\ b.pending \in Int /\ b.holding \in Int
        /\ Number(b.ready, FanOut) \in Nat /\ Number(b.ready, K) \in Nat
        /\ Run(b, "slot") \in Nat /\ Run(b, "now") \in Nat /\ Run(b, "timer") \in Nat
        /\ Asleep(b) \in Nat /\ Bit(b.loop.at = "woken") \in Nat
    BY <1>1, SumTypes DEF Via
  <2>5. /\ SlotSum(b) = b.slots + Number(b.ready, FanOut) + Run(b, "slot") + Bit(b.loop.at = "woken")
        /\ SlotSum(c) = c.slots + Number(c.ready, FanOut) + Run(c, "slot") + Bit(c.loop.at = "woken")
        /\ PendSum(b) = b.pending - Number(b.ready, K) - Run(b, "slot") - Run(b, "now")
        /\ PendSum(c) = c.pending - Number(c.ready, K) - Run(c, "slot") - Run(c, "now")
        /\ HoldSum(b) = b.holding - Asleep(b) - Run(b, "timer")
        /\ HoldSum(c) = c.holding - Asleep(c) - Run(c, "timer")
    BY DEF SlotSum, PendSum, HoldSum
  <2>. HIDE DEF K, x, y
  <2>6. SlotSum(c) = SlotSum(b) + x /\ PendSum(c) = PendSum(b) + (- y) /\ HoldSum(c) = HoldSum(b) + 0
    BY <1>6, <2>1, <2>2, <2>3, <2>4, <2>5
  <2>. QED BY <2>6 DEF Moves, K, x, y
<1>. QED BY <1>6, <1>8, <1>9, <1>10 DEF c

LEMMA TaskTypes ==
  ASSUME NEW l \in Listeners, NEW S
  PROVE  /\ Task("release", l, None) \in TaskType /\ TaskOK(Task("release", l, None), S)
         /\ Task("release", l, None).kind = "release"
         /\ Task("done", None, None) \in TaskType /\ TaskOK(Task("done", None, None), S)
         /\ Task("done", None, None).kind = "done"
         /\ Task("settled", None, None) \in TaskType /\ TaskOK(Task("settled", None, None), S)
         /\ Task("settled", None, None).kind = "settled"
BY DEF Task, TaskType, TaskOK, Kinds, Pipe

\* What is left of b when l has been cancelled, up to tasks behind those of b.
Parted(b, c, S, l) ==
    /\ Sound(c, S) /\ Calm(b, c, S, l) /\ Stills(b, c) /\ Moves(b, c, 0, 0, 0) /\ Fewer(b, c)
    /\ c.cancelled = b.cancelled \cup {l} /\ l \in c.fired
    /\ \A v \in Via \ {"late"} : \A m \in Listeners : c.running[m][v] = b.running[m][v]
    /\ c.delayed \subseteq b.delayed
    /\ \A m \in Listeners \ {l} : c.timer[m] = b.timer[m]
    /\ \A m : m # l => (On(c.routes, "main", m) <=> On(b.routes, "main", m))

LEMMA CancelledFacts ==
  ASSUME NEW b, NEW S, Sound(b, S), NEW l \in Listeners
  PROVE  Parted(b, Cancelled(b, l), S, l) /\ Cancelled(b, l).keys = b.keys
<1>. DEFINE d == TimerCancelled(b, l)
            e == DelayCancelled(d, l)
            ca == e.cancelled \cup {l}
            fi == e.fired \cup {l}
            f == [e EXCEPT !.cancelled = ca, !.fired = fi]
            t == Task("release", l, None)
<1>1. /\ Sound(d, S) /\ Calm(b, d, S, l) /\ Stills(b, d) /\ Moves(b, d, 0, 0, 0)
      /\ \A m : On(d.routes, "main", m) <=> On(b.routes, "main", m)
      /\ \A m \in Listeners \ {l} : d.timer[m] = b.timer[m]
      /\ d.keys = b.keys /\ d.running = b.running /\ d.cancelled = b.cancelled /\ d.fired = b.fired
      /\ d.delayed = b.delayed /\ d.timer[l] = "none" /\ ~On(d.routes, "cancel", l)
  BY TimerCancelledFacts
<1>2. /\ Sound(e, S) /\ Calm(d, e, S, l) /\ Moves(d, e, 0, 0, 0) /\ Fewer(d, e)
      /\ e.keys = d.keys /\ e.cancelled = d.cancelled /\ e.routes = d.routes
      /\ e.fired = d.fired /\ e.timer = d.timer /\ e.delayed \subseteq d.delayed /\ l \notin e.delayed
      /\ \A v \in Via \ {"late"} : \A m \in Listeners : e.running[m][v] = d.running[m][v]
  <2>1. Sound(d, S)
    BY <1>1
  <2>. HIDE DEF d
  <2>. QED BY ONLY <2>1, DelayCancelledFacts DEF e
<1>3. b \in BusType /\ d \in BusType /\ e \in BusType
  BY <1>1, <1>2 DEF Sound
<1>4. Cancelled(b, l) = IF l \in app.parallel THEN f ELSE Enqueue(f, t)
  BY DEF Cancelled
<1>. HIDE DEF d, e
<1>5. e.cancelled \subseteq Listeners /\ e.fired \subseteq Listeners
  BY <1>3, TypeFacts
<1>6. ca \subseteq Listeners /\ fi \subseteq Listeners /\ ca = b.cancelled \cup {l} /\ fi = b.fired \cup {l}
  BY <1>1, <1>2, <1>5
<1>. HIDE DEF ca, fi
<1>7. f \in BusType
  BY <1>3, <1>6 DEF BusType
<1>8. /\ f.keys = e.keys /\ f.cancelled = ca /\ f.routes = e.routes /\ f.running = e.running
      /\ f.fired = fi /\ f.timer = e.timer /\ f.left = e.left /\ f.loop = e.loop /\ f.slots = e.slots
      /\ f.pending = e.pending /\ f.holding = e.holding /\ f.delayed = e.delayed /\ f.ready = e.ready
  BY <1>3 DEF BusType
<1>. HIDE DEF f
<1>9. Routed(f, S) /\ OneLate(f) /\ Tasked(f, S)
  BY <1>1, <1>2, <1>6, <1>8 DEF Sound, Routed, OneLate, Tasked
<1>10. Used(f, S)
  BY <1>1, <1>2, <1>6, <1>8 DEF Sound, Used
<1>11. Sound(f, S)
  BY <1>7, <1>9, <1>10 DEF Sound
<1>12. Calm(b, f, S, l)
  <2>1. Calm(b, e, S, l)
    BY <1>1, <1>2, <1>3, CalmTrans
  <2>2. Later(e, f, S)
    BY <1>3, <1>8, LaterSame
  <2>3. Calm(e, f, S, l)
    BY <1>1, <1>2, <1>6, <1>8, <2>2 DEF Calm
  <2>. QED BY <1>3, <2>1, <2>3, CalmTrans
<1>13. Moves(b, f, 0, 0, 0)
  <2>1. SlotSum(f) = SlotSum(e) /\ PendSum(f) = PendSum(e) /\ HoldSum(f) = HoldSum(e)
    BY <1>8 DEF SlotSum, PendSum, HoldSum, Run, Asleep
  <2>. QED BY <1>1, <1>2, <1>3, <2>1, SumTypes DEF Moves
<1>14. Stills(b, f) /\ Fewer(b, f)
  BY <1>1, <1>2, <1>8 DEF Stills, Fewer
<1>15. /\ f.cancelled = b.cancelled \cup {l} /\ l \in f.fired /\ f.delayed \subseteq b.delayed /\ f.keys = b.keys
       /\ \A v \in Via \ {"late"} : \A m \in Listeners : f.running[m][v] = b.running[m][v]
       /\ \A m \in Listeners \ {l} : f.timer[m] = b.timer[m]
       /\ \A m : m # l => (On(f.routes, "main", m) <=> On(b.routes, "main", m))
  BY <1>1, <1>2, <1>6, <1>8
<1>16. CASE l \in app.parallel
  BY <1>4, <1>11, <1>12, <1>13, <1>14, <1>15, <1>16 DEF Parted
<1>17. CASE l \notin app.parallel
  <2>. DEFINE c == Enqueue(f, t)
  <2>1. t \in TaskType /\ TaskOK(t, S) /\ t.kind = "release"
    BY TaskTypes
  <2>. HIDE DEF t
  <2>2. /\ Sound(c, S) /\ Calm(f, c, S, l)
        /\ Moves(f, c, Bit(t.kind \in FanOut), - Bit(t.kind \in FanOut \cup {"immediate", "settled"}), 0)
        /\ c.keys = f.keys /\ c.cancelled = f.cancelled /\ c.routes = f.routes /\ c.running = f.running
        /\ c.fired = f.fired /\ c.timer = f.timer /\ c.delayed = f.delayed
    BY <1>11, <2>1, EnqueueFacts DEF Others
  <2>3. Moves(f, c, 0, 0, 0)
    BY <2>1, <2>2 DEF Bit, FanOut
  <2>. HIDE DEF c
  <2>4. Calm(b, c, S, l)
    BY <1>3, <1>12, <2>2, CalmTrans
  <2>5. Moves(b, c, 0, 0, 0)
    BY <1>3, <1>13, <2>3, SumTypes DEF Moves
  <2>6. Stills(b, c) /\ Fewer(b, c)
    BY <1>14, <2>2 DEF Stills, Fewer
  <2>7. Parted(b, c, S, l) /\ c.keys = b.keys
    BY <1>15, <2>2, <2>4, <2>5, <2>6 DEF Parted
  <2>. QED BY <1>4, <1>17, <2>7 DEF c, t
<1>. QED BY <1>16, <1>17

\* Without the name of the one that is cancelled, the others keep theirs.
LEMMA NamesWithout ==
  ASSUME NEW b \in BusType, NEW c, NEW l \in Listeners, c.cancelled = b.cancelled \cup {l},
         c.keys = [b.keys EXCEPT ![NameOf[l]] = None]
  PROVE  NamesKept(b, c)
<1>1. b.keys \in [Names -> Listeners \cup {None}] /\ NameOf[l] \in Names
  BY TypeFacts, BusAssumption
<1>2. c.keys[NameOf[l]] = None /\ \A n \in Names : n # NameOf[l] => c.keys[n] = b.keys[n]
  BY <1>1
<1>3. ASSUME NEW K, Named(b, K), NEW n \in Names, c.keys[n] # None
      PROVE  NameOf[c.keys[n]] = n /\ c.keys[n] \notin c.cancelled /\ c.keys[n] \in K
  <2>1. n # NameOf[l] /\ c.keys[n] = b.keys[n]
    BY <1>2, <1>3
  <2>2. NameOf[b.keys[n]] = n /\ b.keys[n] \notin b.cancelled /\ b.keys[n] \in K
    BY <1>3, <2>1 DEF Named
  <2>. QED BY <2>1, <2>2
<1>. QED BY <1>3 DEF NamesKept, Named

LEMMA RemovedFacts ==
  ASSUME NEW b, NEW S, Sound(b, S), NEW l \in Listeners
  PROVE  LET c == Removed(b, l)
         IN  Parted(b, c, S, l) /\ NamesKept(b, c) /\ c.keys = [b.keys EXCEPT ![NameOf[l]] = None]
<1>. DEFINE d == Cancelled(b, l)
            c == Removed(b, l)
            t == Without(d.routes, "main", l)
            k == [d.keys EXCEPT ![NameOf[l]] = None]
<1>1. Parted(b, d, S, l) /\ d.keys = b.keys
  BY CancelledFacts
<1>2. b \in BusType /\ d \in BusType /\ Sound(d, S)
  BY <1>1 DEF Parted, Sound
<1>3. c = [d EXCEPT !.routes = t, !.keys = k]
  BY DEF Removed
<1>. HIDE DEF d
<1>4. d.routes \in Seq(RouteType) /\ Distinct(d.routes) /\ d.keys \in [Names -> Listeners \cup {None}]
  BY <1>2, TypeFacts DEF Sound, Routed
<1>5. t \in Seq(RouteType) /\ Distinct(t)
      /\ \A kind, m : On(t, kind, m) <=> On(d.routes, kind, m) /\ ~(kind = "main" /\ m = l)
  BY <1>4, WithoutFacts
<1>6. k \in [Names -> Listeners \cup {None}] /\ k = [b.keys EXCEPT ![NameOf[l]] = None]
  BY <1>1, <1>4
<1>. HIDE DEF c, t, k
<1>7. c \in BusType
  BY <1>2, <1>3, <1>5, <1>6 DEF BusType
<1>8. /\ c.keys = k /\ c.cancelled = d.cancelled /\ c.routes = t /\ c.running = d.running
      /\ c.fired = d.fired /\ c.timer = d.timer /\ c.left = d.left /\ c.loop = d.loop /\ c.slots = d.slots
      /\ c.pending = d.pending /\ c.holding = d.holding /\ c.delayed = d.delayed /\ c.ready = d.ready
  BY <1>2, <1>3 DEF BusType
<1>9. l \in d.cancelled
  BY <1>1 DEF Parted
<1>10. Routed(c, S)
  BY <1>2, <1>5, <1>8, <1>9 DEF Sound, Routed
<1>11. Tasked(c, S) /\ Used(c, S) /\ OneLate(c)
  BY <1>2, <1>8 DEF Sound, Tasked, Used, OneLate
<1>12. Sound(c, S)
  BY <1>7, <1>10, <1>11 DEF Sound
<1>13. Later(d, c, S)
  BY <1>2, <1>8, LaterSame
<1>14. Calm(d, c, S, l)
  BY <1>8, <1>13 DEF Calm
<1>15. Calm(b, c, S, l)
  BY <1>1, <1>2, <1>14, CalmTrans DEF Parted
<1>16. Moves(b, c, 0, 0, 0)
  <2>1. SlotSum(c) = SlotSum(d) /\ PendSum(c) = PendSum(d) /\ HoldSum(c) = HoldSum(d)
    BY <1>8 DEF SlotSum, PendSum, HoldSum, Run, Asleep
  <2>2. Moves(b, d, 0, 0, 0)
    BY <1>1 DEF Parted
  <2>. QED BY <2>1, <2>2 DEF Moves
<1>17. Parted(b, c, S, l)
  BY <1>1, <1>5, <1>8, <1>12, <1>15, <1>16 DEF Parted, Stills, Fewer
<1>18. c.keys = [b.keys EXCEPT ![NameOf[l]] = None] /\ c.cancelled = b.cancelled \cup {l}
  BY <1>1, <1>6, <1>8 DEF Parted
<1>19. NamesKept(b, c)
  BY ONLY <1>2, <1>18, NamesWithout
<1>. QED BY <1>17, <1>18, <1>19 DEF c

LEMMA UnsubscribedFacts ==
  ASSUME NEW b, NEW S, Sound(b, S), NEW l \in Listeners
  PROVE  LET c == Unsubscribed(b, l)
         IN  Parted(b, c, S, l) /\ NamesKept(b, c) /\ c.keys = [b.keys EXCEPT ![NameOf[l]] = None]
<1>. DEFINE k == [b.keys EXCEPT ![NameOf[l]] = None]
            d == [b EXCEPT !.keys = k]
            c == Removed(d, l)
<1>1. b \in BusType /\ k \in [Names -> Listeners \cup {None}]
  BY TypeFacts DEF Sound
<1>2. Unsubscribed(b, l) = c
  BY DEF Unsubscribed
<1>3. [k EXCEPT ![NameOf[l]] = None] = k
  BY <1>1
<1>. HIDE DEF k
<1>4. d \in BusType
  BY <1>1 DEF BusType
<1>5. /\ d.keys = k /\ d.cancelled = b.cancelled /\ d.routes = b.routes /\ d.running = b.running
      /\ d.fired = b.fired /\ d.timer = b.timer /\ d.left = b.left /\ d.loop = b.loop /\ d.slots = b.slots
      /\ d.pending = b.pending /\ d.holding = b.holding /\ d.delayed = b.delayed /\ d.ready = b.ready
  BY <1>1 DEF BusType
<1>. HIDE DEF d
<1>6. Sound(d, S)
  BY <1>4, <1>5 DEF Sound, Routed, Tasked, Used, OneLate
<1>7. Parted(d, c, S, l) /\ c.keys = [d.keys EXCEPT ![NameOf[l]] = None]
  BY ONLY <1>6, RemovedFacts DEF c
<1>8. c.keys = [b.keys EXCEPT ![NameOf[l]] = None]
  BY <1>3, <1>5, <1>7 DEF k
<1>. HIDE DEF c
<1>9. SlotSum(d) = SlotSum(b) /\ PendSum(d) = PendSum(b) /\ HoldSum(d) = HoldSum(b)
  BY <1>5 DEF SlotSum, PendSum, HoldSum, Run, Asleep
<1>10. Later(d, c, S) => Later(b, c, S)
  BY <1>5 DEF Later
<1>11. Parted(b, c, S, l)
  BY <1>5, <1>7, <1>9, <1>10 DEF Parted, Calm, Stills, Fewer, Moves
<1>12. c.cancelled = b.cancelled \cup {l}
  BY <1>11 DEF Parted
<1>13. NamesKept(b, c)
  BY ONLY <1>1, <1>8, <1>12, NamesWithout
<1>. QED BY <1>2, <1>8, <1>11, <1>13

----------------------------------------------------------------------------
(* What the start and the end of a handler do *)

\* The accounts of what a handler of kind v holds: a slot and a place in the pending
\* count, a place in the pending count, or an active timer.
SlotOf(v) == IF v = "slot" THEN 1 ELSE 0
PendOf(v) == IF v \in {"slot", "now"} THEN - 1 ELSE 0
HoldOf(v) == IF v = "timer" THEN - 1 ELSE 0

\* The outcome of a step about l that starts no handler but, perhaps, one of l's.
Settled(b, c, S, l, v) ==
    /\ Sound(c, S) /\ Calm(b, c, S, l) /\ Stills(b, c) /\ Moves(b, c, SlotOf(v), PendOf(v), HoldOf(v))
    /\ NamesKept(b, c)

LEMMA NamesSame ==
  ASSUME NEW b, NEW c, c.keys = b.keys, c.cancelled = b.cancelled
  PROVE  NamesKept(b, c)
BY DEF NamesKept, Named

LEMMA EndedFacts ==
  ASSUME NEW b, NEW S, Sound(b, S), NEW l \in Listeners, NEW v \in Via
  PROVE  Settled(b, Ended(b, l, v), S, l, v) /\ Fewer(b, Ended(b, l, v))
<1>. DEFINE c == IF l \in app.once THEN Removed(b, l) ELSE b
<1>1. b \in BusType
  BY DEF Sound
<1>2. Sound(c, S) /\ Calm(b, c, S, l) /\ Stills(b, c) /\ Moves(b, c, 0, 0, 0) /\ Fewer(b, c) /\ NamesKept(b, c)
  <2>1. CASE l \in app.once
    BY <2>1, RemovedFacts DEF Parted
  <2>2. CASE l \notin app.once
    <3>1. Later(b, b, S)
      BY <1>1, LaterSame
    <3>2. \A m \in Listeners : \A w \in Via : b.running[m][w] \in Nat
      BY <1>1, TypeFacts DEF RunningType
    <3>3. Fewer(b, b) /\ Stills(b, b) /\ Calm(b, b, S, l)
      BY <3>1, <3>2 DEF Fewer, Stills, Calm
    <3>4. Moves(b, b, 0, 0, 0)
      BY <1>1, SumTypes DEF Moves
    <3>. QED BY <2>2, <3>3, <3>4, NamesSame
  <2>. QED BY <2>1, <2>2
<1>3. c \in BusType
  BY <1>2 DEF Sound
<1>4. CASE v \in {"slot", "now"}
  <2>. DEFINE t == IF v = "slot" THEN Task("done", None, None) ELSE Task("settled", None, None)
              d == Enqueue(c, t)
  <2>1. Ended(b, l, v) = d
    BY <1>4 DEF Ended
  <2>2. /\ t \in TaskType /\ TaskOK(t, S) /\ t.kind \in Others
        /\ Bit(t.kind \in FanOut) = SlotOf(v)
        /\ - Bit(t.kind \in FanOut \cup {"immediate", "settled"}) = PendOf(v) /\ HoldOf(v) = 0
    <3>1. CASE v = "slot"
      <4>1. t \in TaskType /\ TaskOK(t, S) /\ t.kind = "done"
        BY <3>1, TaskTypes
      <4>. HIDE DEF t
      <4>2. Bit(t.kind \in FanOut) = 1 /\ Bit(t.kind \in FanOut \cup {"immediate", "settled"}) = 1
        BY <4>1 DEF Bit, FanOut
      <4>3. SlotOf(v) = 1 /\ PendOf(v) = - 1 /\ HoldOf(v) = 0
        BY <3>1 DEF SlotOf, PendOf, HoldOf
      <4>. QED BY <4>1, <4>2, <4>3 DEF Others
    <3>2. CASE v = "now"
      <4>1. t \in TaskType /\ TaskOK(t, S) /\ t.kind = "settled"
        BY <3>2, TaskTypes
      <4>. HIDE DEF t
      <4>2. Bit(t.kind \in FanOut) = 0 /\ Bit(t.kind \in FanOut \cup {"immediate", "settled"}) = 1
        BY <4>1 DEF Bit, FanOut
      <4>3. SlotOf(v) = 0 /\ PendOf(v) = - 1 /\ HoldOf(v) = 0
        BY <3>2 DEF SlotOf, PendOf, HoldOf
      <4>. QED BY <4>1, <4>2, <4>3 DEF Others
    <3>. QED BY <1>4, <3>1, <3>2
  <2>3. SlotOf(v) \in Int /\ PendOf(v) \in Int
    BY DEF SlotOf, PendOf
  <2>. HIDE DEF c, t
  <2>4. /\ Sound(d, S) /\ Calm(c, d, S, l) /\ Moves(c, d, SlotOf(v), PendOf(v), 0)
        /\ d.keys = c.keys /\ d.cancelled = c.cancelled /\ d.running = c.running /\ d.timer = c.timer
    BY <1>2, <2>2, EnqueueFacts
  <2>. HIDE DEF d
  <2>5. Calm(b, d, S, l)
    BY <1>1, <1>2, <2>4, CalmTrans
  <2>6. Moves(b, d, SlotOf(v), PendOf(v), HoldOf(v))
    BY <1>1, <1>2, <2>2, <2>3, <2>4, SumTypes DEF Moves
  <2>7. Stills(b, d) /\ Fewer(b, d)
    BY <1>2, <2>4 DEF Stills, Fewer
  <2>8. NamesKept(b, d)
    BY <1>2, <2>4 DEF NamesKept, Named
  <2>. QED BY <2>1, <2>4, <2>5, <2>6, <2>7, <2>8 DEF Settled
<1>5. CASE v = "timer"
  <2>. DEFINE h == c.holding - 1
              d == [c EXCEPT !.holding = h]
  <2>1. Ended(b, l, v) = d
    BY <1>5 DEF Ended
  <2>. HIDE DEF c
  <2>2. h \in Int /\ c.holding \in Int /\ h = c.holding - 1
    BY <1>3, TypeFacts
  <2>. HIDE DEF h
  <2>3. d \in BusType
    BY <1>3, <2>2 DEF BusType
  <2>4. /\ d.keys = c.keys /\ d.cancelled = c.cancelled /\ d.routes = c.routes /\ d.running = c.running
        /\ d.fired = c.fired /\ d.timer = c.timer /\ d.left = c.left /\ d.loop = c.loop /\ d.slots = c.slots
        /\ d.pending = c.pending /\ d.holding = h /\ d.delayed = c.delayed /\ d.ready = c.ready
    BY <1>3 DEF BusType
  <2>. HIDE DEF d
  <2>5. Sound(d, S)
    BY <1>2, <2>3, <2>4 DEF Sound, Routed, Tasked, Used, OneLate
  <2>6. Later(c, d, S)
    BY <1>3, <2>4, LaterSame
  <2>7. Calm(c, d, S, l)
    BY <2>4, <2>6 DEF Calm
  <2>8. Calm(b, d, S, l)
    BY <1>1, <1>2, <2>7, CalmTrans
  <2>9. SlotSum(d) = SlotSum(c) /\ PendSum(d) = PendSum(c)
    BY <2>4 DEF SlotSum, PendSum, Run
  <2>10. HoldSum(d) = HoldSum(c) - 1
    <3>1. Run(d, "timer") = Run(c, "timer") /\ Asleep(d) = Asleep(c)
      BY <2>4 DEF Run, Asleep
    <3>2. Run(c, "timer") \in Nat /\ Asleep(c) \in Nat
      BY <1>3, SumTypes DEF Via
    <3>. QED BY <2>2, <2>4, <3>1, <3>2 DEF HoldSum
  <2>11. SlotOf(v) = 0 /\ PendOf(v) = 0 /\ HoldOf(v) = - 1
    BY <1>5 DEF SlotOf, PendOf, HoldOf
  <2>12. Moves(b, d, SlotOf(v), PendOf(v), HoldOf(v))
    BY <1>1, <1>2, <1>3, <2>9, <2>10, <2>11, SumTypes DEF Moves
  <2>13. Stills(b, d) /\ Fewer(b, d) /\ NamesKept(b, d)
    BY <1>2, <2>4 DEF Stills, Fewer, NamesKept, Named
  <2>. QED BY <2>1, <2>5, <2>8, <2>12, <2>13 DEF Settled
<1>6. CASE v = "late"
  <2>1. Ended(b, l, v) = c
    BY <1>6 DEF Ended
  <2>2. SlotOf(v) = 0 /\ PendOf(v) = 0 /\ HoldOf(v) = 0
    BY <1>6 DEF SlotOf, PendOf, HoldOf
  <2>. QED BY <1>2, <2>1, <2>2 DEF Settled
<1>. QED BY <1>4, <1>5, <1>6 DEF Via

\* Of the handlers at most one of l's, of kind v, may be started.
Grows(b, c, l, v) ==
    \A m \in Listeners : \A w \in Via : c.running[m][w] > b.running[m][w] => m = l /\ w = v

LEMMA FewerGrows ==
  ASSUME NEW b \in BusType, NEW c \in BusType, Fewer(b, c), NEW l, NEW v
  PROVE  Grows(b, c, l, v)
<1>1. \A m \in Listeners : \A w \in Via : b.running[m][w] \in Nat /\ c.running[m][w] \in Nat
  BY TypeFacts DEF RunningType
<1>. QED BY <1>1 DEF Fewer, Grows

LEMMA SettledTrans ==
  ASSUME NEW a \in BusType, NEW b \in BusType, NEW c, NEW S, NEW l, NEW v \in Via,
         Calm(a, b, S, l), Stills(a, b), Moves(a, b, 0, 0, 0), NamesKept(a, b), Settled(b, c, S, l, v)
  PROVE  Settled(a, c, S, l, v)
<1>1. Calm(a, c, S, l)
  BY CalmTrans DEF Settled
<1>2. SlotOf(v) \in Int /\ PendOf(v) \in Int /\ HoldOf(v) \in Int
  BY DEF SlotOf, PendOf, HoldOf
<1>3. Moves(a, c, SlotOf(v), PendOf(v), HoldOf(v))
  BY <1>2, SumTypes DEF Settled, Moves
<1>. QED BY <1>1, <1>3 DEF Settled, Stills, NamesKept

\* One handler more.
LEMMA RunMoves ==
  ASSUME NEW b \in BusType, NEW c \in BusType, NEW v \in Via,
         c.slots = b.slots, c.pending = b.pending, c.holding = b.holding, c.ready = b.ready, c.loop = b.loop,
         c.timer = b.timer, Run(c, v) = Run(b, v) + 1, \A w \in Via \ {v} : Run(c, w) = Run(b, w)
  PROVE  Moves(b, c, SlotOf(v), PendOf(v), HoldOf(v))
<1>. DEFINE K == FanOut \cup {"immediate", "settled"}
<1>1. Number(c.ready, FanOut) = Number(b.ready, FanOut) /\ Number(c.ready, K) = Number(b.ready, K)
      /\ Asleep(c) = Asleep(b) /\ Bit(c.loop.at = "woken") = Bit(b.loop.at = "woken")
  BY DEF Asleep
<1>2. /\ b.slots \in Int /\ b.pending \in Int /\ b.holding \in Int
      /\ Number(b.ready, FanOut) \in Nat /\ Number(b.ready, K) \in Nat
      /\ Run(b, "slot") \in Nat /\ Run(b, "now") \in Nat /\ Run(b, "timer") \in Nat
      /\ Asleep(b) \in Nat /\ Bit(b.loop.at = "woken") \in Nat
  BY SumTypes DEF Via
<1>3. /\ SlotSum(b) = b.slots + Number(b.ready, FanOut) + Run(b, "slot") + Bit(b.loop.at = "woken")
      /\ SlotSum(c) = c.slots + Number(c.ready, FanOut) + Run(c, "slot") + Bit(c.loop.at = "woken")
      /\ PendSum(b) = b.pending - Number(b.ready, K) - Run(b, "slot") - Run(b, "now")
      /\ PendSum(c) = c.pending - Number(c.ready, K) - Run(c, "slot") - Run(c, "now")
      /\ HoldSum(b) = b.holding - Asleep(b) - Run(b, "timer")
      /\ HoldSum(c) = c.holding - Asleep(c) - Run(c, "timer")
  BY DEF SlotSum, PendSum, HoldSum
<1>4. /\ Run(c, "slot") = Run(b, "slot") + SlotOf(v)
      /\ Run(c, "slot") + Run(c, "now") = Run(b, "slot") + Run(b, "now") - PendOf(v)
      /\ Run(c, "timer") = Run(b, "timer") - HoldOf(v)
  <2>1. "slot" \in Via /\ "now" \in Via /\ "timer" \in Via
    BY DEF Via
  <2>2. CASE v = "slot"
    <3>1. SlotOf(v) = 1 /\ PendOf(v) = - 1 /\ HoldOf(v) = 0
      BY <2>2 DEF SlotOf, PendOf, HoldOf
    <3>. QED BY <1>2, <2>1, <2>2, <3>1
  <2>3. CASE v = "now"
    <3>1. SlotOf(v) = 0 /\ PendOf(v) = - 1 /\ HoldOf(v) = 0
      BY <2>3 DEF SlotOf, PendOf, HoldOf
    <3>. QED BY <1>2, <2>1, <2>3, <3>1
  <2>4. CASE v = "timer"
    <3>1. SlotOf(v) = 0 /\ PendOf(v) = 0 /\ HoldOf(v) = - 1
      BY <2>4 DEF SlotOf, PendOf, HoldOf
    <3>. QED BY <1>2, <2>1, <2>4, <3>1
  <2>5. CASE v = "late"
    <3>1. SlotOf(v) = 0 /\ PendOf(v) = 0 /\ HoldOf(v) = 0
      BY <2>5 DEF SlotOf, PendOf, HoldOf
    <3>. QED BY <1>2, <2>1, <2>5, <3>1
  <2>. QED BY <2>2, <2>3, <2>4, <2>5 DEF Via
<1>5. SlotOf(v) \in Int /\ PendOf(v) \in Int /\ HoldOf(v) \in Int
  BY DEF SlotOf, PendOf, HoldOf
<1>6. c.slots = b.slots /\ c.pending = b.pending /\ c.holding = b.holding
  OBVIOUS
<1>7. Run(c, "slot") \in Nat /\ Run(c, "now") \in Nat /\ Run(c, "timer") \in Nat
  BY SumTypes DEF Via
<1>. HIDE DEF K
<1>8. SlotSum(c) = SlotSum(b) + SlotOf(v)
  BY <1>1, <1>2, <1>3, <1>4, <1>5, <1>6
<1>9. PendSum(c) = PendSum(b) + PendOf(v)
  BY <1>1, <1>2, <1>3, <1>4, <1>5, <1>6, <1>7
<1>10. HoldSum(c) = HoldSum(b) + HoldOf(v)
  BY <1>1, <1>2, <1>3, <1>4, <1>5, <1>6
<1>. QED BY <1>8, <1>9, <1>10 DEF Moves

LEMMA GuardedFacts ==
  ASSUME NEW b, NEW S, Sound(b, S), NEW l \in Listeners, l \in S, NEW v \in Via,
         v = "late" => l \notin b.delayed /\ (l \in app.parallel => b.running[l]["late"] = 0)
  PROVE  Settled(b, Guarded(b, l, v), S, l, v) /\ Grows(b, Guarded(b, l, v), l, v)
<1>1. b \in BusType /\ b.running \in RunningType
  BY TypeFacts DEF Sound
<1>2. CASE l \notin app.parallel /\ Busy(b, l)
  <2>1. Guarded(b, l, v) = Ended(b, l, v)
    BY <1>2 DEF Guarded
  <2>2. Settled(b, Ended(b, l, v), S, l, v) /\ Fewer(b, Ended(b, l, v))
    BY EndedFacts
  <2>3. Ended(b, l, v) \in BusType
    BY <2>2 DEF Settled, Sound
  <2>. QED BY <1>1, <2>1, <2>2, <2>3, FewerGrows
<1>3. CASE ~(l \notin app.parallel /\ Busy(b, l))
  <2>. DEFINE r == [b.running EXCEPT ![l][v] = @ + 1]
              c == [b EXCEPT !.running = r]
  <2>1. Guarded(b, l, v) = c
    BY <1>3 DEF Guarded
  <2>2. /\ r \in RunningType /\ r[l][v] = b.running[l][v] + 1
        /\ \A m \in Listeners : \A w \in Via : m # l \/ w # v => r[m][w] = b.running[m][w]
    BY <1>1 DEF RunningType
  <2>3. \A m \in Listeners : \A w \in Via : b.running[m][w] \in Nat
    BY <1>1 DEF RunningType
  <2>. HIDE DEF r
  <2>4. c \in BusType
    BY <1>1, <2>2 DEF BusType, RunningType
  <2>5. /\ c.keys = b.keys /\ c.cancelled = b.cancelled /\ c.routes = b.routes /\ c.running = r
        /\ c.fired = b.fired /\ c.timer = b.timer /\ c.left = b.left /\ c.loop = b.loop /\ c.slots = b.slots
        /\ c.pending = b.pending /\ c.holding = b.holding /\ c.delayed = b.delayed /\ c.ready = b.ready
    BY <1>1 DEF BusType
  <2>. HIDE DEF c
  <2>6. Routed(c, S) /\ Tasked(c, S)
    BY <2>5 DEF Sound, Routed, Tasked
  <2>7. Used(c, S)
    <3>1. \A m \in Listeners : \A w \in Via : r[m][w] > 0 => m = l \/ b.running[m][w] > 0
      BY <2>2
    <3>. QED BY <2>5, <3>1 DEF Sound, Used
  <2>8. OneLate(c)
    <3>1. v = "late" => b.running[l]["late"] = 0
      <4>1. v = "late" /\ l \notin app.parallel => ~(b.running[l]["late"] > 0)
        BY <1>3 DEF Busy
      <4>. QED BY <2>3, <4>1 DEF Via
    <3>2. "late" \in Via
      BY DEF Via
    <3>3. ASSUME NEW m \in Listeners
          PROVE  r[m]["late"] <= 1 /\ (m \in b.delayed \cap app.parallel => r[m]["late"] = 0)
      <4>1. CASE m = l /\ v = "late"
        BY <2>2, <3>1, <4>1
      <4>2. CASE ~(m = l /\ v = "late")
        BY <2>2, <3>2, <4>2 DEF Sound, OneLate
      <4>. QED BY <4>1, <4>2
    <3>. QED BY <2>5, <3>3 DEF OneLate
  <2>9. Later(b, c, S)
    BY <1>1, <2>5, LaterSame
  <2>10. Calm(b, c, S, l) /\ Stills(b, c) /\ NamesKept(b, c)
    BY <2>5, <2>9 DEF Calm, Stills, NamesKept, Named
  <2>11. Run(c, v) = Run(b, v) + 1 /\ \A w \in Via \ {v} : Run(c, w) = Run(b, w)
    <3>1. Cardinality(Runs(r, v)) = Cardinality(Runs(b.running, v)) + 1
      BY <1>1, <2>2, RunsPlus
    <3>2. ASSUME NEW w \in Via \ {v} PROVE Runs(r, w) = Runs(b.running, w)
      BY <2>2, RunsSame
    <3>. QED BY <2>5, <3>1, <3>2 DEF Run
  <2>12. Moves(b, c, SlotOf(v), PendOf(v), HoldOf(v))
    BY <1>1, <2>4, <2>5, <2>11, RunMoves
  <2>13. Grows(b, c, l, v)
    BY <2>2, <2>3, <2>5 DEF Grows
  <2>14. Sound(c, S)
    BY <2>4, <2>6, <2>7, <2>8 DEF Sound
  <2>. QED BY <2>1, <2>10, <2>12, <2>13, <2>14 DEF Settled
<1>. QED BY <1>2, <1>3

LEMMA DebouncedFacts ==
  ASSUME NEW b, NEW S, Sound(b, S), NEW l \in Listeners, l \in S, l \notin b.cancelled, l \in app.debounced
  PROVE  LET c == Debounced(b, l)
         IN  /\ Sound(c, S) /\ Calm(b, c, S, l) /\ Stills(b, c) /\ Moves(b, c, 0, 0, 0) /\ Fewer(b, c)
             /\ NamesKept(b, c) /\ c.fired = b.fired
<1>. DEFINE d == DelayCancelled(b, l)
            de == d.delayed \cup {l}
            ow == d.owed \cup {l}
            c == [d EXCEPT !.delayed = de, !.owed = ow]
<1>1. /\ Sound(d, S) /\ Calm(b, d, S, l) /\ Moves(b, d, 0, 0, 0) /\ Fewer(b, d)
      /\ l \in app.parallel => d.running[l]["late"] = 0
      /\ d.keys = b.keys /\ d.cancelled = b.cancelled /\ d.timer = b.timer /\ d.fired = b.fired
  BY DelayCancelledFacts
<1>2. b \in BusType /\ d \in BusType
  BY <1>1 DEF Sound
<1>3. Debounced(b, l) = c
  BY DEF Debounced
<1>. HIDE DEF d
<1>4. de \subseteq app.debounced /\ ow \subseteq app.debounced /\ de = d.delayed \cup {l}
  BY <1>2, TypeFacts
<1>. HIDE DEF de, ow
<1>5. c \in BusType
  BY <1>2, <1>4 DEF BusType
<1>6. /\ c.keys = d.keys /\ c.cancelled = d.cancelled /\ c.routes = d.routes /\ c.running = d.running
      /\ c.fired = d.fired /\ c.timer = d.timer /\ c.left = d.left /\ c.loop = d.loop /\ c.slots = d.slots
      /\ c.pending = d.pending /\ c.holding = d.holding /\ c.delayed = de /\ c.ready = d.ready
  BY <1>2 DEF BusType
<1>. HIDE DEF c
<1>7. Routed(c, S) /\ Tasked(c, S)
  BY <1>1, <1>6 DEF Sound, Routed, Tasked
<1>8. Used(c, S) /\ OneLate(c)
  BY <1>1, <1>4, <1>6 DEF Sound, Used, OneLate
<1>9. Later(d, c, S)
  BY <1>2, <1>6, LaterSame
<1>10. Calm(d, c, S, l)
  BY <1>6, <1>9 DEF Calm
<1>11. Calm(b, c, S, l)
  BY <1>1, <1>2, <1>10, CalmTrans
<1>12. SlotSum(c) = SlotSum(d) /\ PendSum(c) = PendSum(d) /\ HoldSum(c) = HoldSum(d)
  BY <1>6 DEF SlotSum, PendSum, HoldSum, Run, Asleep
<1>13. Moves(b, c, 0, 0, 0) /\ Fewer(b, c) /\ Stills(b, c) /\ NamesKept(b, c)
  BY <1>1, <1>6, <1>12 DEF Moves, Fewer, Stills, NamesKept, Named
<1>. QED BY <1>1, <1>3, <1>5, <1>6, <1>7, <1>8, <1>11, <1>13 DEF Sound

\* The once-guard keeps a spent listener's handler from being started.
LEMMA InvokedFacts ==
  ASSUME NEW b, NEW S, Sound(b, S), NEW l \in Listeners, l \in S, NEW v \in Via \ {"late"}
  PROVE  LET c == Invoked(b, l, v)
         IN  /\ Settled(b, c, S, l, v) /\ Grows(b, c, l, v)
             /\ Spent(b, l) => Fewer(b, c)
             /\ l \in app.once => l \in c.fired
<1>. DEFINE fi == IF l \in app.once THEN b.fired \cup {l} ELSE b.fired
            d == [b EXCEPT !.fired = fi]
            c == Invoked(b, l, v)
<1>1. b \in BusType /\ b.fired \subseteq Listeners
  BY TypeFacts DEF Sound
<1>2. fi \subseteq Listeners /\ b.fired \subseteq fi /\ (l \in app.once => l \in fi)
  BY <1>1
<1>3. c = IF Spent(b, l) \/ Declined(b, l) THEN Ended(d, l, v)
          ELSE IF l \in app.debounced THEN Ended(Debounced(d, l), l, v)
          ELSE Guarded([d EXCEPT !.shut = IF l \in app.throttled THEN @ \cup {l} ELSE @], l, v)
  BY Zenon DEF Invoked
<1>. HIDE DEF fi
<1>4. d \in BusType
  BY <1>1, <1>2 DEF BusType
<1>5. /\ d.keys = b.keys /\ d.cancelled = b.cancelled /\ d.routes = b.routes /\ d.running = b.running
      /\ d.fired = fi /\ d.timer = b.timer /\ d.left = b.left /\ d.loop = b.loop /\ d.slots = b.slots
      /\ d.pending = b.pending /\ d.holding = b.holding /\ d.delayed = b.delayed /\ d.ready = b.ready
      /\ d.shut = b.shut
  BY <1>1 DEF BusType
<1>. HIDE DEF d, c
<1>7. Sound(d, S)
  BY <1>4, <1>5 DEF Sound, Routed, Tasked, Used, OneLate
<1>8. Later(b, d, S)
  BY <1>1, <1>5, LaterSame
<1>9. Calm(b, d, S, l) /\ Stills(b, d) /\ NamesKept(b, d)
  BY <1>2, <1>5, <1>8 DEF Calm, Stills, NamesKept, Named
<1>10. SlotSum(d) = SlotSum(b) /\ PendSum(d) = PendSum(b) /\ HoldSum(d) = HoldSum(b)
  BY <1>5 DEF SlotSum, PendSum, HoldSum, Run, Asleep
<1>11. Moves(b, d, 0, 0, 0)
  BY <1>1, <1>10, SumTypes DEF Moves
<1>12. l \in app.once => l \in d.fired
  BY <1>2, <1>5
<1>13. CASE Spent(b, l) \/ Declined(b, l)
  <2>1. Settled(d, c, S, l, v) /\ Fewer(d, c)
    BY <1>3, <1>7, <1>13, EndedFacts
  <2>2. Settled(b, c, S, l, v)
    BY <1>1, <1>4, <1>9, <1>11, <2>1, SettledTrans
  <2>3. c \in BusType /\ Fewer(b, c) /\ d.fired \subseteq c.fired
    BY <1>5, <2>1 DEF Settled, Sound, Fewer, Calm
  <2>4. Grows(b, c, l, v)
    BY <1>1, <2>3, FewerGrows
  <2>. QED BY <1>12, <2>2, <2>3, <2>4 DEF c
<1>14. CASE ~(Spent(b, l) \/ Declined(b, l)) /\ l \in app.debounced
  <2>. DEFINE e == Debounced(d, l)
  <2>1. l \notin d.cancelled
    BY <1>5, <1>14 DEF Declined
  <2>2. /\ Sound(e, S) /\ Calm(d, e, S, l) /\ Stills(d, e) /\ Moves(d, e, 0, 0, 0) /\ Fewer(d, e)
        /\ NamesKept(d, e) /\ e.fired = d.fired
    BY <1>7, <1>14, <2>1, DebouncedFacts
  <2>3. c = Ended(e, l, v)
    BY <1>3, <1>14
  <2>. HIDE DEF e
  <2>4. Settled(e, c, S, l, v) /\ Fewer(e, c)
    BY <2>2, <2>3, EndedFacts
  <2>5. e \in BusType /\ c \in BusType
    BY <2>2, <2>4 DEF Settled, Sound
  <2>6. Settled(d, c, S, l, v)
    BY <1>4, <2>2, <2>4, <2>5, SettledTrans
  <2>7. Settled(b, c, S, l, v)
    BY <1>1, <1>4, <1>9, <1>11, <2>6, SettledTrans
  <2>8. Fewer(b, c)
    <3>1. \A m \in Listeners : \A w \in Via :
             b.running[m][w] \in Nat /\ e.running[m][w] \in Nat /\ c.running[m][w] \in Nat
      BY <1>1, <2>5, TypeFacts DEF RunningType
    <3>. QED BY <1>5, <2>2, <2>4, <3>1 DEF Fewer
  <2>9. l \in app.once => l \in c.fired
    BY <1>12, <2>6 DEF Settled, Calm
  <2>10. Grows(b, c, l, v)
    BY <1>1, <2>5, <2>8, FewerGrows
  <2>. QED BY <2>7, <2>8, <2>9, <2>10 DEF c
<1>15. CASE ~(Spent(b, l) \/ Declined(b, l)) /\ l \notin app.debounced
  <2>. DEFINE sh == IF l \in app.throttled THEN d.shut \cup {l} ELSE d.shut
              e == [d EXCEPT !.shut = sh]
  <2>1. sh \subseteq app.throttled
    BY <1>4, TypeFacts
  <2>2. c = Guarded(e, l, v)
    BY <1>3, <1>15
  <2>. HIDE DEF sh
  <2>3. e \in BusType
    BY <1>4, <2>1 DEF BusType
  <2>4. /\ e.keys = d.keys /\ e.cancelled = d.cancelled /\ e.routes = d.routes /\ e.running = d.running
        /\ e.fired = d.fired /\ e.timer = d.timer /\ e.left = d.left /\ e.loop = d.loop /\ e.slots = d.slots
        /\ e.pending = d.pending /\ e.holding = d.holding /\ e.delayed = d.delayed /\ e.ready = d.ready
    BY <1>4 DEF BusType
  <2>. HIDE DEF e
  <2>5. Sound(e, S)
    BY <1>7, <2>3, <2>4 DEF Sound, Routed, Tasked, Used, OneLate
  <2>6. Later(d, e, S)
    BY <1>4, <2>4, LaterSame
  <2>7. Calm(d, e, S, l) /\ Stills(d, e) /\ NamesKept(d, e)
    BY <2>4, <2>6 DEF Calm, Stills, NamesKept, Named
  <2>8. SlotSum(e) = SlotSum(d) /\ PendSum(e) = PendSum(d) /\ HoldSum(e) = HoldSum(d)
    BY <2>4 DEF SlotSum, PendSum, HoldSum, Run, Asleep
  <2>9. Moves(d, e, 0, 0, 0)
    BY <1>4, <2>8, SumTypes DEF Moves
  <2>10. Settled(e, c, S, l, v) /\ Grows(e, c, l, v)
    BY <2>2, <2>5, GuardedFacts
  <2>11. Settled(d, c, S, l, v)
    BY <1>4, <2>3, <2>7, <2>9, <2>10, SettledTrans
  <2>12. Settled(b, c, S, l, v)
    BY <1>1, <1>4, <1>9, <1>11, <2>11, SettledTrans
  <2>13. Grows(b, c, l, v) /\ (l \in app.once => l \in c.fired)
    BY <1>5, <1>12, <2>4, <2>10, <2>11 DEF Grows, Settled, Calm
  <2>. QED BY <1>15, <2>12, <2>13 DEF c
<1>. QED BY <1>13, <1>14, <1>15

----------------------------------------------------------------------------
(* The line of tasks *)

\* Tasks that are not about an event change nothing about the line.
LEMMA LineKept ==
  ASSUME NEW b \in BusType, NEW c, NEW S, Later(b, c, S), c.loop = b.loop, c.slots = b.slots, Line(b)
  PROVE  Line(c)
<1>1. PICK x \in Seq(TaskType) : /\ c.ready = b.ready \o x
                                 /\ \A i \in DOMAIN x : x[i].kind \in Others /\ TaskOK(x[i], S)
  BY DEF Later
<1>. DEFINE r == b.ready
            q == c.ready
<1>2. /\ r \in Seq(TaskType) /\ DOMAIN q = 1..(Len(r) + Len(x)) /\ DOMAIN x = 1..Len(x)
      /\ DOMAIN r = 1..Len(r) /\ Len(x) \in Nat /\ Len(r) \in Nat
      /\ \A i \in 1..(Len(r) + Len(x)) : q[i] = IF i <= Len(r) THEN r[i] ELSE x[i - Len(r)]
  BY <1>1, TypeFacts, ConcatProperties, LenProperties
<1>3. \A i \in DOMAIN q : q[i].kind \in Pipe \cup {"go"} => i \in DOMAIN r /\ q[i] = r[i]
  <2>. SUFFICES ASSUME NEW i \in DOMAIN q, q[i].kind \in Pipe \cup {"go"}
                PROVE  i \in DOMAIN r /\ q[i] = r[i]
    OBVIOUS
  <2>1. CASE i <= Len(r)
    BY <1>2, <2>1
  <2>2. CASE ~(i <= Len(r))
    <3>1. i - Len(r) \in DOMAIN x /\ q[i] = x[i - Len(r)]
      BY <1>2, <2>2
    <3>. QED BY <1>1, <3>1 DEF Others, Pipe
  <2>. QED BY <2>1, <2>2
<1>. HIDE DEF q, r
<1>4. \A i \in DOMAIN c.ready : c.ready[i].kind \in Pipe \cup {"go"} => i \in DOMAIN b.ready /\ c.ready[i] = b.ready[i]
  BY <1>3 DEF q, r
<1>5. "proxy" \in Pipe
  BY DEF Pipe
<1>. QED BY <1>4, <1>5 DEF Line

\* Nor about which tasks about an event are under way.
LEMMA PendingKept ==
  ASSUME NEW b \in BusType, NEW c, NEW S, Later(b, c, S), c.loop = b.loop, NEW t, t.kind \in Pipe
  PROVE  Pending(c, t) <=> Pending(b, t)
<1>1. PICK x \in Seq(TaskType) : /\ c.ready = b.ready \o x
                                 /\ \A i \in DOMAIN x : x[i].kind \in Others /\ TaskOK(x[i], S)
  BY DEF Later
<1>. DEFINE r == b.ready
            q == c.ready
<1>2. /\ r \in Seq(TaskType) /\ DOMAIN q = 1..(Len(r) + Len(x)) /\ DOMAIN x = 1..Len(x)
      /\ DOMAIN r = 1..Len(r) /\ Len(x) \in Nat /\ Len(r) \in Nat
      /\ \A i \in 1..(Len(r) + Len(x)) : q[i] = IF i <= Len(r) THEN r[i] ELSE x[i - Len(r)]
  BY <1>1, TypeFacts, ConcatProperties, LenProperties
<1>3. ASSUME NEW i \in DOMAIN q, q[i] = t PROVE i \in DOMAIN r /\ r[i] = t
  <2>1. CASE i <= Len(r)
    BY <1>2, <1>3, <2>1
  <2>2. CASE ~(i <= Len(r))
    <3>0. i \in 1..(Len(r) + Len(x))
      BY <1>2, <1>3
    <3>1. i - Len(r) \in 1..Len(x)
      BY <1>2, <2>2, <3>0
    <3>2. i - Len(r) \in DOMAIN x /\ q[i] = x[i - Len(r)]
      BY <1>2, <2>2, <3>0, <3>1
    <3>. QED BY <1>1, <1>3, <3>2 DEF Others, Pipe
  <2>. QED BY <2>1, <2>2
<1>4. ASSUME NEW i \in DOMAIN r, r[i] = t PROVE i \in DOMAIN q /\ q[i] = t
  BY <1>2, <1>4
<1>. HIDE DEF q, r
<1>5. (\E i \in DOMAIN q : q[i] = t) <=> (\E i \in DOMAIN r : r[i] = t)
  BY <1>3, <1>4
<1>. QED BY <1>5 DEF Pending, q, r

LEMMA HoldKept ==
  ASSUME NEW b \in BusType, NEW c, NEW S, NEW l, Calm(b, c, S, l), NEW m \in Listeners,
         c.timer[m] = "sleeping" => b.timer[m] = "sleeping", NEW state, Hold(b, state, m)
  PROVE  Hold(c, state, m)
<1>1. \A t : t.kind \in Pipe => (Pending(c, t) <=> Pending(b, t))
  BY PendingKept DEF Calm
<1>2. \A e, k : /\ Task("proxy", None, e).kind \in Pipe /\ Task("main", k, e).kind \in Pipe
                /\ Task("cancel", k, e).kind \in Pipe
  BY DEF Task, Pipe
<1>3. \A e, k : /\ Pending(c, Task("proxy", None, e)) <=> Pending(b, Task("proxy", None, e))
                /\ Pending(c, Task("main", k, e)) <=> Pending(b, Task("main", k, e))
                /\ Pending(c, Task("cancel", k, e)) <=> Pending(b, Task("cancel", k, e))
  BY <1>1, <1>2
<1>4. m \notin c.cancelled => m \notin b.cancelled
  BY DEF Calm
<1>5. m \in c.left => m \in b.left
  BY DEF Calm
<1>. QED BY <1>3, <1>4, <1>5 DEF Hold

----------------------------------------------------------------------------
(* The next task starts, and the loop's task is made ready *)

LEMMA StartedFacts ==
  ASSUME NEW b, NEW S, Sound(b, S), b.ready # <<>>
  PROVE  LET c == Started(b)
             t == Head(b.ready)
         IN  /\ Sound(c, S) /\ t \in TaskType /\ TaskOK(t, S) /\ t = b.ready[1] /\ 1 \in DOMAIN b.ready
             /\ Moves(b, c, - Bit(t.kind \in FanOut), Bit(t.kind \in FanOut \cup {"immediate", "settled"}), 0)
             /\ c.keys = b.keys /\ c.cancelled = b.cancelled /\ c.routes = b.routes /\ c.running = b.running
             /\ c.fired = b.fired /\ c.timer = b.timer /\ c.delayed = b.delayed /\ c.left = b.left
             /\ c.pending = b.pending /\ c.slots = b.slots /\ c.loop = b.loop /\ c.ready = Tail(b.ready)
             /\ Line(b) => Line(c)
             /\ \A s : s # t => (Pending(c, s) <=> Pending(b, s))
             /\ \A s : Pending(c, s) => Pending(b, s)
<1>. DEFINE c == Started(b)
            r == Tail(b.ready)
            t == Head(b.ready)
<1>1. b \in BusType /\ b.ready \in Seq(TaskType)
  BY TypeFacts DEF Sound
<1>2. /\ t \in TaskType /\ t = b.ready[1] /\ 1 \in DOMAIN b.ready /\ r \in Seq(TaskType)
      /\ Len(r) = Len(b.ready) - 1
      /\ \A i \in DOMAIN r : i \in Nat /\ i + 1 \in DOMAIN b.ready /\ r[i] = b.ready[i + 1]
      /\ \A K : Number(b.ready, K) = Bit(t.kind \in K) + Number(r, K)
  BY <1>1, NumberHead
<1>3. c = [b EXCEPT !.ready = r]
  BY DEF Started
<1>4. DOMAIN b.ready = 1..Len(b.ready) /\ DOMAIN r = 1..Len(r) /\ Len(r) \in Nat /\ Len(b.ready) \in Nat
  BY <1>1, <1>2, LenProperties
<1>5. \A i \in DOMAIN b.ready : i # 1 => i - 1 \in DOMAIN r /\ r[i - 1] = b.ready[i]
  <2>. SUFFICES ASSUME NEW i \in DOMAIN b.ready, i # 1 PROVE i - 1 \in DOMAIN r /\ r[i - 1] = b.ready[i]
    OBVIOUS
  <2>1. i - 1 \in DOMAIN r /\ (i - 1) + 1 = i
    BY <1>2, <1>4
  <2>. QED BY <1>2, <2>1
<1>. HIDE DEF c, r, t
<1>6. c \in BusType
  BY <1>1, <1>2, <1>3 DEF BusType
<1>7. /\ c.keys = b.keys /\ c.cancelled = b.cancelled /\ c.routes = b.routes /\ c.running = b.running
      /\ c.fired = b.fired /\ c.timer = b.timer /\ c.left = b.left /\ c.loop = b.loop /\ c.slots = b.slots
      /\ c.pending = b.pending /\ c.holding = b.holding /\ c.delayed = b.delayed /\ c.ready = r
  BY <1>1, <1>3 DEF BusType
<1>8. \A i \in DOMAIN r : TaskOK(r[i], S)
  BY <1>2 DEF Sound, Tasked
<1>9. Sound(c, S)
  BY <1>6, <1>7, <1>8 DEF Sound, Routed, Tasked, Used, OneLate
<1>10. TaskOK(t, S)
  BY <1>2 DEF Sound, Tasked
<1>11. Moves(b, c, - Bit(t.kind \in FanOut), Bit(t.kind \in FanOut \cup {"immediate", "settled"}), 0)
  <2>. DEFINE K == FanOut \cup {"immediate", "settled"}
              x == Bit(t.kind \in FanOut)
              y == Bit(t.kind \in K)
              w == Bit(b.loop.at = "woken")
  <2>1. Run(c, "slot") = Run(b, "slot") /\ Run(c, "now") = Run(b, "now") /\ Run(c, "timer") = Run(b, "timer")
        /\ Asleep(c) = Asleep(b) 
    BY <1>7 DEF Run, Asleep
  <2>2. x \in Int /\ y \in Int
    BY DEF Bit
  <2>3. Number(b.ready, FanOut) = x + Number(c.ready, FanOut) /\ Number(b.ready, K) = y + Number(c.ready, K)
    BY <1>2, <1>7
  <2>4. /\ c.slots \in Int /\ c.pending \in Int /\ c.holding \in Int
        /\ Number(c.ready, FanOut) \in Nat /\ Number(c.ready, K) \in Nat
        /\ Number(b.ready, FanOut) \in Nat /\ Number(b.ready, K) \in Nat
        /\ Run(b, "slot") \in Nat /\ Run(b, "now") \in Nat /\ Run(b, "timer") \in Nat
        /\ Asleep(b) \in Nat /\ w \in Nat
    BY <1>1, <1>6, SumTypes DEF Via
  <2>5. /\ SlotSum(b) = b.slots + Number(b.ready, FanOut) + Run(b, "slot") + w
        /\ SlotSum(c) = c.slots + Number(c.ready, FanOut) + Run(c, "slot") + w
        /\ PendSum(b) = b.pending - Number(b.ready, K) - Run(b, "slot") - Run(b, "now")
        /\ PendSum(c) = c.pending - Number(c.ready, K) - Run(c, "slot") - Run(c, "now")
        /\ HoldSum(b) = b.holding - Asleep(b) - Run(b, "timer")
        /\ HoldSum(c) = c.holding - Asleep(c) - Run(c, "timer")
    BY <1>7 DEF SlotSum, PendSum, HoldSum
  <2>. HIDE DEF K, x, y, w
  <2>6. SlotSum(c) = SlotSum(b) + (- x) /\ PendSum(c) = PendSum(b) + y /\ HoldSum(c) = HoldSum(b) + 0
    <3>1. c.slots = b.slots /\ c.pending = b.pending /\ c.holding = b.holding
      BY <1>7
    <3>2. SlotSum(c) = SlotSum(b) + (- x)
      <4>1. SlotSum(c) = c.slots + Number(c.ready, FanOut) + Run(b, "slot") + w
        BY <2>1, <2>5
      <4>2. SlotSum(b) = c.slots + (x + Number(c.ready, FanOut)) + Run(b, "slot") + w
        BY <2>3, <2>5, <3>1
      <4>. DEFINE s == c.slots   f == Number(c.ready, FanOut)   u == Run(b, "slot")
                  o == SlotSum(c)   z == SlotSum(b)
      <4>3. o = s + f + u + w /\ z = s + (x + f) + u + w /\ s \in Int /\ f \in Nat /\ u \in Nat /\ w \in Nat
        BY <2>4, <4>1, <4>2
      <4>. HIDE DEF s, f, u, o, z
      <4>4. o = z + (- x)
        BY <2>2, <4>3
      <4>. QED BY <4>4 DEF o, z
    <3>3. PendSum(c) = PendSum(b) + y
      <4>1. PendSum(c) = c.pending - Number(c.ready, K) - Run(b, "slot") - Run(b, "now")
        BY <2>1, <2>5
      <4>2. PendSum(b) = c.pending - (y + Number(c.ready, K)) - Run(b, "slot") - Run(b, "now")
        BY <2>3, <2>5, <3>1
      <4>. DEFINE s == c.pending   f == Number(c.ready, K)   u == Run(b, "slot")   v == Run(b, "now")
                  o == PendSum(c)   z == PendSum(b)
      <4>3. o = s - f - u - v /\ z = s - (y + f) - u - v /\ s \in Int /\ f \in Nat /\ u \in Nat /\ v \in Nat
        BY <2>4, <4>1, <4>2
      <4>. HIDE DEF s, f, u, v, o, z
      <4>4. o = z + y
        BY <2>2, <4>3
      <4>. QED BY <4>4 DEF o, z
    <3>4. HoldSum(c) = HoldSum(b) + 0
      BY <2>1, <2>4, <2>5, <3>1
    <3>. QED BY <3>2, <3>3, <3>4
  <2>. QED BY <2>6 DEF Moves, K, x, y
<1>12. ASSUME Line(b) PROVE Line(c)
  <2>. DEFINE q == b.ready
  <2>1. \A i \in DOMAIN r : i + 1 \in DOMAIN q /\ r[i] = q[i + 1] /\ i \in Nat
    BY <1>2
  <2>. HIDE DEF q
  <2>2. \A i, j \in DOMAIN r :
           r[i].kind = "go" =>
               /\ b.loop.at \in {"queued", "woken"}
               /\ r[j].kind = "go" => i = j
               /\ b.loop.at = "queued" /\ r[j].kind \in Pipe => j < i
    <3>. SUFFICES ASSUME NEW i \in DOMAIN r, NEW j \in DOMAIN r, r[i].kind = "go"
                  PROVE  /\ b.loop.at \in {"queued", "woken"}
                         /\ r[j].kind = "go" => i = j
                         /\ b.loop.at = "queued" /\ r[j].kind \in Pipe => j < i
      OBVIOUS
    <3>1. /\ b.loop.at \in {"queued", "woken"}
          /\ q[j + 1].kind = "go" => i + 1 = j + 1
          /\ b.loop.at = "queued" /\ q[j + 1].kind \in Pipe => j + 1 < i + 1
      BY <1>12, <2>1 DEF Line, q
    <3>. QED BY <2>1, <3>1
  <2>3. \A i, j \in DOMAIN r : r[i].kind = "proxy" /\ r[j].kind \in Pipe => j <= i
    <3>. SUFFICES ASSUME NEW i \in DOMAIN r, NEW j \in DOMAIN r, r[i].kind = "proxy", r[j].kind \in Pipe
                  PROVE  j <= i
      OBVIOUS
    <3>1. j + 1 <= i + 1
      BY <1>12, <2>1 DEF Line, q
    <3>. QED BY <2>1, <3>1
  <2>4. /\ b.loop.todo # <<>> => \A i \in DOMAIN r : r[i].kind # "proxy"
        /\ \A i, j \in DOMAIN r : r[i].kind \in Pipe /\ r[j].kind \in Pipe => r[i].e = r[j].e
        /\ \A i \in DOMAIN r : \A j \in DOMAIN b.loop.todo : r[i].kind \in Pipe => r[i].e = b.loop.todo[j].e
    BY <1>12, <2>1 DEF Line, q
  <2>. QED BY <1>7, <1>12, <2>2, <2>3, <2>4 DEF Line
<1>13. ASSUME NEW s, s # t PROVE Pending(c, s) <=> Pending(b, s)
  <2>1. (\E i \in DOMAIN b.ready : b.ready[i] = s) => \E i \in DOMAIN r : r[i] = s
    BY <1>2, <1>5, <1>13
  <2>2. (\E i \in DOMAIN r : r[i] = s) => \E i \in DOMAIN b.ready : b.ready[i] = s
    BY <1>2
  <2>. QED BY <1>7, <2>1, <2>2 DEF Pending
<1>14. ASSUME NEW s, Pending(c, s) PROVE Pending(b, s)
  BY <1>2, <1>7, <1>14 DEF Pending
<1>. QED BY <1>2, <1>7, <1>9, <1>10, <1>11, <1>12, <1>13, <1>14 DEF c, t, r

\* The loop is next after the tasks that are ready: it has an event, or a slot.
LEMMA GoFacts ==
  ASSUME NEW b, NEW S, Sound(b, S), NEW from, NEW to,
         b.loop.at = from, (from = "waiting" /\ to = "queued") \/ (from = "blocked" /\ to = "woken")
  PROVE  LET c == Enqueue([b EXCEPT !.loop.at = to], Task("go", None, None))
         IN  /\ Sound(c, S) /\ Moves(b, c, Bit(to = "woken"), 0, 0)
             /\ c.keys = b.keys /\ c.cancelled = b.cancelled /\ c.routes = b.routes /\ c.running = b.running
             /\ c.fired = b.fired /\ c.timer = b.timer /\ c.delayed = b.delayed /\ c.left = b.left
             /\ c.pending = b.pending /\ c.slots = b.slots /\ c.loop.at = to
             /\ Line(b) => Line(c)
             /\ \A s : s.kind \in Pipe => (Pending(c, s) <=> Pending(b, s))
<1>. DEFINE g == Task("go", None, None)
            r == Append(b.ready, g)
            p == [b.loop EXCEPT !.at = to]
            c == Enqueue([b EXCEPT !.loop.at = to], g)
<1>1. b \in BusType /\ b.ready \in Seq(TaskType)
      /\ b.loop \in [at : {"waiting", "queued", "blocked", "woken"}, todo : Seq(TaskType)]
  BY TypeFacts DEF Sound, BusType
<1>2. g \in TaskType /\ g.kind = "go" /\ TaskOK(g, S)
  BY DEF Task, TaskType, Kinds, TaskOK, Pipe
<1>3. c = [b EXCEPT !.loop = p, !.ready = r]
  BY <1>1 DEF Enqueue, BusType
<1>4. p \in [at : {"waiting", "queued", "blocked", "woken"}, todo : Seq(TaskType)]
      /\ p.at = to /\ p.todo = b.loop.todo
  BY <1>1
<1>5. DOMAIN b.ready = 1..Len(b.ready) /\ Len(b.ready) \in Nat
  BY <1>1, LenProperties
<1>. HIDE DEF g
<1>6. /\ r \in Seq(TaskType) /\ DOMAIN r = 1..(Len(b.ready) + 1) /\ r[Len(b.ready) + 1] = g
      /\ \A i \in 1..Len(b.ready) : r[i] = b.ready[i]
      /\ \A K : Number(r, K) = Number(b.ready, K) + Bit(g.kind \in K)
  BY <1>1, <1>2, <1>5, NumberAppend, AppendProperties, LenProperties
<1>. HIDE DEF p, r, c
<1>7. c \in BusType
  BY <1>1, <1>3, <1>4, <1>6 DEF BusType
<1>8. /\ c.keys = b.keys /\ c.cancelled = b.cancelled /\ c.routes = b.routes /\ c.running = b.running
      /\ c.fired = b.fired /\ c.timer = b.timer /\ c.left = b.left /\ c.loop = p /\ c.slots = b.slots
      /\ c.pending = b.pending /\ c.holding = b.holding /\ c.delayed = b.delayed /\ c.ready = r
  BY <1>1, <1>3 DEF BusType
<1>9. \A i \in DOMAIN r : (i \in DOMAIN b.ready /\ r[i] = b.ready[i]) \/ (i = Len(b.ready) + 1 /\ r[i] = g)
  <2>. SUFFICES ASSUME NEW i \in DOMAIN r
                PROVE  (i \in DOMAIN b.ready /\ r[i] = b.ready[i]) \/ (i = Len(b.ready) + 1 /\ r[i] = g)
    OBVIOUS
  <2>1. i \in 1..Len(b.ready) \/ i = Len(b.ready) + 1
    BY <1>5, <1>6
  <2>2. CASE i \in 1..Len(b.ready)
    <3>1. r[i] = b.ready[i]
      BY <1>6, <2>2
    <3>. QED BY <1>5, <2>2, <3>1
  <2>3. CASE i = Len(b.ready) + 1
    BY <1>6, <2>3
  <2>. QED BY <2>1, <2>2, <2>3
<1>10. Tasked(c, S)
  BY <1>2, <1>4, <1>8, <1>9 DEF Sound, Tasked
<1>11. Sound(c, S)
  BY <1>7, <1>8, <1>10 DEF Sound, Routed, Used, OneLate
<1>12. \A i \in DOMAIN r : r[i].kind \in Pipe => i \in DOMAIN b.ready /\ r[i] = b.ready[i]
  BY <1>2, <1>9 DEF Pipe
<1>13. ASSUME Line(b) PROVE Line(c)
  <2>1. \A i \in DOMAIN b.ready : b.ready[i].kind # "go"
    BY <1>13 DEF Line
  <2>2. \A i \in DOMAIN r : r[i].kind = "go" => i = Len(b.ready) + 1
    BY <1>9, <2>1
  <2>3. \A i \in DOMAIN b.ready : i < Len(b.ready) + 1
    BY <1>5
  <2>4. "proxy" \in Pipe /\ to \in {"queued", "woken"} /\ (to = "queued" <=> from = "waiting")
    BY DEF Pipe
  <2>5. \A i, j \in DOMAIN r :
           r[i].kind = "go" =>
               /\ to \in {"queued", "woken"}
               /\ r[j].kind = "go" => i = j
               /\ to = "queued" /\ r[j].kind \in Pipe => j < i
    BY <1>12, <2>2, <2>3, <2>4
  <2>6. /\ to \in {"waiting", "queued"} <=> b.loop.todo = <<>>
        /\ b.slots >= 0
    BY <1>13 DEF Line
  <2>7. /\ \A i, j \in DOMAIN r : r[i].kind = "proxy" /\ r[j].kind \in Pipe => j <= i
        /\ \A i \in DOMAIN b.loop.todo : b.loop.todo[i].kind = "proxy" <=> i = Len(b.loop.todo)
        /\ b.loop.todo # <<>> => \A i \in DOMAIN r : r[i].kind # "proxy"
    BY <1>12, <1>13, <2>4 DEF Line
  <2>8. /\ \A i, j \in DOMAIN r : r[i].kind \in Pipe /\ r[j].kind \in Pipe => r[i].e = r[j].e
        /\ \A i, j \in DOMAIN b.loop.todo : b.loop.todo[i].e = b.loop.todo[j].e
        /\ \A i \in DOMAIN r : \A j \in DOMAIN b.loop.todo : r[i].kind \in Pipe => r[i].e = b.loop.todo[j].e
    BY <1>12, <1>13 DEF Line
  <2>. QED BY <1>4, <1>8, <2>4, <2>5, <2>6, <2>7, <2>8 DEF Line
<1>14. ASSUME NEW s, s.kind \in Pipe PROVE Pending(c, s) <=> Pending(b, s)
  <2>1. (\E i \in DOMAIN b.ready : b.ready[i] = s) => \E i \in DOMAIN r : r[i] = s
    BY <1>5, <1>6
  <2>2. (\E i \in DOMAIN r : r[i] = s) => \E i \in DOMAIN b.ready : b.ready[i] = s
    BY <1>12, <1>14
  <2>. QED BY <1>4, <1>8, <2>1, <2>2 DEF Pending
<1>15. Moves(b, c, Bit(to = "woken"), 0, 0)
  <2>. DEFINE K == FanOut \cup {"immediate", "settled"}
              x == Bit(to = "woken")
  <2>1. Run(c, "slot") = Run(b, "slot") /\ Run(c, "now") = Run(b, "now") /\ Run(c, "timer") = Run(b, "timer")
        /\ Asleep(c) = Asleep(b)
    BY <1>8 DEF Run, Asleep
  <2>2. x \in Int /\ Bit(c.loop.at = "woken") = x /\ Bit(b.loop.at = "woken") = 0
    BY <1>4, <1>8 DEF Bit
  <2>3. Bit(g.kind \in FanOut) = 0 /\ Bit(g.kind \in K) = 0
    BY <1>2 DEF Bit, FanOut
  <2>4. /\ b.slots \in Int /\ b.pending \in Int /\ b.holding \in Int
        /\ Number(b.ready, FanOut) \in Nat /\ Number(b.ready, K) \in Nat
        /\ Run(b, "slot") \in Nat /\ Run(b, "now") \in Nat /\ Run(b, "timer") \in Nat
        /\ Asleep(b) \in Nat
    BY <1>1, SumTypes DEF Via
  <2>5. Number(c.ready, FanOut) = Number(b.ready, FanOut) /\ Number(c.ready, K) = Number(b.ready, K)
    BY <1>6, <1>8, <2>3, <2>4
  <2>6. /\ SlotSum(b) = b.slots + Number(b.ready, FanOut) + Run(b, "slot") + Bit(b.loop.at = "woken")
        /\ SlotSum(c) = c.slots + Number(c.ready, FanOut) + Run(c, "slot") + Bit(c.loop.at = "woken")
        /\ PendSum(b) = b.pending - Number(b.ready, K) - Run(b, "slot") - Run(b, "now")
        /\ PendSum(c) = c.pending - Number(c.ready, K) - Run(c, "slot") - Run(c, "now")
        /\ HoldSum(b) = b.holding - Asleep(b) - Run(b, "timer")
        /\ HoldSum(c) = c.holding - Asleep(c) - Run(c, "timer")
    BY DEF SlotSum, PendSum, HoldSum
  <2>. HIDE DEF K, x
  <2>7. SlotSum(c) = SlotSum(b) + x /\ PendSum(c) = PendSum(b) + 0 /\ HoldSum(c) = HoldSum(b) + 0
    BY <1>8, <2>1, <2>2, <2>4, <2>5, <2>6
  <2>. QED BY <2>7 DEF Moves, x
<1>. QED BY <1>4, <1>8, <1>11, <1>13, <1>14, <1>15 DEF c, g

----------------------------------------------------------------------------
(* An event's tasks are spawned *)

Dropped(t) == t.kind = "main" /\ t.l \in app.dropping

\* The first n find a slot; the loop keeps the others from the first that is not dropped.
Spawns(b, c, q, n) ==
    /\ n \in 0..Len(q) /\ n <= b.slots
    /\ c.ready = b.ready \o SubSeq(q, 1, n) /\ c.slots = b.slots - n /\ c.pending = b.pending + n
    /\ c.loop.todo \in Seq(TaskType)
    /\ \/ c.loop.at = "waiting" /\ c.loop.todo = <<>> /\ n = Len(q)
       \/ c.loop.at = "blocked" /\ c.loop.todo # <<>> /\ n < Len(q) /\ n = b.slots
    /\ \A i \in DOMAIN c.loop.todo : /\ \E j \in DOMAIN q : c.loop.todo[i] = q[j]
                                     /\ c.loop.todo[i].kind = "proxy" <=> i = Len(c.loop.todo)
    /\ \A j \in DOMAIN q : j <= n \/ Dropped(q[j]) \/ \E i \in DOMAIN c.loop.todo : c.loop.todo[i] = q[j]

\* The tasks about an event, StateProxy's last.
Batch(q, S) ==
    /\ q \in Seq(TaskType)
    /\ \A i \in DOMAIN q : /\ TaskOK(q[i], S) /\ q[i].kind \in Pipe
                           /\ q[i].kind = "proxy" <=> i = Len(q)

LEMMA DispatchedFields ==
  ASSUME NEW b \in BusType, b.slots >= 0, NEW q, NEW S, Batch(q, S)
  PROVE  LET c == Dispatched(b, q)
         IN  /\ c \in BusType /\ \E n : Spawns(b, c, q, n)
             /\ c.keys = b.keys /\ c.cancelled = b.cancelled /\ c.routes = b.routes /\ c.running = b.running
             /\ c.fired = b.fired /\ c.timer = b.timer /\ c.delayed = b.delayed /\ c.left = b.left
             /\ c.holding = b.holding
<1>. DEFINE L == Len(q)
            n == IF b.slots < L THEN b.slots ELSE L
            late == {i \in n+1..L : ~Dropped(q[i])}
            rest == {j \in 1..L : \E i \in late : i <= j}
            todo == Kept(q, rest)
            p == [at |-> IF late = {} THEN "waiting" ELSE "blocked", todo |-> todo]
            r == b.ready \o SubSeq(q, 1, n)
            c == Dispatched(b, q)
<1>1. q \in Seq(TaskType) /\ DOMAIN q = 1..L /\ L \in Nat /\ b.slots \in Nat /\ b.pending \in Int
      /\ b.ready \in Seq(TaskType)
  BY TypeFacts, LenProperties DEF Batch
<1>2. c = [b EXCEPT !.slots = @ - n, !.pending = @ + n, !.ready = r, !.loop = p]
  BY DEF Dispatched, Dropped
<1>3. n \in 0..L /\ n \in Nat /\ n <= b.slots /\ (n < L => n = b.slots)
  BY <1>1
<1>. HIDE DEF n, L
<1>4. \A j : j \in rest <=> j \in 1..L /\ \E i \in late : i <= j
  OBVIOUS
<1>5. \A i : i \in late <=> i \in n+1..L /\ ~Dropped(q[i])
  OBVIOUS
<1>. HIDE DEF late, rest
<1>6. \A i \in late : i \in 1..L /\ i > n /\ i <= i /\ i \in rest
  <2>1. \A i \in n+1..L : i \in 1..L /\ i > n /\ i <= i
    BY <1>1, <1>3
  <2>. QED BY <1>4, <1>5, <2>1
<1>7. rest \subseteq DOMAIN q
  BY <1>1, <1>4
<1>8. /\ todo \in Seq(TaskType) /\ DOMAIN todo = 1..Cardinality(rest) /\ Cardinality(rest) \in Nat
      /\ \A k \in DOMAIN todo : Nth(rest, k) \in rest /\ todo[k] = q[Nth(rest, k)]
      /\ \A k, m \in DOMAIN todo : k < m => Nth(rest, k) < Nth(rest, m)
      /\ \A i \in rest : \E k \in DOMAIN todo : Nth(rest, k) = i
  BY <1>1, <1>7, KeptFacts
<1>9. DOMAIN todo = 1..Len(todo) /\ Len(todo) \in Nat
  BY <1>8, LenProperties
<1>10. SubSeq(q, 1, n) \in Seq(TaskType)
  <2>1. \A i \in 1..n : q[i] \in TaskType
    BY <1>1, <1>3, ElementOfSeq
  <2>. QED BY <1>1, <1>3, <2>1, SubSeqProperties
<1>11. r \in Seq(TaskType)
  BY <1>1, <1>10, ConcatProperties
<1>12. p \in [at : {"waiting", "queued", "blocked", "woken"}, todo : Seq(TaskType)] /\ p.todo = todo
       /\ p.at = IF late = {} THEN "waiting" ELSE "blocked"
  BY <1>8
<1>. DEFINE sl == b.slots - n
            pe == b.pending + n
<1>13. sl \in Int /\ pe \in Int /\ sl = b.slots - n /\ pe = b.pending + n
  BY <1>1, <1>3
<1>14. c = [b EXCEPT !.slots = sl, !.pending = pe, !.ready = r, !.loop = p]
  BY <1>2
<1>15. r = b.ready \o SubSeq(q, 1, n)
  OBVIOUS
<1>. HIDE DEF todo, p, r, sl, pe, c
<1>16. c \in BusType
  BY <1>11, <1>12, <1>13, <1>14 DEF BusType
<1>17. /\ c.keys = b.keys /\ c.cancelled = b.cancelled /\ c.routes = b.routes /\ c.running = b.running
       /\ c.fired = b.fired /\ c.timer = b.timer /\ c.left = b.left /\ c.loop = p /\ c.slots = sl
       /\ c.pending = pe /\ c.holding = b.holding /\ c.delayed = b.delayed /\ c.ready = r
  BY <1>14 DEF BusType
<1>18. L \in 1..L /\ n < L => L \in late
  <2>. SUFFICES ASSUME L \in 1..L, n < L PROVE L \in late
    OBVIOUS
  <2>1. L \in n+1..L
    BY <1>1, <1>3
  <2>2. q[L].kind = "proxy"
    BY <1>1 DEF Batch, L
  <2>. QED BY <1>5, <2>1, <2>2 DEF Dropped
<1>19. CASE late = {}
  <2>1. rest = {}
    BY <1>4, <1>19
  <2>2. Cardinality(rest) = 0
    BY <2>1, FS_EmptySet
  <2>3. DOMAIN todo = {} /\ Len(todo) = 0
    BY <1>8, <1>9, <2>2
  <2>4. todo = <<>>
    BY <1>8, <2>3, EmptySeq
  <2>5. ~(n < L)
    BY <1>1, <1>3, <1>18, <1>19
  <2>6. n = L
    BY <1>1, <1>3, <2>5
  <2>7. \A j \in DOMAIN q : j <= n
    BY <1>1, <2>6
  <2>. HIDE DEF L
  <2>8. Spawns(b, c, q, n)
    <3>1. n \in 0..Len(q) /\ n = Len(q)
      BY <1>3, <2>6 DEF L
    <3>. QED BY <1>3, <1>8, <1>12, <1>13, <1>15, <1>17, <1>19, <2>3, <2>4, <2>7, <3>1 DEF Spawns
  <2>. QED BY <1>16, <1>17, <2>8 DEF c
<1>20. CASE late # {}
  <2>1. PICK i0 \in late : TRUE
    BY <1>20
  <2>2. n < L /\ L \in 1..L /\ i0 <= L
    BY <1>1, <1>3, <1>6, <2>1
  <2>3. L \in rest
    BY <1>4, <2>1, <2>2
  <2>4. PICK k \in DOMAIN todo : Nth(rest, k) = L
    BY <1>8, <2>3
  <2>5. \A m \in DOMAIN todo : Nth(rest, m) \in 1..L
    BY <1>4, <1>8
  <2>6. k = Len(todo)
    <3>1. Len(todo) \in DOMAIN todo /\ k <= Len(todo)
      BY <1>9, <2>4
    <3>2. ~(k < Len(todo))
      <4>1. ASSUME k < Len(todo) PROVE FALSE
        <5>1. L < Nth(rest, Len(todo)) /\ Nth(rest, Len(todo)) \in 1..L
          BY <1>8, <2>4, <2>5, <3>1, <4>1
        <5>. QED BY <1>1, <5>1
      <4>. QED BY <4>1
    <3>. QED BY <1>9, <3>1, <3>2
  <2>7. \A m \in DOMAIN todo : todo[m].kind = "proxy" <=> m = Len(todo)
    <3>. SUFFICES ASSUME NEW m \in DOMAIN todo PROVE todo[m].kind = "proxy" <=> m = Len(todo)
      OBVIOUS
    <3>1. todo[m] = q[Nth(rest, m)] /\ Nth(rest, m) \in DOMAIN q
      BY <1>1, <1>8, <2>5
    <3>2. todo[m].kind = "proxy" <=> Nth(rest, m) = L
      BY <3>1 DEF Batch, L
    <3>3. m # k => Nth(rest, m) # L
      <4>1. ASSUME m < k PROVE Nth(rest, m) # L
        <5>1. Nth(rest, m) < L
          BY <1>8, <2>4, <4>1
        <5>. QED BY <1>1, <5>1
      <4>2. ~(k < m)
        BY <1>9, <2>6
      <4>3. m # k => m < k
        BY <1>9, <2>6
      <4>. QED BY <4>1, <4>3
    <3>. QED BY <2>4, <2>6, <3>2, <3>3
  <2>8. \A m \in DOMAIN todo : \E j \in DOMAIN q : todo[m] = q[j]
    BY <1>1, <1>8, <2>5
  <2>9. ASSUME NEW j \in DOMAIN q PROVE j <= n \/ Dropped(q[j]) \/ \E i \in DOMAIN todo : todo[i] = q[j]
    <3>1. ASSUME ~(j <= n), ~Dropped(q[j]) PROVE \E i \in DOMAIN todo : todo[i] = q[j]
      <4>1. j \in n+1..L
        BY <1>1, <1>3, <3>1
      <4>2. j \in rest
        BY <1>5, <1>6, <3>1, <4>1
      <4>. QED BY <1>8, <4>2
    <3>. QED BY <3>1
  <2>10. todo # <<>>
    BY <1>9, <2>4, EmptySeq
  <2>. HIDE DEF L
  <2>11. Spawns(b, c, q, n)
    <3>1. n \in 0..Len(q) /\ n < Len(q) /\ n = b.slots
      BY <1>3, <2>2 DEF L
    <3>2. c.ready = b.ready \o SubSeq(q, 1, n) /\ c.slots = b.slots - n /\ c.pending = b.pending + n
      BY <1>13, <1>15, <1>17
    <3>3. c.loop.todo = todo /\ c.loop.at = "blocked"
      BY <1>12, <1>17, <1>20
    <3>4. \A i \in DOMAIN c.loop.todo : /\ \E j \in DOMAIN q : c.loop.todo[i] = q[j]
                                        /\ c.loop.todo[i].kind = "proxy" <=> i = Len(c.loop.todo)
      BY <2>7, <2>8, <3>3
    <3>5. \A j \in DOMAIN q : j <= n \/ Dropped(q[j]) \/ \E i \in DOMAIN c.loop.todo : c.loop.todo[i] = q[j]
      BY <2>9, <3>3
    <3>6. c.loop.todo \in Seq(TaskType) /\ c.loop.todo # <<>>
      BY <1>8, <2>10, <3>3
    <3>. QED BY ONLY <1>3, <3>1, <3>2, <3>3, <3>4, <3>5, <3>6 DEF Spawns
  <2>. QED BY <1>16, <1>17, <2>11 DEF c
<1>. QED BY <1>19, <1>20

\* Beside the tasks, the slots and the pending count, c is b.
Beside(b, c) ==
    /\ c.keys = b.keys /\ c.cancelled = b.cancelled /\ c.routes = b.routes /\ c.running = b.running
    /\ c.fired = b.fired /\ c.timer = b.timer /\ c.delayed = b.delayed /\ c.left = b.left
    /\ c.holding = b.holding

\* What is ready after the batch: what was, and the first n of it.
Laid(b, c, q, n) ==
    /\ n \in Nat /\ c.ready \in Seq(TaskType) /\ SubSeq(q, 1, n) \in Seq(TaskType)
    /\ DOMAIN b.ready = 1..Len(b.ready) /\ Len(b.ready) \in Nat
    /\ DOMAIN q = 1..Len(q) /\ Len(q) \in Nat
    /\ DOMAIN c.ready = 1..(Len(b.ready) + n)
    /\ \A i \in DOMAIN c.ready :
          \/ i \in DOMAIN b.ready /\ c.ready[i] = b.ready[i]
          \/ i > Len(b.ready) /\ i - Len(b.ready) \in 1..n /\ i - Len(b.ready) \in DOMAIN q
                /\ c.ready[i] = q[i - Len(b.ready)]
    /\ \A i \in DOMAIN b.ready : i \in DOMAIN c.ready /\ c.ready[i] = b.ready[i]
    /\ \A j \in 1..n : Len(b.ready) + j \in DOMAIN c.ready /\ c.ready[Len(b.ready) + j] = q[j]

LEMMA SpawnsReady ==
  ASSUME NEW b \in BusType, NEW c, NEW S, NEW q, Batch(q, S), NEW n, Spawns(b, c, q, n)
  PROVE  Laid(b, c, q, n)
<1>. DEFINE r == b.ready
            x == SubSeq(q, 1, n)
            m == Len(r)
<1>1. r \in Seq(TaskType) /\ q \in Seq(TaskType) /\ n \in 0..Len(q) /\ c.ready = r \o x
  BY TypeFacts DEF Batch, Spawns
<1>2. DOMAIN r = 1..m /\ m \in Nat /\ DOMAIN q = 1..Len(q) /\ Len(q) \in Nat /\ n \in Nat
  BY <1>1, LenProperties
<1>3. \A i \in 1..n : q[i] \in TaskType
  BY <1>1, <1>2, ElementOfSeq
<1>4. x \in Seq(TaskType) /\ Len(x) = n /\ \A i \in 1..n : x[i] = q[i]
  BY <1>1, <1>2, <1>3, SubSeqProperties
<1>. HIDE DEF x, r
<1>a. m = Len(r)
  OBVIOUS
<1>. HIDE DEF m
<1>5. /\ r \o x \in Seq(TaskType) /\ Len(r \o x) = m + n
      /\ \A i \in 1..(m + n) : (r \o x)[i] = IF i <= m THEN r[i] ELSE x[i - m]
  BY <1>1, <1>4, <1>a, ConcatProperties
<1>6. DOMAIN c.ready = 1..(m + n) /\ c.ready \in Seq(TaskType)
  BY <1>1, <1>5, LenProperties
<1>7. \A i \in 1..(m + n) : c.ready[i] = IF i <= m THEN r[i] ELSE x[i - m]
  BY <1>1, <1>5
<1>8. ASSUME NEW i \in DOMAIN c.ready
      PROVE  \/ i \in DOMAIN r /\ c.ready[i] = r[i]
             \/ i > m /\ i - m \in 1..n /\ i - m \in DOMAIN q /\ c.ready[i] = q[i - m]
  <2>1. CASE i <= m
    BY <1>2, <1>6, <1>7, <1>8, <2>1
  <2>2. CASE ~(i <= m)
    <3>1. i > m /\ i - m \in 1..n /\ i - m \in DOMAIN q /\ i \in 1..(m + n)
      BY <1>1, <1>2, <1>6, <1>8, <2>2
    <3>2. c.ready[i] = x[i - m]
      BY <1>7, <2>2, <3>1
    <3>. QED BY <1>4, <3>1, <3>2
  <2>. QED BY <2>1, <2>2
<1>9. ASSUME NEW i \in DOMAIN r PROVE i \in DOMAIN c.ready /\ c.ready[i] = r[i]
  <2>1. i \in 1..(m + n) /\ i <= m
    BY <1>2, <1>9
  <2>. QED BY <1>6, <1>7, <2>1
<1>10. ASSUME NEW j \in 1..n PROVE m + j \in DOMAIN c.ready /\ c.ready[m + j] = q[j]
  <2>1. m + j \in 1..(m + n) /\ ~(m + j <= m) /\ (m + j) - m = j
    BY <1>2, <1>10
  <2>2. c.ready[m + j] = x[j]
    BY <1>7, <2>1
  <2>. QED BY <1>4, <1>6, <2>1, <2>2
<1>. QED BY <1>1, <1>2, <1>4, <1>6, <1>8, <1>9, <1>10 DEF m, r, x, Laid

LEMMA SpawnedFacts ==
  ASSUME NEW b, NEW c \in BusType, NEW S, Sound(b, S), NEW q, Batch(q, S), NEW n, Spawns(b, c, q, n),
         Beside(b, c)
  PROVE  /\ Sound(c, S) /\ SlotSum(c) = SlotSum(b) - Bit(b.loop.at = "woken")
         /\ PendSum(c) = PendSum(b) /\ HoldSum(c) = HoldSum(b)
<1>. DEFINE x == SubSeq(q, 1, n)
<1>0. b \in BusType
  BY DEF Sound
<1>1. /\ n \in Nat /\ x \in Seq(TaskType) /\ n <= Len(q) /\ Len(q) \in Nat /\ DOMAIN q = 1..Len(q)
      /\ \A i \in DOMAIN c.ready :
               \/ i \in DOMAIN b.ready /\ c.ready[i] = b.ready[i]
               \/ i > Len(b.ready) /\ i - Len(b.ready) \in 1..n /\ i - Len(b.ready) \in DOMAIN q
                     /\ c.ready[i] = q[i - Len(b.ready)]
      /\ c.ready = b.ready \o x /\ b.ready \in Seq(TaskType) /\ q \in Seq(TaskType)
  <2>1. b.ready \in Seq(TaskType) /\ q \in Seq(TaskType) /\ c.ready = b.ready \o x /\ n \in 0..Len(q)
    BY <1>0, TypeFacts DEF Spawns, Batch
  <2>2. n \in Nat /\ n <= Len(q) /\ Len(q) \in Nat /\ DOMAIN q = 1..Len(q)
    BY <2>1, LenProperties
  <2>3. Laid(b, c, q, n)
    BY <1>0, SpawnsReady
  <2>. QED BY <2>1, <2>2, <2>3 DEF Laid
<1>2. Tasked(c, S)
  <2>1. \A i \in DOMAIN c.ready : TaskOK(c.ready[i], S)
    BY <1>1 DEF Sound, Tasked, Batch
  <2>2. \A i \in DOMAIN c.loop.todo : TaskOK(c.loop.todo[i], S) /\ c.loop.todo[i].kind \in Pipe
    BY DEF Spawns, Batch
  <2>. QED BY <2>1, <2>2 DEF Tasked
<1>3. Sound(c, S)
  BY <1>2 DEF Beside, Sound, Routed, Used, OneLate
<1>4. Len(x) = n /\ \A i \in DOMAIN x : x[i].kind \in Pipe
  <2>1. \A i \in 1..n : q[i] \in TaskType
    BY <1>1, ElementOfSeq
  <2>2. Len(x) = n /\ \A i \in 1..n : x[i] = q[i]
    BY <1>1, <2>1, SubSeqProperties
  <2>3. DOMAIN x = 1..n
    BY <1>1, <2>2, LenProperties
  <2>. QED BY <1>1, <2>2, <2>3 DEF Batch
<1>. DEFINE K == FanOut \cup {"immediate", "settled"}
<1>5. Pipe \subseteq FanOut /\ Pipe \subseteq K
  BY DEF Pipe, FanOut
<1>6. Number(x, FanOut) = n /\ Number(x, K) = n
  <2>1. Number(x, FanOut) = Len(x)
    BY <1>1, <1>4, <1>5, NumberAll
  <2>2. Number(x, K) = Len(x)
    BY <1>1, <1>4, <1>5, NumberAll
  <2>. QED BY <1>4, <2>1, <2>2
<1>7. Number(c.ready, FanOut) = Number(b.ready, FanOut) + n /\ Number(c.ready, K) = Number(b.ready, K) + n
  <2>1. \A N : Number(b.ready \o x, N) = Number(b.ready, N) + Number(x, N)
    BY <1>1, NumberConcat
  <2>. HIDE DEF x, K
  <2>. QED BY <1>1, <1>6, <2>1
<1>8. Run(c, "slot") = Run(b, "slot") /\ Run(c, "now") = Run(b, "now") /\ Run(c, "timer") = Run(b, "timer")
      /\ Asleep(c) = Asleep(b) /\ c.holding = b.holding
  BY DEF Beside, Run, Asleep
<1>9. c.slots = b.slots - n /\ c.pending = b.pending + n /\ Bit(c.loop.at = "woken") = 0
  BY DEF Spawns, Bit
<1>10. /\ b.slots \in Int /\ b.pending \in Int /\ b.holding \in Int
       /\ Number(b.ready, FanOut) \in Nat /\ Number(b.ready, K) \in Nat
       /\ Run(b, "slot") \in Nat /\ Run(b, "now") \in Nat /\ Run(b, "timer") \in Nat
       /\ Asleep(b) \in Nat /\ Bit(b.loop.at = "woken") \in Nat
  BY <1>0, SumTypes DEF Via
<1>11. /\ SlotSum(b) = b.slots + Number(b.ready, FanOut) + Run(b, "slot") + Bit(b.loop.at = "woken")
       /\ SlotSum(c) = c.slots + Number(c.ready, FanOut) + Run(c, "slot") + Bit(c.loop.at = "woken")
       /\ PendSum(b) = b.pending - Number(b.ready, K) - Run(b, "slot") - Run(b, "now")
       /\ PendSum(c) = c.pending - Number(c.ready, K) - Run(c, "slot") - Run(c, "now")
       /\ HoldSum(b) = b.holding - Asleep(b) - Run(b, "timer")
       /\ HoldSum(c) = c.holding - Asleep(c) - Run(c, "timer")
  BY DEF SlotSum, PendSum, HoldSum
<1>. HIDE DEF x, K
<1>12. SlotSum(c) = SlotSum(b) - Bit(b.loop.at = "woken")
  <2>1. SlotSum(c) = (b.slots - n) + (Number(b.ready, FanOut) + n) + Run(b, "slot") + 0
    BY <1>7, <1>8, <1>9, <1>11
  <2>. QED BY <1>1, <1>10, <1>11, <2>1
<1>13. PendSum(c) = PendSum(b)
  <2>1. PendSum(c) = (b.pending + n) - (Number(b.ready, K) + n) - Run(b, "slot") - Run(b, "now")
    BY <1>7, <1>8, <1>9, <1>11
  <2>. QED BY <1>1, <1>10, <1>11, <2>1
<1>. QED BY <1>3, <1>8, <1>11, <1>12, <1>13

\* The batch can join the line: it is about the event of the tasks that are ready.
Joins(b, q) ==
    /\ \A i \in DOMAIN b.ready : b.ready[i].kind # "go" /\ (q # <<>> => b.ready[i].kind # "proxy")
    /\ \A i, j \in DOMAIN b.ready : b.ready[i].kind = "proxy" /\ b.ready[j].kind \in Pipe => j <= i
    /\ \A i, j \in DOMAIN b.ready :
          b.ready[i].kind \in Pipe /\ b.ready[j].kind \in Pipe => b.ready[i].e = b.ready[j].e
    /\ \A i, j \in DOMAIN q : q[i].e = q[j].e
    /\ \A i \in DOMAIN b.ready : \A j \in DOMAIN q : b.ready[i].kind \in Pipe => b.ready[i].e = q[j].e

LEMMA SpawnedLine ==
  ASSUME NEW b \in BusType, NEW c, NEW S, NEW q, Batch(q, S), NEW n, Spawns(b, c, q, n), Joins(b, q)
  PROVE  Line(c)
<1>. DEFINE m == Len(b.ready)
            r == c.ready
<1>0. Laid(b, c, q, n)
  BY SpawnsReady
<1>1. /\ n \in Nat /\ m \in Nat /\ DOMAIN b.ready = 1..m /\ DOMAIN q = 1..Len(q) /\ Len(q) \in Nat
      /\ DOMAIN r = 1..(m + n)
      /\ \A i \in DOMAIN r : \/ i \in DOMAIN b.ready /\ r[i] = b.ready[i]
                             \/ i > m /\ i - m \in 1..n /\ i - m \in DOMAIN q /\ r[i] = q[i - m]
  BY <1>0 DEF Laid
<1>. HIDE DEF m, r
<1>2. n <= Len(q) /\ b.slots \in Int /\ n <= b.slots
  BY TypeFacts DEF Spawns
<1>3. \A i \in DOMAIN q : q[i].kind \in Pipe /\ (q[i].kind = "proxy" <=> i = Len(q))
  BY DEF Batch
<1>4. \A i \in DOMAIN b.ready : b.ready[i].kind # "go" /\ (q # <<>> => b.ready[i].kind # "proxy")
  BY DEF Joins
<1>5. "go" \notin Pipe /\ "proxy" \in Pipe
  BY DEF Pipe
<1>6. \A i \in DOMAIN r : r[i].kind # "go"
  BY <1>1, <1>3, <1>4, <1>5
<1>7. (c.loop.at \in {"waiting", "queued"} <=> c.loop.todo = <<>>) /\ (c.loop.at = "blocked" => c.slots = 0)
  <2>1. CASE c.loop.at = "waiting"
    BY <2>1 DEF Spawns
  <2>2. CASE c.loop.at # "waiting"
    <3>1. c.loop.at = "blocked" /\ c.loop.todo # <<>> /\ n = b.slots /\ c.slots = b.slots - n
      BY <2>2 DEF Spawns
    <3>. QED BY <1>2, <3>1
  <2>. QED BY <2>1, <2>2
<1>8. c.slots >= 0
  <2>1. c.slots = b.slots - n
    BY DEF Spawns
  <2>. QED BY <1>1, <1>2, <2>1
<1>9. ASSUME NEW i \in DOMAIN r, NEW j \in DOMAIN r, r[i].kind = "proxy", r[j].kind \in Pipe
      PROVE  j <= i
  <2>1. CASE i \in DOMAIN b.ready /\ r[i] = b.ready[i]
    <3>1. q = <<>>
      BY <1>4, <1>9, <2>1
    <3>2. DOMAIN q = {}
      BY <3>1, EmptySeq
    <3>3. j \in DOMAIN b.ready /\ r[j] = b.ready[j]
      BY <1>1, <3>2
    <3>. QED BY <1>9, <2>1, <3>3 DEF Joins
  <2>2. CASE i > m /\ i - m \in 1..n /\ i - m \in DOMAIN q /\ r[i] = q[i - m]
    <3>1. i - m = Len(q)
      BY <1>3, <1>9, <2>2
    <3>2. m + n <= i
      BY <1>1, <1>2, <3>1
    <3>. QED BY <1>1, <3>2
  <2>. QED BY <1>1, <2>1, <2>2
<1>10. \A i \in DOMAIN c.loop.todo : c.loop.todo[i].kind = "proxy" <=> i = Len(c.loop.todo)
  BY DEF Spawns
<1>11. ASSUME c.loop.todo # <<>>, NEW i \in DOMAIN r PROVE r[i].kind # "proxy"
  <2>1. n < Len(q)
    BY <1>11 DEF Spawns
  <2>2. q # <<>>
    <3>1. Len(q) # 0
      BY <1>1, <2>1
    <3>. QED BY <3>1, EmptySeq
  <2>3. CASE i \in DOMAIN b.ready /\ r[i] = b.ready[i]
    BY <1>4, <2>2, <2>3
  <2>4. CASE i > m /\ i - m \in 1..n /\ i - m \in DOMAIN q /\ r[i] = q[i - m]
    <3>1. i - m # Len(q)
      BY <1>1, <2>1, <2>4
    <3>. QED BY <1>3, <2>4, <3>1
  <2>. QED BY <1>1, <2>3, <2>4
<1>12. ASSUME NEW i \in DOMAIN r, NEW j \in DOMAIN r, r[i].kind \in Pipe, r[j].kind \in Pipe
       PROVE  r[i].e = r[j].e
  <2>1. \A k \in DOMAIN r : (k \in DOMAIN b.ready /\ r[k] = b.ready[k]) \/ \E x \in DOMAIN q : r[k] = q[x]
    BY <1>1
  <2>2. CASE i \in DOMAIN b.ready /\ r[i] = b.ready[i]
    BY <1>12, <2>1, <2>2 DEF Joins
  <2>3. CASE \E x \in DOMAIN q : r[i] = q[x]
    BY <1>12, <2>1, <2>3 DEF Joins
  <2>. QED BY <2>1, <2>2, <2>3
<1>13. \A i \in DOMAIN c.loop.todo : \E j \in DOMAIN q : c.loop.todo[i] = q[j]
  BY DEF Spawns
<1>14. \A i, j \in DOMAIN c.loop.todo : c.loop.todo[i].e = c.loop.todo[j].e
  BY <1>13 DEF Joins
<1>15. ASSUME NEW i \in DOMAIN r, NEW j \in DOMAIN c.loop.todo, r[i].kind \in Pipe
       PROVE  r[i].e = c.loop.todo[j].e
  <2>1. PICK k \in DOMAIN q : c.loop.todo[j] = q[k]
    BY <1>13
  <2>2. CASE i \in DOMAIN b.ready /\ r[i] = b.ready[i]
    BY <1>15, <2>1, <2>2 DEF Joins
  <2>3. CASE i > m /\ i - m \in 1..n /\ i - m \in DOMAIN q /\ r[i] = q[i - m]
    BY <2>1, <2>3 DEF Joins
  <2>. QED BY <1>1, <2>2, <2>3
<1>. QED BY <1>6, <1>7, <1>8, <1>9, <1>10, <1>11, <1>12, <1>14, <1>15 DEF Line, r

\* Under way is what was and the batch, but for tasks that are dropped.
LEMMA SpawnedPending ==
  ASSUME NEW b \in BusType, NEW c, NEW S, NEW q, Batch(q, S), NEW n, Spawns(b, c, q, n), NEW t
  PROVE  /\ Pending(c, t) => (\E i \in DOMAIN b.ready : b.ready[i] = t) \/ (\E j \in DOMAIN q : q[j] = t)
         /\ (\E i \in DOMAIN b.ready : b.ready[i] = t) => Pending(c, t)
         /\ ~Dropped(t) /\ (\E j \in DOMAIN q : q[j] = t) => Pending(c, t)
<1>. DEFINE m == Len(b.ready)
<1>1. /\ \A i \in DOMAIN c.ready :
             \/ i \in DOMAIN b.ready /\ c.ready[i] = b.ready[i]
             \/ i > m /\ i - m \in 1..n /\ i - m \in DOMAIN q /\ c.ready[i] = q[i - m]
      /\ \A i \in DOMAIN b.ready : i \in DOMAIN c.ready /\ c.ready[i] = b.ready[i]
      /\ \A j \in 1..n : m + j \in DOMAIN c.ready /\ c.ready[m + j] = q[j]
      /\ DOMAIN q = 1..Len(q) /\ Len(q) \in Nat /\ n \in Nat
  <2>1. Laid(b, c, q, n)
    BY SpawnsReady
  <2>. QED BY <2>1 DEF Laid
<1>. HIDE DEF m
<1>2. ASSUME Pending(c, t)
      PROVE  (\E i \in DOMAIN b.ready : b.ready[i] = t) \/ (\E j \in DOMAIN q : q[j] = t)
  <2>1. CASE \E i \in DOMAIN c.ready : c.ready[i] = t
    BY <1>1, <2>1
  <2>2. CASE \E i \in DOMAIN c.loop.todo : c.loop.todo[i] = t
    BY <2>2 DEF Spawns
  <2>. QED BY <1>2, <2>1, <2>2 DEF Pending
<1>3. (\E i \in DOMAIN b.ready : b.ready[i] = t) => Pending(c, t)
  BY <1>1 DEF Pending
<1>4. ASSUME ~Dropped(t), NEW j \in DOMAIN q, q[j] = t PROVE Pending(c, t)
  <2>1. CASE j <= n
    <3>1. j \in 1..n
      BY <1>1, <1>4, <2>1
    <3>. QED BY <1>1, <1>4, <3>1 DEF Pending
  <2>2. CASE ~(j <= n)
    <3>1. \E i \in DOMAIN c.loop.todo : c.loop.todo[i] = q[j]
      BY <1>4, <2>2 DEF Spawns
    <3>. QED BY <1>4, <3>1 DEF Pending
  <2>. QED BY <2>1, <2>2
<1>. QED BY <1>2, <1>3, <1>4

LEMMA TargetsFacts ==
  ASSUME NEW b, NEW S, Sound(b, S), NEW e \in Changes
  PROVE  LET q == Targets(b, e)
         IN  /\ Batch(q, S) /\ q # <<>> /\ \A i \in DOMAIN q : q[i].e = e
             /\ \A m : On(b.routes, "cancel", m) => \E i \in DOMAIN q : q[i] = Task("cancel", m, e)
             /\ \A m : On(b.routes, "main", m) /\ Matches(m, e) => \E i \in DOMAIN q : q[i] = Task("main", m, e)
<1>. DEFINE rt == b.routes
            hit == {i \in DOMAIN rt : rt[i].kind = "cancel" \/ Matches(rt[i].l, e)}
            met == Kept(rt, hit)
            p == Task("proxy", None, e)
            x == [i \in DOMAIN met |-> Task(met[i].kind, met[i].l, e)]
            q == Append(x, p)
<1>1. rt \in Seq(RouteType) /\ \A i \in DOMAIN rt : rt[i] \in RouteType
  <2>1. rt \in Seq(RouteType)
    BY TypeFacts DEF Sound
  <2>. QED BY <2>1, ElementOfSeq, LenProperties
<1>2. hit \subseteq DOMAIN rt /\ \A i : i \in hit <=> i \in DOMAIN rt /\ (rt[i].kind = "cancel" \/ Matches(rt[i].l, e))
  OBVIOUS
<1>3. Targets(b, e) = q
  BY DEF Targets
<1>. HIDE DEF hit, rt
<1>4. /\ met \in Seq(RouteType) /\ DOMAIN met = 1..Cardinality(hit) /\ Cardinality(hit) \in Nat
      /\ \A k \in DOMAIN met : Nth(hit, k) \in hit /\ met[k] = rt[Nth(hit, k)]
      /\ \A i \in hit : \E k \in DOMAIN met : Nth(hit, k) = i
  BY <1>1, <1>2, KeptFacts
<1>. HIDE DEF met
<1>5. ASSUME NEW k \in DOMAIN met
      PROVE  /\ met[k] \in RouteType /\ met[k].l \in S
             /\ met[k].kind = "main" => Matches(met[k].l, e)
  <2>. DEFINE i == Nth(hit, k)
  <2>1. i \in DOMAIN rt /\ rt[i] = met[k] /\ (rt[i].kind = "cancel" \/ Matches(rt[i].l, e))
    BY <1>2, <1>4, <1>5
  <2>. HIDE DEF i
  <2>2. met[k] \in RouteType
    BY <1>1, <2>1
  <2>3. met[k].l \in Listeners /\ met[k].kind \in {"main", "cancel"} /\ met[k] = Route(met[k].kind, met[k].l)
    BY <2>2 DEF RouteType, Route
  <2>4. On(b.routes, met[k].kind, met[k].l)
    BY <2>1, <2>3 DEF On, rt
  <2>5. met[k].l \in S
    BY <2>3, <2>4 DEF Sound, Routed, Used
  <2>. QED BY <2>1, <2>2, <2>5
<1>6. ASSUME NEW k \in DOMAIN met
      PROVE  /\ x[k] \in TaskType /\ TaskOK(x[k], S) /\ x[k].kind \in Pipe /\ x[k].kind # "proxy" /\ x[k].e = e
             /\ x[k] = Task(met[k].kind, met[k].l, e)
  <2>1. x[k] = Task(met[k].kind, met[k].l, e)
    BY <1>6
  <2>2. /\ x[k].kind = met[k].kind /\ x[k].l = met[k].l /\ x[k].e = e
        /\ met[k].kind \in {"main", "cancel"} /\ met[k].l \in Listeners
    BY <1>5, <2>1 DEF Task, RouteType
  <2>3. x[k] \in TaskType
    BY <2>1, <2>2 DEF Task, TaskType, Kinds
  <2>4. TaskOK(x[k], S)
    BY <1>5, <2>2 DEF TaskOK, Pipe
  <2>. QED BY <2>1, <2>2, <2>3, <2>4 DEF Pipe
<1>7. p \in TaskType /\ TaskOK(p, S) /\ p.kind = "proxy" /\ p.e = e /\ p.kind \in Pipe
  BY DEF Task, TaskType, Kinds, TaskOK, Pipe
<1>. DEFINE n == Cardinality(hit)
<1>8. n \in Nat /\ DOMAIN met = 1..n
  BY <1>4
<1>. HIDE DEF n
<1>9. x \in Seq(TaskType) /\ Len(x) = n
  <2>1. DOMAIN x = 1..n /\ \A k \in 1..n : x[k] \in TaskType
    BY <1>6, <1>8
  <2>. QED BY <1>8, <2>1, IsASeq, LenProperties
<1>10. DOMAIN x = 1..n
  BY <1>8
<1>. HIDE DEF x, p
<1>11. /\ q \in Seq(TaskType) /\ Len(q) = n + 1 /\ q # <<>> /\ DOMAIN q = 1..(n + 1) /\ q[n + 1] = p
       /\ \A k \in 1..n : q[k] = x[k]
  BY <1>7, <1>8, <1>9, <1>10, AppendProperties, LenProperties, EmptySeq
<1>. HIDE DEF q
<1>12. \A i \in DOMAIN q : (i \in 1..n /\ i # n + 1 /\ q[i] = x[i]) \/ (i = n + 1 /\ q[i] = p)
  <2>. SUFFICES ASSUME NEW i \in DOMAIN q
                PROVE  (i \in 1..n /\ i # n + 1 /\ q[i] = x[i]) \/ (i = n + 1 /\ q[i] = p)
    OBVIOUS
  <2>1. (i \in 1..n /\ i # n + 1) \/ i = n + 1
    BY <1>8, <1>11
  <2>. QED BY <1>11, <2>1
<1>13. \A i \in DOMAIN q : /\ TaskOK(q[i], S) /\ q[i].kind \in Pipe /\ q[i].e = e
                           /\ q[i].kind = "proxy" <=> i = Len(q)
  BY <1>6, <1>7, <1>8, <1>11, <1>12
<1>14. Batch(q, S)
  BY <1>11, <1>13 DEF Batch
<1>15. \A k \in 1..n : k \in DOMAIN q /\ q[k] = Task(met[k].kind, met[k].l, e)
  <2>1. \A k \in 1..n : k \in DOMAIN q
    BY <1>8, <1>11
  <2>. QED BY <1>6, <1>8, <1>11, <2>1
<1>16. ASSUME NEW kind, NEW m, On(b.routes, kind, m), kind = "cancel" \/ Matches(m, e)
       PROVE  \E i \in DOMAIN q : q[i] = Task(kind, m, e)
  <2>1. PICK i \in DOMAIN rt : rt[i] = Route(kind, m)
    BY <1>16 DEF On, rt
  <2>2. rt[i].kind = kind /\ rt[i].l = m
    BY <2>1 DEF Route
  <2>3. i \in hit
    BY <1>2, <1>16, <2>1, <2>2
  <2>4. PICK k \in DOMAIN met : Nth(hit, k) = i
    BY <1>4, <2>3
  <2>5. met[k].kind = kind /\ met[k].l = m
    BY <1>4, <2>2, <2>4
  <2>. QED BY <1>8, <1>15, <2>4, <2>5
<1>. QED BY <1>3, <1>11, <1>13, <1>14, <1>16

----------------------------------------------------------------------------
(* Holds *)

LEMMA HoldLike ==
  ASSUME NEW b, NEW c, NEW m \in Listeners, NEW state, Hold(b, state, m),
         c.timer[m] = "sleeping" => b.timer[m] = "sleeping", m \notin c.cancelled => m \notin b.cancelled,
         m \in c.left => m \in b.left, \A s : s.kind \in Pipe => (Pending(c, s) <=> Pending(b, s))
  PROVE  Hold(c, state, m)
<1>1. \A e, k : /\ Task("proxy", None, e).kind \in Pipe /\ Task("main", k, e).kind \in Pipe
                /\ Task("cancel", k, e).kind \in Pipe
  BY DEF Task, Pipe
<1>2. \A e, k : /\ Pending(c, Task("proxy", None, e)) <=> Pending(b, Task("proxy", None, e))
                /\ Pending(c, Task("main", k, e)) <=> Pending(b, Task("main", k, e))
                /\ Pending(c, Task("cancel", k, e)) <=> Pending(b, Task("cancel", k, e))
  BY <1>1
<1>. QED BY <1>2 DEF Hold

\* A hold does not depend on a task about another listener, or about none.
LEMMA HoldStarted ==
  ASSUME NEW b, NEW S, Sound(b, S), b.ready # <<>>, NEW m \in Listeners, NEW state, Hold(b, state, m),
         Head(b.ready).kind \in {"main", "cancel"} => Head(b.ready).l # m
  PROVE  Hold(Started(b), state, m)
<1>. DEFINE c == Started(b)
            t == Head(b.ready)
<1>1. /\ c.cancelled = b.cancelled /\ c.timer = b.timer /\ c.left = b.left
      /\ \A s : s # t => (Pending(c, s) <=> Pending(b, s))
      /\ \A s : Pending(c, s) => Pending(b, s)
  BY StartedFacts
<1>2. \A e : Task("main", m, e) # t /\ Task("cancel", m, e) # t
  BY DEF Task
<1>3. \A e : /\ Pending(c, Task("proxy", None, e)) => Pending(b, Task("proxy", None, e))
             /\ Pending(b, Task("main", m, e)) => Pending(c, Task("main", m, e))
             /\ Pending(b, Task("cancel", m, e)) => Pending(c, Task("cancel", m, e))
  BY <1>1, <1>2
<1>. HIDE DEF c
<1>4. Hold(c, state, m)
  BY <1>1, <1>3 DEF Hold
<1>. QED BY <1>4 DEF c

\* StateProxy's task under way is about the event of the task that is next.
LEMMA SameEvent ==
  ASSUME NEW b, Line(b), NEW S, Sound(b, S), b.ready # <<>>, Head(b.ready).kind \in Pipe, NEW e,
         Pending(b, Task("proxy", None, e))
  PROVE  Head(b.ready).e = e
<1>. DEFINE p == Task("proxy", None, e)
<1>1. Head(b.ready) = b.ready[1] /\ 1 \in DOMAIN b.ready
  BY StartedFacts
<1>2. p.kind \in Pipe /\ p.e = e
  BY DEF Task, Pipe
<1>. HIDE DEF p
<1>3. CASE \E i \in DOMAIN b.ready : b.ready[i] = p
  BY <1>1, <1>2, <1>3 DEF Line
<1>4. CASE \E i \in DOMAIN b.loop.todo : b.loop.todo[i] = p
  BY <1>1, <1>2, <1>4 DEF Line
<1>5. Pending(b, p)
  BY DEF p
<1>. QED BY <1>3, <1>4, <1>5 DEF Pending

\* When StateProxy's task is next, it is the only one about an event.
LEMMA ProxyLast ==
  ASSUME NEW b, Line(b), NEW S, Sound(b, S), b.ready # <<>>, Head(b.ready).kind = "proxy", NEW s,
         s.kind \in Pipe, Pending(b, s)
  PROVE  s = Head(b.ready)
<1>1. Head(b.ready) = b.ready[1] /\ 1 \in DOMAIN b.ready /\ "proxy" \in Pipe
  BY StartedFacts DEF Pipe
<1>2. DOMAIN b.ready = 1..Len(b.ready) /\ Len(b.ready) \in Nat
  BY TypeFacts, LenProperties DEF Sound
<1>3. b.loop.todo = <<>>
  BY <1>1 DEF Line
<1>4. DOMAIN b.loop.todo = {}
  BY <1>3, EmptySeq
<1>5. PICK i \in DOMAIN b.ready : b.ready[i] = s
  BY <1>4 DEF Pending
<1>6. i <= 1
  BY <1>1, <1>5 DEF Line
<1>7. i = 1
  BY <1>2, <1>6
<1>. QED BY <1>1, <1>5, <1>7

\* After StateProxy's task started, none about an event is under way.
LEMMA ProxyGone ==
  ASSUME NEW b, Line(b), NEW S, Sound(b, S), b.ready # <<>>, Head(b.ready).kind = "proxy", NEW s,
         s.kind \in Pipe
  PROVE  ~Pending(Started(b), s)
<1>. DEFINE r == Tail(b.ready)
<1>1. /\ Head(b.ready) = b.ready[1] /\ 1 \in DOMAIN b.ready /\ "proxy" \in Pipe
      /\ Started(b).ready = r /\ Started(b).loop = b.loop
  BY StartedFacts DEF Pipe
<1>2. b.ready \in Seq(TaskType) /\ DOMAIN b.ready = 1..Len(b.ready) /\ Len(b.ready) \in Nat
  BY TypeFacts, LenProperties DEF Sound
<1>3. \A i \in DOMAIN r : i \in Nat /\ i + 1 \in DOMAIN b.ready /\ r[i] = b.ready[i + 1]
  BY <1>2, NumberHead
<1>4. DOMAIN r = 1..Len(r)
  BY <1>2, NumberHead, LenProperties
<1>5. b.loop.todo = <<>>
  BY <1>1 DEF Line
<1>6. DOMAIN b.loop.todo = {}
  BY <1>5, EmptySeq
<1>. HIDE DEF r
<1>7. ASSUME Pending(Started(b), s) PROVE FALSE
  <2>1. PICK i \in DOMAIN r : r[i] = s
    BY <1>1, <1>6, <1>7 DEF Pending
  <2>2. i + 1 <= 1
    BY <1>1, <1>3, <2>1 DEF Line
  <2>3. i >= 1
    BY <1>3, <1>4, <2>1
  <2>. QED BY <1>3, <2>2, <2>3
<1>. QED BY <1>7

----------------------------------------------------------------------------
(* Slots, the pending count and handlers that end *)

\* A slot that is given back: the loop is woken with it, or it is free.
LEMMA FreedFacts ==
  ASSUME NEW b, NEW S, Sound(b, S)
  PROVE  LET c == Freed(b)
         IN  /\ Sound(c, S) /\ Moves(b, c, 1, 0, 0)
             /\ c.keys = b.keys /\ c.cancelled = b.cancelled /\ c.routes = b.routes /\ c.running = b.running
             /\ c.fired = b.fired /\ c.timer = b.timer /\ c.delayed = b.delayed /\ c.left = b.left
             /\ c.pending = b.pending /\ (c.loop.at = "queued" => b.loop.at = "queued")
             /\ Line(b) => Line(c)
             /\ \A s : s.kind \in Pipe => (Pending(c, s) <=> Pending(b, s))
<1>0. b \in BusType
  BY DEF Sound
<1>1. CASE b.loop.at = "blocked"
  <2>. DEFINE c == Enqueue([b EXCEPT !.loop.at = "woken"], Task("go", None, None))
  <2>1. /\ Sound(c, S) /\ Moves(b, c, Bit("woken" = "woken"), 0, 0)
        /\ c.keys = b.keys /\ c.cancelled = b.cancelled /\ c.routes = b.routes /\ c.running = b.running
        /\ c.fired = b.fired /\ c.timer = b.timer /\ c.delayed = b.delayed /\ c.left = b.left
        /\ c.pending = b.pending /\ c.slots = b.slots /\ c.loop.at = "woken"
        /\ Line(b) => Line(c)
        /\ \A s : s.kind \in Pipe => (Pending(c, s) <=> Pending(b, s))
    BY <1>1, GoFacts
  <2>2. Freed(b) = c
    BY <1>1 DEF Freed
  <2>. HIDE DEF c
  <2>3. Bit("woken" = "woken") = 1
    BY DEF Bit
  <2>. QED BY <2>1, <2>2, <2>3
<1>2. CASE b.loop.at # "blocked"
  <2>. DEFINE n == b.slots + 1
              c == [b EXCEPT !.slots = n]
  <2>1. b.slots \in Int /\ n \in Int /\ n = b.slots + 1
    BY <1>0, TypeFacts
  <2>2. Freed(b) = c
    BY <1>2 DEF Freed
  <2>. HIDE DEF n
  <2>3. c \in BusType
    BY <1>0, <2>1 DEF BusType
  <2>4. /\ c.keys = b.keys /\ c.cancelled = b.cancelled /\ c.routes = b.routes /\ c.running = b.running
        /\ c.fired = b.fired /\ c.timer = b.timer /\ c.left = b.left /\ c.loop = b.loop /\ c.slots = n
        /\ c.pending = b.pending /\ c.holding = b.holding /\ c.delayed = b.delayed /\ c.ready = b.ready
    BY <1>0 DEF BusType
  <2>. HIDE DEF c
  <2>5. Sound(c, S)
    BY <2>3, <2>4 DEF Sound, Tasked, Routed, Used, OneLate
  <2>6. PendSum(c) = PendSum(b) + 0 /\ HoldSum(c) = HoldSum(b) + 0
    <3>1. PendSum(c) = PendSum(b) /\ HoldSum(c) = HoldSum(b)
      BY <2>4 DEF PendSum, HoldSum, Run, Asleep
    <3>. QED BY <1>0, <3>1, SumTypes
  <2>7. SlotSum(c) = SlotSum(b) + 1
    <3>1. SlotSum(c) = n + Number(b.ready, FanOut) + Run(b, "slot") + Bit(b.loop.at = "woken")
      BY <2>4 DEF SlotSum, Run
    <3>2. Number(b.ready, FanOut) \in Nat /\ Run(b, "slot") \in Nat /\ Bit(b.loop.at = "woken") \in Nat
      BY <1>0, SumTypes DEF Via
    <3>3. SlotSum(b) = b.slots + Number(b.ready, FanOut) + Run(b, "slot") + Bit(b.loop.at = "woken")
      BY DEF SlotSum
    <3>. QED BY <2>1, <3>1, <3>2, <3>3
  <2>8. Line(b) => Line(c)
    <3>1. Line(b) => n >= 0
      BY <2>1 DEF Line
    <3>. QED BY <1>2, <2>4, <3>1 DEF Line
  <2>9. \A s : Pending(c, s) <=> Pending(b, s)
    BY <2>4 DEF Pending
  <2>. QED BY <2>2, <2>4, <2>5, <2>6, <2>7, <2>8, <2>9 DEF Moves
<1>. QED BY <1>1, <1>2

LEMMA PendingFacts ==
  ASSUME NEW b, NEW S, Sound(b, S), NEW p \in Int
  PROVE  LET c == [b EXCEPT !.pending = p]
         IN  /\ Sound(c, S) /\ Moves(b, c, 0, p - b.pending, 0)
             /\ c.keys = b.keys /\ c.cancelled = b.cancelled /\ c.routes = b.routes /\ c.running = b.running
             /\ c.fired = b.fired /\ c.timer = b.timer /\ c.delayed = b.delayed /\ c.left = b.left
             /\ c.loop = b.loop /\ c.slots = b.slots /\ c.ready = b.ready
             /\ Line(b) => Line(c)
             /\ \A s : Pending(c, s) <=> Pending(b, s)
<1>0. b \in BusType /\ b.pending \in Int
  BY TypeFacts DEF Sound
<1>. DEFINE c == [b EXCEPT !.pending = p]
<1>1. c \in BusType
  BY <1>0 DEF BusType
<1>2. /\ c.keys = b.keys /\ c.cancelled = b.cancelled /\ c.routes = b.routes /\ c.running = b.running
      /\ c.fired = b.fired /\ c.timer = b.timer /\ c.left = b.left /\ c.loop = b.loop /\ c.slots = b.slots
      /\ c.pending = p /\ c.holding = b.holding /\ c.delayed = b.delayed /\ c.ready = b.ready
  BY <1>0 DEF BusType
<1>. HIDE DEF c
<1>3. Sound(c, S)
  BY <1>1, <1>2 DEF Sound, Tasked, Routed, Used, OneLate
<1>4. SlotSum(c) = SlotSum(b) + 0 /\ HoldSum(c) = HoldSum(b) + 0
  <2>1. SlotSum(c) = SlotSum(b) /\ HoldSum(c) = HoldSum(b)
    BY <1>2 DEF SlotSum, HoldSum, Run, Asleep
  <2>. QED BY <1>0, <2>1, SumTypes
<1>5. PendSum(c) = PendSum(b) + (p - b.pending)
  <2>. DEFINE K == FanOut \cup {"immediate", "settled"}
  <2>1. PendSum(c) = p - Number(b.ready, K) - Run(b, "slot") - Run(b, "now")
    BY <1>2 DEF PendSum, Run
  <2>2. Number(b.ready, K) \in Nat /\ Run(b, "slot") \in Nat /\ Run(b, "now") \in Nat
    BY <1>0, SumTypes DEF Via
  <2>3. PendSum(b) = b.pending - Number(b.ready, K) - Run(b, "slot") - Run(b, "now")
    BY DEF PendSum
  <2>. HIDE DEF K
  <2>. QED BY <1>0, <2>1, <2>2, <2>3
<1>6. Line(b) => Line(c)
  BY <1>2 DEF Line
<1>7. \A s : Pending(c, s) <=> Pending(b, s)
  BY <1>2 DEF Pending
<1>. QED BY <1>2, <1>3, <1>4, <1>5, <1>6, <1>7 DEF Moves, c

\* A handler is over, and what it held is given back.
LEMMA FinishedFacts ==
  ASSUME NEW b, NEW S, Sound(b, S), NEW l \in Listeners, NEW v \in Via, b.running[l][v] > 0,
         NEW o \in SUBSET app.debounced
  PROVE  LET c == Ended([b EXCEPT !.running[l][v] = @ - 1, !.owed = o], l, v)
         IN  /\ Sound(c, S) /\ Calm(b, c, S, l) /\ Stills(b, c) /\ Fewer(b, c) /\ Moves(b, c, 0, 0, 0)
             /\ NamesKept(b, c) /\ l \in S
<1>. DEFINE r == [b.running EXCEPT ![l][v] = @ - 1]
            d == [b EXCEPT !.running = r, !.owed = o]
            c == Ended(d, l, v)
<1>1. b \in BusType /\ b.running \in RunningType
  BY TypeFacts DEF Sound
<1>2. Ended([b EXCEPT !.running[l][v] = @ - 1, !.owed = o], l, v) = c
  OBVIOUS
<1>3. /\ r \in RunningType /\ b.running[l][v] = r[l][v] + 1
      /\ \A m \in Listeners : \A w \in Via : m # l \/ w # v => r[m][w] = b.running[m][w]
  BY <1>1 DEF RunningType
<1>4. \A m \in Listeners : \A w \in Via : b.running[m][w] \in Nat /\ r[m][w] <= b.running[m][w] /\ r[m][w] \in Nat
  BY <1>1, <1>3 DEF RunningType
<1>. HIDE DEF r
<1>5. d \in BusType
  BY <1>1, <1>3 DEF BusType, RunningType
<1>6. /\ d.keys = b.keys /\ d.cancelled = b.cancelled /\ d.routes = b.routes /\ d.running = r
      /\ d.fired = b.fired /\ d.timer = b.timer /\ d.left = b.left /\ d.loop = b.loop /\ d.slots = b.slots
      /\ d.pending = b.pending /\ d.holding = b.holding /\ d.delayed = b.delayed /\ d.ready = b.ready
  BY <1>1 DEF BusType
<1>. HIDE DEF d
<1>7. Routed(d, S) /\ Tasked(d, S)
  BY <1>6 DEF Sound, Routed, Tasked
<1>8. Used(d, S)
  <2>1. \A m \in Listeners : \A w \in Via : r[m][w] > 0 => b.running[m][w] > 0
    BY <1>4
  <2>. QED BY <1>6, <2>1 DEF Sound, Used
<1>9. OneLate(d)
  <2>1. \A m \in Listeners : /\ b.running[m]["late"] <= 1
                             /\ m \in b.delayed \cap app.parallel => b.running[m]["late"] = 0
    BY DEF Sound, OneLate
  <2>2. \A m \in Listeners : r[m]["late"] <= b.running[m]["late"] /\ b.running[m]["late"] \in Nat /\ r[m]["late"] \in Nat
    BY <1>4 DEF Via
  <2>3. \A m \in Listeners : /\ r[m]["late"] <= 1
                             /\ m \in b.delayed \cap app.parallel => r[m]["late"] = 0
    BY <2>1, <2>2
  <2>. QED BY <1>6, <2>3 DEF OneLate
<1>10. Sound(d, S)
  BY <1>5, <1>7, <1>8, <1>9 DEF Sound
<1>11. Later(b, d, S)
  BY <1>1, <1>6, LaterSame
<1>12. Calm(b, d, S, l) /\ Stills(b, d) /\ NamesKept(b, d) /\ Fewer(b, d)
  BY <1>4, <1>6, <1>11 DEF Calm, Stills, NamesKept, Named, Fewer
<1>13. Run(b, v) = Run(d, v) + 1 /\ \A w \in Via \ {v} : Run(b, w) = Run(d, w)
  <2>1. Cardinality(Runs(b.running, v)) = Cardinality(Runs(r, v)) + 1
    BY <1>1, <1>3, RunsPlus
  <2>2. ASSUME NEW w \in Via \ {v} PROVE Runs(b.running, w) = Runs(r, w)
    BY <1>3, RunsSame
  <2>. QED BY <1>6, <2>1, <2>2 DEF Run
<1>14. Moves(d, b, SlotOf(v), PendOf(v), HoldOf(v))
  BY <1>1, <1>5, <1>6, <1>13, RunMoves
<1>15. Settled(d, c, S, l, v) /\ Fewer(d, c)
  BY <1>10, EndedFacts
<1>. HIDE DEF c
<1>16. c \in BusType /\ Sound(c, S)
  BY <1>15 DEF Settled, Sound
<1>17. Moves(b, c, 0, 0, 0)
  <2>1. /\ SlotSum(b) = SlotSum(d) + SlotOf(v) /\ PendSum(b) = PendSum(d) + PendOf(v) /\ HoldSum(b) = HoldSum(d) + HoldOf(v)
        /\ SlotSum(c) = SlotSum(d) + SlotOf(v) /\ PendSum(c) = PendSum(d) + PendOf(v) /\ HoldSum(c) = HoldSum(d) + HoldOf(v)
    BY <1>14, <1>15 DEF Moves, Settled
  <2>2. SlotSum(c) = SlotSum(b) /\ PendSum(c) = PendSum(b) /\ HoldSum(c) = HoldSum(b)
    BY <2>1
  <2>3. SlotSum(b) \in Int /\ PendSum(b) \in Int /\ HoldSum(b) \in Int
    BY <1>1, SumTypes
  <2>. QED BY <2>2, <2>3 DEF Moves
<1>18. Calm(b, c, S, l)
  BY <1>1, <1>12, <1>15, CalmTrans DEF Settled
<1>19. Stills(b, c) /\ NamesKept(b, c)
  BY <1>12, <1>15 DEF Settled, Stills, NamesKept
<1>20. Fewer(b, c)
  <2>1. \A m \in Listeners : \A w \in Via : /\ c.running[m][w] <= d.running[m][w] /\ d.running[m][w] <= b.running[m][w]
    BY <1>12, <1>15 DEF Fewer
  <2>2. \A m \in Listeners : \A w \in Via : c.running[m][w] \in Nat /\ d.running[m][w] \in Nat /\ b.running[m][w] \in Nat
    BY <1>1, <1>5, <1>16, TypeFacts DEF RunningType
  <2>. QED BY <2>1, <2>2 DEF Fewer
<1>21. l \in S
  BY DEF Sound, Used
<1>. QED BY <1>2, <1>16, <1>17, <1>18, <1>19, <1>20, <1>21

----------------------------------------------------------------------------
(* Timers, debounce sleeps and throttle windows that end *)

LEMMA TimerOverFacts ==
  ASSUME NEW b, NEW S, Sound(b, S), NEW l \in Listeners, b.timer[l] = "sleeping"
  PROVE  LET c == [b EXCEPT !.timer[l] = "none", !.routes = Without(@, "cancel", l)]
         IN  /\ Sound(c, S) /\ Calm(b, c, S, l) /\ Stills(b, c) /\ Moves(b, c, 0, 0, 1)
             /\ c.keys = b.keys /\ c.cancelled = b.cancelled /\ c.running = b.running /\ c.fired = b.fired
             /\ l \in S
<1>. DEFINE t == Without(b.routes, "cancel", l)
            tt == [b.timer EXCEPT ![l] = "none"]
            c == [b EXCEPT !.timer[l] = "none", !.routes = Without(@, "cancel", l)]
<1>1. b \in BusType /\ b.routes \in Seq(RouteType) /\ Distinct(b.routes)
      /\ b.timer \in [Listeners -> {"none", "sleeping"}] /\ b.holding \in Int
  BY TypeFacts DEF Sound, Routed
<1>2. /\ t \in Seq(RouteType) /\ Distinct(t)
      /\ \A k, m : On(t, k, m) <=> On(b.routes, k, m) /\ ~(k = "cancel" /\ m = l)
  BY <1>1, WithoutFacts
<1>3. tt \in [Listeners -> {"none", "sleeping"}] /\ tt[l] = "none" /\ \A m \in Listeners \ {l} : tt[m] = b.timer[m]
  BY <1>1
<1>4. c = [b EXCEPT !.timer = tt, !.routes = t]
  OBVIOUS
<1>. HIDE DEF t, tt, c
<1>5. c \in BusType
  BY <1>1, <1>2, <1>3, <1>4 DEF BusType
<1>6. /\ c.keys = b.keys /\ c.cancelled = b.cancelled /\ c.routes = t /\ c.running = b.running
      /\ c.fired = b.fired /\ c.timer = tt /\ c.left = b.left /\ c.loop = b.loop /\ c.slots = b.slots
      /\ c.pending = b.pending /\ c.holding = b.holding /\ c.delayed = b.delayed /\ c.ready = b.ready
  BY <1>1, <1>4 DEF BusType
<1>7. Routed(c, S)
  BY <1>2, <1>3, <1>6 DEF Sound, Routed
<1>8. Used(c, S) /\ OneLate(c) /\ Tasked(c, S)
  BY <1>3, <1>6 DEF Sound, Used, OneLate, Tasked
<1>9. Sound(c, S)
  BY <1>5, <1>7, <1>8 DEF Sound
<1>10. Later(b, c, S)
  BY <1>1, <1>6, LaterSame
<1>11. Calm(b, c, S, l) /\ Stills(b, c)
  BY <1>3, <1>6, <1>10 DEF Calm, Stills
<1>12. Asleep(b) = Asleep(c) + 1 /\ Asleep(c) \in Nat
  BY <1>3, <1>6, AsleepMinus
<1>13. SlotSum(c) = SlotSum(b) + 0 /\ PendSum(c) = PendSum(b) + 0
  <2>1. SlotSum(c) = SlotSum(b) /\ PendSum(c) = PendSum(b)
    BY <1>6 DEF SlotSum, PendSum, Run
  <2>. QED BY <1>1, <2>1, SumTypes
<1>14. HoldSum(c) = HoldSum(b) + 1
  <2>. DEFINE x == b.holding   a == Asleep(c)   u == Run(b, "timer")
  <2>1. Run(c, "timer") = u /\ u \in Nat /\ x \in Int /\ a \in Nat
    BY <1>1, <1>6, <1>12, SumTypes DEF Run, Via
  <2>2. HoldSum(b) = x - (a + 1) - u /\ HoldSum(c) = x - a - u
    BY <1>6, <1>12, <2>1 DEF HoldSum
  <2>. HIDE DEF x, a, u
  <2>. QED BY <2>1, <2>2
<1>15. l \in S
  BY DEF Sound, Used
<1>. QED BY <1>6, <1>9, <1>11, <1>13, <1>14, <1>15 DEF Moves, c

\* A debounce sleep or a throttle window is over.
WaitOver(b, d, h) == [b EXCEPT !.delayed = d, !.shut = h]

Waited(b, c, S, d, l) ==
    /\ Sound(c, S) /\ Calm(b, c, S, l) /\ Stills(b, c) /\ Moves(b, c, 0, 0, 0)
    /\ c.keys = b.keys /\ c.cancelled = b.cancelled /\ c.running = b.running /\ c.fired = b.fired
    /\ c.delayed = d

LEMMA WaitOverFacts ==
  ASSUME NEW b, NEW S, Sound(b, S), NEW d \in SUBSET b.delayed, NEW h \in SUBSET b.shut,
         NEW l \in Listeners
  PROVE  Waited(b, WaitOver(b, d, h), S, d, l)
<1>. DEFINE c == WaitOver(b, d, h)
<1>0. c = [b EXCEPT !.delayed = d, !.shut = h]
  BY DEF WaitOver
<1>. HIDE DEF c
<1>1. b \in BusType /\ b.delayed \subseteq app.debounced /\ b.shut \subseteq app.throttled
  BY TypeFacts DEF Sound
<1>2. d \in SUBSET app.debounced /\ h \in SUBSET app.throttled
  BY <1>1
<1>3. c \in BusType
  BY <1>0, <1>1, <1>2 DEF BusType
<1>4. /\ c.keys = b.keys /\ c.cancelled = b.cancelled /\ c.routes = b.routes /\ c.running = b.running
      /\ c.fired = b.fired /\ c.timer = b.timer /\ c.left = b.left /\ c.loop = b.loop /\ c.slots = b.slots
      /\ c.pending = b.pending /\ c.holding = b.holding /\ c.delayed = d /\ c.ready = b.ready
  BY <1>0, <1>1 DEF BusType
<1>5. Sound(c, S)
  BY <1>3, <1>4 DEF Sound, Routed, Tasked, Used, OneLate
<1>6. Later(b, c, S)
  BY <1>1, <1>4, LaterSame
<1>7. Calm(b, c, S, l) /\ Stills(b, c)
  BY <1>4, <1>6 DEF Calm, Stills
<1>8. Moves(b, c, 0, 0, 0)
  <2>1. SlotSum(c) = SlotSum(b) /\ PendSum(c) = PendSum(b) /\ HoldSum(c) = HoldSum(b)
    BY <1>4 DEF SlotSum, PendSum, HoldSum, Run, Asleep
  <2>. QED BY <1>1, <2>1, SumTypes DEF Moves
<1>. QED BY <1>4, <1>5, <1>7, <1>8 DEF Waited, c

----------------------------------------------------------------------------
(* Steps *)

\* The invariant of the next state, read in the scenario of this one.
LEMMA InvPrimed ==
  ASSUME app' = app, Around', Sound(bus', subs'), Named(bus', subs' \cup {adding'[i] : i \in DOMAIN adding'}),
         Balanced(bus'), Line(bus'), \A m \in Listeners : Hold(bus', cache', m)
  PROVE  BusInv'
<1>1. (bus \in BusType)'
  BY DEF Sound, BusType, Changes, TaskType, RouteType, Kinds
<1>2. (Tasked(bus, subs))'
  BY DEF Sound, Tasked, TaskOK, Matches, Pipe, Changes
<1>3. (Routed(bus, subs))'
  BY DEF Sound, Routed, On, Distinct, Route
<1>4. (Used(bus, subs))'
  BY DEF Sound, Used, Via
<1>5. (OneLate(bus))'
  BY DEF Sound, OneLate
<1>6. (Named(bus, subs \cup Registering))'
  BY DEF Named, Registering
<1>7. (Balanced(bus))'
  BY DEF Balanced, SlotSum, PendSum, HoldSum, Number, Hits, Run, Runs, Asleep, Bit, FanOut, Via
<1>8. (Line(bus))'
  BY DEF Line, Pipe
<1>9. (\A l \in Listeners : Hold(bus, cache, l))'
  BY DEF Hold, Pending, Changes, Task
<1>. QED BY <1>1, <1>2, <1>3, <1>4, <1>5, <1>6, <1>7, <1>8, <1>9 DEF BusInv, Sound

\* Of the listeners whose handler was started, the once-listeners have fired.
LEMMA RanKept ==
  ASSUME ran \subseteq Listeners, app.once \cap ran \subseteq bus.fired, app' = app, bus.fired \subseteq bus'.fired,
         ran' = ran \cup {l \in Listeners : \E v \in Via : bus'.running[l][v] > bus.running[l][v]},
         \A m \in Listeners : \A w \in Via : bus'.running[m][w] > bus.running[m][w] /\ m \in app.once => m \in bus'.fired
  PROVE  ran' \subseteq Listeners /\ app'.once \cap ran' \subseteq bus'.fired
<1>1. ran' \subseteq Listeners
  OBVIOUS
<1>2. ASSUME NEW m \in app.once \cap ran' PROVE m \in bus'.fired
  <2>1. CASE m \in ran
    BY <1>2, <2>1
  <2>2. CASE m \in Listeners /\ \E v \in Via : bus'.running[m][v] > bus.running[m][v]
    BY <1>2, <2>2
  <2>. QED BY <1>2, <2>1, <2>2
<1>. QED BY <1>1, <1>2

LEMMA StepKept ==
  ASSUME BusInv, UNCHANGED <<app, home, sent, stream, adding, subs, gone>>, cache' \in States,
         Sound(bus', subs), Named(bus', subs \cup Registering), Balanced(bus'), Line(bus'),
         \A m \in Listeners : Hold(bus', cache', m),
         bus'.cancelled \subseteq bus.cancelled \cup subs, bus'.loop.at = "queued" => bus.loop.at = "queued",
         bus.fired \subseteq bus'.fired,
         ran' = ran \cup {l \in Listeners : \E v \in Via : bus'.running[l][v] > bus.running[l][v]},
         \A m \in Listeners : \A w \in Via : bus'.running[m][w] > bus.running[m][w] /\ m \in app.once => m \in bus'.fired
  PROVE  BusInv'
<1>1. Around
  BY DEF BusInv
<1>2. ran' \subseteq Listeners /\ app'.once \cap ran' \subseteq bus'.fired
  BY <1>1, RanKept DEF Around
<1>3. Around'
  <2>1. /\ app' \in Scenarios /\ home' \in States /\ sent' \in 0..app'.events
        /\ stream' \in Seq(Changes) /\ adding' \in Seq(Listeners) /\ subs' \subseteq Listeners /\ gone' \subseteq Listeners
    BY <1>1 DEF Around
  <2>2. Distinct(adding)' /\ \A i \in DOMAIN adding' : adding'[i] \notin subs'
    BY <1>1 DEF Around, Distinct
  <2>3. bus'.cancelled \subseteq subs' \cup gone'
    BY <1>1 DEF Around
  <2>4. bus'.loop.at = "queued" => stream' # <<>>
    BY <1>1 DEF Around
  <2>. QED BY <1>2, <2>1, <2>2, <2>3, <2>4 DEF Around, Changes
<1>4. Named(bus', subs' \cup {adding'[i] : i \in DOMAIN adding'})
  BY DEF Registering
<1>5. Sound(bus', subs')
  OBVIOUS
<1>. QED BY <1>3, <1>4, <1>5, InvPrimed

\* A step that first takes bus to b, which costs the accounts what it then gives back.
LEMMA FromKept ==
  ASSUME BusInv, UNCHANGED <<app, home, sent, stream, cache, adding, subs, gone>>,
         NEW b, Sound(b, subs), Line(b), b.keys = bus.keys, b.cancelled = bus.cancelled, b.fired = bus.fired,
         b.running = bus.running, b.loop.at = "queued" => bus.loop.at = "queued",
         NEW l \in subs, NEW s \in Int, NEW p \in Int, NEW h \in Int,
         Moves(bus, b, - s, - p, - h), Moves(b, bus', s, p, h),
         Sound(bus', subs), Calm(b, bus', subs, l), NamesKept(b, bus'),
         \A m \in Listeners : Hold(bus', cache, m),
         ran' = ran \cup {m \in Listeners : \E v \in Via : bus'.running[m][v] > bus.running[m][v]},
         \A m \in Listeners : \A w \in Via : bus'.running[m][w] > bus.running[m][w] /\ m \in app.once => m \in bus'.fired
  PROVE  BusInv'
<1>1. bus \in BusType /\ b \in BusType /\ bus' \in BusType /\ cache \in States
  BY DEF Sound, BusInv, Around
<1>2. Balanced(bus')
  <2>1. SlotSum(bus) = app.slots /\ PendSum(bus) = 0 /\ HoldSum(bus) = 0
    BY DEF BusInv, Balanced
  <2>2. SlotSum(b) = SlotSum(bus) + (- s) /\ PendSum(b) = PendSum(bus) + (- p) /\ HoldSum(b) = HoldSum(bus) + (- h)
        /\ SlotSum(bus') = SlotSum(b) + s /\ PendSum(bus') = PendSum(b) + p /\ HoldSum(bus') = HoldSum(b) + h
    BY DEF Moves
  <2>3. SlotSum(bus) \in Int /\ PendSum(bus) \in Int /\ HoldSum(bus) \in Int
    BY <1>1, SumTypes
  <2>4. SlotSum(bus') = SlotSum(bus) /\ PendSum(bus') = PendSum(bus) /\ HoldSum(bus') = HoldSum(bus)
    BY <2>2, <2>3
  <2>. QED BY <2>1, <2>4 DEF Balanced
<1>3. Line(bus')
  BY <1>1, LineKept DEF Calm
<1>4. Named(bus', subs \cup Registering)
  <2>1. Named(b, subs \cup Registering)
    BY DEF BusInv, Named
  <2>. QED BY <2>1 DEF NamesKept
<1>5. bus'.cancelled \subseteq bus.cancelled \cup subs /\ bus.fired \subseteq bus'.fired
  BY DEF Calm
<1>6. bus'.loop.at = "queued" => bus.loop.at = "queued"
  BY DEF Calm
<1>7. cache' \in States /\ \A m \in Listeners : Hold(bus', cache', m)
  <2>1. cache' = cache
    OBVIOUS
  <2>. QED BY <1>1, <2>1
<1>. QED BY <1>2, <1>3, <1>4, <1>5, <1>6, <1>7, StepKept

\* And one that does not.
LEMMA DirectKept ==
  ASSUME BusInv, UNCHANGED <<app, home, sent, stream, cache, adding, subs, gone>>,
         NEW l \in subs, Sound(bus', subs), Calm(bus, bus', subs, l), Stills(bus, bus'),
         Moves(bus, bus', 0, 0, 0), NamesKept(bus, bus'),
         ran' = ran \cup {m \in Listeners : \E v \in Via : bus'.running[m][v] > bus.running[m][v]},
         \A m \in Listeners : \A w \in Via : bus'.running[m][w] > bus.running[m][w] /\ m \in app.once => m \in bus'.fired
  PROVE  BusInv'
<1>1. /\ Sound(bus, subs) /\ Line(bus) /\ bus \in BusType
      /\ \A m \in Listeners : Hold(bus, cache, m)
  BY DEF BusInv, Sound
<1>2. \A m \in Listeners : Hold(bus', cache, m)
  BY <1>1, HoldKept DEF Stills
<1>3. Moves(bus, bus, - 0, - 0, - 0)
  BY <1>1, SumTypes DEF Moves
<1>. QED BY <1>1, <1>2, <1>3, FromKept

\* A handler returns or raises.
LEMMA FinishKept ==
  ASSUME BusInv, NEW l \in Listeners, NEW via \in Via, Finish(l, via)
  PROVE  BusInv'
<1>. DEFINE o == IF via = "late" THEN bus.owed \ ({l} \ bus.delayed) ELSE bus.owed
            c == Ended([bus EXCEPT !.running[l][via] = @ - 1, !.owed = o], l, via)
<1>1. Sound(bus, subs) /\ bus \in BusType
  BY DEF BusInv, Sound
<1>2. o \in SUBSET app.debounced
  BY <1>1, TypeFacts
<1>3. bus.running[l][via] > 0
  BY DEF Finish
<1>4. /\ bus' = c /\ ran' = ran \cup {m \in Listeners : \E v \in Via : c.running[m][v] > bus.running[m][v]}
      /\ UNCHANGED <<app, home, sent, stream, cache, adding, subs, gone>>
  BY DEF Finish, Becomes
<1>. HIDE DEF o
<1>5. /\ Sound(c, subs) /\ Calm(bus, c, subs, l) /\ Stills(bus, c) /\ Fewer(bus, c) /\ Moves(bus, c, 0, 0, 0)
      /\ NamesKept(bus, c) /\ l \in subs
  BY <1>1, <1>2, <1>3, FinishedFacts
<1>. HIDE DEF c
<1>6. /\ Sound(bus', subs) /\ Calm(bus, bus', subs, l) /\ Stills(bus, bus') /\ Fewer(bus, bus')
      /\ Moves(bus, bus', 0, 0, 0) /\ NamesKept(bus, bus')
  BY <1>4, <1>5
<1>7. \A m \in Listeners : \A w \in Via : ~(bus'.running[m][w] > bus.running[m][w])
  <2>1. bus' \in BusType
    BY <1>6 DEF Sound
  <2>2. \A m \in Listeners : \A w \in Via : bus'.running[m][w] \in Nat /\ bus.running[m][w] \in Nat
    BY <1>1, <2>1, TypeFacts DEF RunningType
  <2>. QED BY <1>6, <2>2 DEF Fewer
<1>. QED BY <1>4, <1>5, <1>6, <1>7, DirectKept

LEMMA NoMore ==
  ASSUME NEW b \in BusType, NEW c \in BusType, Fewer(b, c)
  PROVE  \A m \in Listeners : \A w \in Via : ~(c.running[m][w] > b.running[m][w])
<1>1. \A m \in Listeners : \A w \in Via : c.running[m][w] \in Nat /\ b.running[m][w] \in Nat
  BY TypeFacts DEF RunningType
<1>. QED BY <1>1 DEF Fewer

\* A held state's time is over.
LEMMA TimerFiresKept ==
  ASSUME BusInv, NEW l \in Listeners, TimerFires(l)
  PROVE  BusInv'
<1>. DEFINE b == [bus EXCEPT !.timer[l] = "none", !.routes = Without(@, "cancel", l)]
            c == IF cache = "on" THEN Invoked(b, l, "timer") ELSE Ended(b, l, "timer")
<1>1. /\ Sound(bus, subs) /\ bus \in BusType /\ Line(bus) /\ bus.timer[l] = "sleeping"
      /\ \A m \in Listeners : Hold(bus, cache, m)
  BY DEF BusInv, Sound, TimerFires
<1>2. /\ bus' = c /\ ran' = ran \cup {m \in Listeners : \E v \in Via : c.running[m][v] > bus.running[m][v]}
      /\ UNCHANGED <<app, home, sent, stream, cache, adding, subs, gone>>
  BY DEF TimerFires, Becomes
<1>3. /\ Sound(b, subs) /\ Calm(bus, b, subs, l) /\ Stills(bus, b) /\ Moves(bus, b, 0, 0, 1)
      /\ b.keys = bus.keys /\ b.cancelled = bus.cancelled /\ b.running = bus.running /\ b.fired = bus.fired
      /\ l \in subs
  BY <1>1, TimerOverFacts
<1>. HIDE DEF b
<1>4. b \in BusType /\ Line(b) /\ b.loop = bus.loop
  BY <1>1, <1>3, LineKept DEF Calm, Sound
<1>5. "timer" \in Via \ {"late"} /\ SlotOf("timer") = 0 /\ PendOf("timer") = 0 /\ HoldOf("timer") = - 1
  BY DEF Via, SlotOf, PendOf, HoldOf
<1>6. Settled(b, c, subs, l, "timer") /\ Grows(b, c, l, "timer") /\ (l \in app.once => Fewer(b, c) \/ l \in c.fired)
  <2>1. CASE cache = "on"
    <3>1. /\ Settled(b, Invoked(b, l, "timer"), subs, l, "timer") /\ Grows(b, Invoked(b, l, "timer"), l, "timer")
          /\ l \in app.once => l \in Invoked(b, l, "timer").fired
      BY <1>3, <1>5, InvokedFacts
    <3>. QED BY <2>1, <3>1
  <2>2. CASE cache # "on"
    <3>1. Settled(b, Ended(b, l, "timer"), subs, l, "timer") /\ Fewer(b, Ended(b, l, "timer"))
      BY <1>3, <1>5, EndedFacts
    <3>2. Ended(b, l, "timer") \in BusType
      BY <3>1 DEF Settled, Sound
    <3>3. Grows(b, Ended(b, l, "timer"), l, "timer")
      BY <1>4, <3>1, <3>2, FewerGrows
    <3>. QED BY <2>2, <3>1, <3>3
  <2>. QED BY <2>1, <2>2
<1>. HIDE DEF c
<1>7. /\ Sound(bus', subs) /\ Calm(b, bus', subs, l) /\ Stills(b, bus') /\ Moves(b, bus', 0, 0, - 1) /\ NamesKept(b, bus')
      /\ Grows(b, bus', l, "timer") /\ (l \in app.once => Fewer(b, bus') \/ l \in bus'.fired)
  BY <1>2, <1>5, <1>6 DEF Settled
<1>8. Moves(bus, b, - 0, - 0, - (- 1))
  BY <1>3
<1>9. Stills(bus, bus') /\ Calm(bus, bus', subs, l)
  BY <1>1, <1>3, <1>7, CalmTrans DEF Stills
<1>10. \A m \in Listeners : Hold(bus', cache, m)
  BY <1>1, <1>9, HoldKept DEF Stills
<1>11. \A m \in Listeners : \A w \in Via : bus'.running[m][w] > bus.running[m][w] /\ m \in app.once => m \in bus'.fired
  <2>1. bus' \in BusType
    BY <1>7 DEF Sound
  <2>2. Fewer(b, bus') => \A m \in Listeners : \A w \in Via : ~(bus'.running[m][w] > b.running[m][w])
    BY <1>4, <2>1, NoMore
  <2>. QED BY <1>3, <1>7, <2>2 DEF Grows
<1>12. \A m \in Listeners : \A w \in Via : bus'.running[m][w] > bus.running[m][w] <=> bus'.running[m][w] > b.running[m][w]
  BY <1>3
<1>13. - 1 \in Int /\ 0 \in Int
  OBVIOUS
<1>14. ran' = ran \cup {m \in Listeners : \E v \in Via : bus'.running[m][v] > bus.running[m][v]}
  BY <1>2
<1>. QED BY <1>2, <1>3, <1>4, <1>7, <1>8, <1>10, <1>11, <1>13, <1>14, FromKept

\* A debounce sleep is over.
LEMMA DelayElapsesKept ==
  ASSUME BusInv, NEW l \in Listeners, DelayElapses(l)
  PROVE  BusInv'
<1>. DEFINE d == bus.delayed \ {l}
            h == bus.shut
            b == WaitOver(bus, d, h)
            c == Guarded(b, l, "late")
<1>1. /\ Sound(bus, subs) /\ bus \in BusType /\ l \in bus.delayed /\ app \in Scenarios
  BY DEF BusInv, Sound, DelayElapses, Around
<1>2. [bus EXCEPT !.delayed = @ \ {l}] = b
  BY <1>1 DEF BusType, WaitOver
<1>3. /\ bus' = c /\ ran' = ran \cup {m \in Listeners : \E v \in Via : c.running[m][v] > bus.running[m][v]}
      /\ UNCHANGED <<app, home, sent, stream, cache, adding, subs, gone>>
  BY <1>2 DEF DelayElapses, Becomes
<1>4. d \in SUBSET bus.delayed /\ h \in SUBSET bus.shut
  OBVIOUS
<1>. HIDE DEF d, h
<1>5. /\ Sound(b, subs) /\ Calm(bus, b, subs, l) /\ Stills(bus, b) /\ Moves(bus, b, 0, 0, 0)
      /\ b.keys = bus.keys /\ b.cancelled = bus.cancelled /\ b.running = bus.running /\ b.fired = bus.fired
      /\ b.delayed = d
  <2>1. Waited(bus, b, subs, d, l)
    BY <1>1, <1>4, WaitOverFacts
  <2>. HIDE DEF b
  <2>. QED BY <2>1 DEF Waited
<1>6. l \in subs /\ (l \in app.parallel => bus.running[l]["late"] = 0)
  BY <1>1 DEF Sound, Used, OneLate
<1>7. l \notin app.once
  <2>1. l \in app.debounced
    BY <1>1, TypeFacts
  <2>. QED BY <1>1, <2>1, BusAssumption
<1>8. "late" \in Via /\ SlotOf("late") = 0 /\ PendOf("late") = 0 /\ HoldOf("late") = 0
  BY DEF Via, SlotOf, PendOf, HoldOf
<1>9. l \notin b.delayed /\ (l \in app.parallel => b.running[l]["late"] = 0)
  BY <1>5, <1>6 DEF d
<1>. HIDE DEF b
<1>10. Settled(b, c, subs, l, "late") /\ Grows(b, c, l, "late")
  BY <1>5, <1>6, <1>8, <1>9, GuardedFacts
<1>. HIDE DEF c
<1>11. /\ Sound(bus', subs) /\ Calm(b, bus', subs, l) /\ Stills(b, bus') /\ Moves(b, bus', 0, 0, 0) /\ NamesKept(b, bus')
       /\ Grows(b, bus', l, "late")
  BY <1>3, <1>8, <1>10 DEF Settled
<1>12. Calm(bus, bus', subs, l) /\ Stills(bus, bus')
  BY <1>1, <1>5, <1>11, CalmTrans DEF Stills
<1>13. Moves(bus, bus', 0, 0, 0)
  BY <1>1, <1>5, <1>11, SumTypes DEF Moves
<1>14. NamesKept(bus, bus')
  BY <1>5, <1>11 DEF NamesKept, Named
<1>15. \A m \in Listeners : \A w \in Via : bus'.running[m][w] > bus.running[m][w] /\ m \in app.once => m \in bus'.fired
  BY <1>5, <1>7, <1>11 DEF Grows
<1>16. ran' = ran \cup {m \in Listeners : \E v \in Via : bus'.running[m][v] > bus.running[m][v]}
  BY <1>3
<1>. QED BY <1>3, <1>6, <1>11, <1>12, <1>13, <1>14, <1>15, <1>16, DirectKept

\* A throttle window is over.
LEMMA WindowEndsKept ==
  ASSUME BusInv, NEW l \in Listeners, WindowEnds(l)
  PROVE  BusInv'
<1>. DEFINE d == bus.delayed
            h == bus.shut \ {l}
            b == WaitOver(bus, d, h)
<1>1. /\ Sound(bus, subs) /\ bus \in BusType /\ Line(bus) /\ \A m \in Listeners : Hold(bus, cache, m)
  BY DEF BusInv, Sound
<1>2. [bus EXCEPT !.shut = @ \ {l}] = b
  BY <1>1 DEF BusType, WaitOver
<1>3. /\ bus' = b /\ ran' = ran \cup {m \in Listeners : \E v \in Via : b.running[m][v] > bus.running[m][v]}
      /\ UNCHANGED <<app, home, sent, stream, cache, adding, subs, gone>>
  BY <1>2 DEF WindowEnds, Becomes
<1>4. d \in SUBSET bus.delayed /\ h \in SUBSET bus.shut
  OBVIOUS
<1>. HIDE DEF d, h
<1>5. /\ Sound(b, subs) /\ Calm(bus, b, subs, l) /\ Stills(bus, b) /\ Moves(bus, b, 0, 0, 0)
      /\ b.keys = bus.keys /\ b.cancelled = bus.cancelled /\ b.running = bus.running /\ b.fired = bus.fired
  <2>1. Waited(bus, b, subs, d, l)
    BY <1>1, <1>4, WaitOverFacts
  <2>. HIDE DEF b
  <2>. QED BY <2>1 DEF Waited
<1>. HIDE DEF b
<1>6. /\ Sound(bus', subs) /\ Calm(bus, bus', subs, l) /\ Stills(bus, bus') /\ Moves(bus, bus', 0, 0, 0)
      /\ bus'.keys = bus.keys /\ bus'.cancelled = bus.cancelled /\ bus'.running = bus.running /\ bus'.fired = bus.fired
  BY <1>3, <1>5
<1>7. Line(bus')
  BY <1>1, <1>6, LineKept DEF Calm
<1>8. \A m \in Listeners : Hold(bus', cache, m)
  BY <1>1, <1>6, HoldKept DEF Stills
<1>9. Balanced(bus')
  <2>1. SlotSum(bus) = app.slots /\ PendSum(bus) = 0 /\ HoldSum(bus) = 0 /\ SlotSum(bus) \in Int
    BY <1>1, SumTypes DEF BusInv, Balanced
  <2>. QED BY <1>6, <2>1 DEF Moves, Balanced
<1>10. Named(bus', subs \cup Registering)
  BY <1>6 DEF BusInv, Named
<1>11. \A m \in Listeners : \A w \in Via : ~(bus'.running[m][w] > bus.running[m][w])
  <2>1. \A m \in Listeners : \A w \in Via : bus.running[m][w] \in Nat
    BY <1>1, TypeFacts DEF RunningType
  <2>. QED BY <1>6, <2>1
<1>12. cache' \in States /\ \A m \in Listeners : Hold(bus', cache', m)
  <2>1. cache' = cache /\ cache \in States
    BY <1>3 DEF BusInv, Around
  <2>. QED BY <1>8, <2>1
<1>13. bus'.loop = bus.loop
  BY <1>6 DEF Calm
<1>14. ran' = ran \cup {m \in Listeners : \E v \in Via : bus'.running[m][v] > bus.running[m][v]}
  BY <1>3
<1>. QED BY <1>3, <1>6, <1>7, <1>9, <1>10, <1>11, <1>12, <1>13, <1>14, StepKept

\* The task that was next has started, and b is left.
Behind(b) ==
    /\ b \in BusType /\ Sound(b, subs) /\ Line(b) /\ Current \in TaskType /\ TaskOK(Current, subs)
    /\ b.keys = bus.keys /\ b.cancelled = bus.cancelled /\ b.fired = bus.fired /\ b.running = bus.running
    /\ b.timer = bus.timer /\ b.delayed = bus.delayed /\ b.left = bus.left /\ b.pending = bus.pending
    /\ b.loop = bus.loop /\ b.slots = bus.slots /\ b.routes = bus.routes
    /\ Moves(bus, b, - Bit(Current.kind \in FanOut), Bit(Current.kind \in FanOut \cup {"immediate", "settled"}), 0)
    /\ \A m \in Listeners : (Current.kind \in {"main", "cancel"} => Current.l # m) => Hold(b, cache, m)
    /\ \A s : Pending(b, s) => Pending(bus, s)
    /\ \A s : s # Current => (Pending(b, s) <=> Pending(bus, s))

LEMMA BehindFacts ==
  ASSUME BusInv, bus.ready # <<>>
  PROVE  Behind(Started(bus))
<1>. DEFINE b == Started(bus)
            t == Head(bus.ready)
<1>1. Sound(bus, subs) /\ Line(bus) /\ \A m \in Listeners : Hold(bus, cache, m)
  BY DEF BusInv
<1>2. /\ Sound(b, subs) /\ t \in TaskType /\ TaskOK(t, subs)
      /\ Moves(bus, b, - Bit(t.kind \in FanOut), Bit(t.kind \in FanOut \cup {"immediate", "settled"}), 0)
      /\ b.keys = bus.keys /\ b.cancelled = bus.cancelled /\ b.routes = bus.routes /\ b.running = bus.running
      /\ b.fired = bus.fired /\ b.timer = bus.timer /\ b.delayed = bus.delayed /\ b.left = bus.left
      /\ b.pending = bus.pending /\ b.slots = bus.slots /\ b.loop = bus.loop
      /\ Line(bus) => Line(b)
      /\ \A s : s # t => (Pending(b, s) <=> Pending(bus, s))
      /\ \A s : Pending(b, s) => Pending(bus, s)
  BY <1>1, StartedFacts
<1>3. ASSUME NEW m \in Listeners, t.kind \in {"main", "cancel"} => t.l # m PROVE Hold(b, cache, m)
  BY <1>1, <1>3, HoldStarted
<1>4. b \in BusType
  BY <1>2 DEF Sound
<1>. HIDE DEF b
<1>5. Current = t
  BY DEF Current
<1>. HIDE DEF t
<1>6. Behind(b)
  BY <1>1, <1>2, <1>3, <1>4, <1>5 DEF Behind
<1>. QED BY <1>6 DEF b

\* The handler in flight is cut short.
LEMMA RunReleaseKept ==
  ASSUME BusInv, RunRelease
  PROVE  BusInv'
<1>. DEFINE b == Started(bus)
            l == Current.l
            cut == {v \in Via : b.running[l][v] > 0}
            v == CHOOSE x \in cut : TRUE
            c == IF cut = {} THEN b ELSE Ended([b EXCEPT !.running[l][v] = @ - 1], l, v)
<1>1. bus.ready # <<>> /\ Current.kind = "release" /\ bus \in BusType
  BY DEF RunRelease, Running, Current, BusInv, Sound
<1>2. Behind(b)
  BY <1>1, BehindFacts
<1>3. /\ bus' = c /\ ran' = ran \cup {m \in Listeners : \E w \in Via : c.running[m][w] > bus.running[m][w]}
      /\ UNCHANGED <<app, home, sent, stream, cache, adding, subs, gone>>
  BY DEF RunRelease, Becomes
<1>. HIDE DEF b
<1>4. l \in Listeners /\ Moves(bus, b, 0, 0, 0) /\ (\A m \in Listeners : Hold(b, cache, m))
  <2>1. Bit("release" \in FanOut) = 0 /\ Bit("release" \in FanOut \cup {"immediate", "settled"}) = 0
    BY DEF Bit, FanOut
  <2>2. Moves(bus, b, - 0, 0, 0)
    BY <1>1, <1>2, <2>1 DEF Behind
  <2>3. Moves(bus, b, 0, 0, 0)
    BY <1>1, <2>2, SumTypes DEF Moves
  <2>. QED BY <1>1, <1>2, <2>3 DEF Behind, TaskOK
<1>. HIDE DEF l
<1>5. CASE cut = {}
  <2>1. c = b
    BY <1>5
  <2>2. bus' = b
    BY <1>3, <2>1
  <2>3. Balanced(bus')
    <3>1. SlotSum(bus) = app.slots /\ PendSum(bus) = 0 /\ HoldSum(bus) = 0 /\ SlotSum(bus) \in Int
      BY <1>1, SumTypes DEF BusInv, Balanced
    <3>. QED BY <1>4, <2>2, <3>1 DEF Moves, Balanced
  <2>4. Named(bus', subs \cup Registering)
    BY <1>2, <2>2 DEF BusInv, Named, Behind
  <2>5. \A m \in Listeners : \A w \in Via : ~(bus'.running[m][w] > bus.running[m][w])
    <3>1. \A m \in Listeners : \A w \in Via : bus.running[m][w] \in Nat
      BY <1>1, TypeFacts DEF RunningType
    <3>. QED BY <1>2, <2>2, <3>1 DEF Behind
  <2>6. cache' \in States /\ \A m \in Listeners : Hold(bus', cache', m)
    <3>1. cache' = cache /\ cache \in States
      BY <1>3 DEF BusInv, Around
    <3>. QED BY <1>4, <2>2, <3>1
  <2>7. Sound(bus', subs) /\ Line(bus') /\ bus'.cancelled = bus.cancelled /\ bus'.loop = bus.loop /\ bus'.fired = bus.fired
    BY <1>2, <2>2 DEF Behind
  <2>8. ran' = ran \cup {m \in Listeners : \E w \in Via : bus'.running[m][w] > bus.running[m][w]}
    BY <1>3
  <2>. QED BY <1>3, <2>3, <2>4, <2>5, <2>6, <2>7, <2>8, StepKept
<1>6. CASE cut # {}
  <2>. DEFINE o == b.owed
              d == Ended([b EXCEPT !.running[l][v] = @ - 1, !.owed = o], l, v)
  <2>1. v \in Via /\ b.running[l][v] > 0 /\ c = Ended([b EXCEPT !.running[l][v] = @ - 1], l, v)
    BY <1>6
  <2>. HIDE DEF v
  <2>2. b \in BusType /\ o \in SUBSET app.debounced
    BY <1>2, TypeFacts DEF Behind
  <2>3. c = d
    BY <2>1, <2>2 DEF BusType
  <2>. HIDE DEF o, c
  <2>4. /\ Sound(d, subs) /\ Calm(b, d, subs, l) /\ Stills(b, d) /\ Fewer(b, d) /\ Moves(b, d, 0, 0, 0)
        /\ NamesKept(b, d) /\ l \in subs
    BY <1>2, <1>4, <2>1, <2>2, FinishedFacts DEF Behind
  <2>. HIDE DEF d
  <2>5. /\ Sound(bus', subs) /\ Calm(b, bus', subs, l) /\ Stills(b, bus') /\ Fewer(b, bus') /\ Moves(b, bus', 0, 0, 0)
        /\ NamesKept(b, bus')
    BY <1>3, <2>3, <2>4
  <2>6. \A m \in Listeners : \A w \in Via : ~(bus'.running[m][w] > bus.running[m][w])
    <3>1. bus' \in BusType
      BY <2>5 DEF Sound
    <3>2. \A m \in Listeners : \A w \in Via : ~(bus'.running[m][w] > b.running[m][w])
      BY <2>2, <2>5, <3>1, NoMore
    <3>. QED BY <1>2, <3>2 DEF Behind
  <2>7. \A m \in Listeners : Hold(bus', cache, m)
    BY <1>4, <2>2, <2>5, HoldKept DEF Stills
  <2>8. Moves(bus, b, - 0, - 0, - 0)
    BY <1>4
  <2>9. ran' = ran \cup {m \in Listeners : \E w \in Via : bus'.running[m][w] > bus.running[m][w]}
    BY <1>3
  <2>10. /\ Sound(b, subs) /\ Line(b) /\ b.keys = bus.keys /\ b.cancelled = bus.cancelled /\ b.fired = bus.fired
         /\ b.running = bus.running /\ b.loop = bus.loop
    BY <1>2 DEF Behind
  <2>. QED BY <1>3, <2>4, <2>5, <2>6, <2>7, <2>8, <2>9, <2>10, FromKept
<1>. QED BY <1>5, <1>6

\* The task of b about l ends in d, and its done-callback is ready.
LEMMA OverFacts ==
  ASSUME NEW b \in BusType, NEW d, NEW S, NEW l, Sound(d, S), Calm(b, d, S, l), Moves(b, d, 0, 0, 0), NamesKept(b, d),
         NEW kind \in {"done", "settled"}
  PROVE  LET c == Enqueue(d, Task(kind, None, None))
         IN  /\ Sound(c, S) /\ Calm(b, c, S, l) /\ Moves(b, c, IF kind = "done" THEN 1 ELSE 0, - 1, 0) /\ NamesKept(b, c)
             /\ c.timer = d.timer /\ c.left = d.left /\ c.cancelled = d.cancelled /\ c.running = d.running
             /\ c.fired = d.fired
<1>. DEFINE t == Task(kind, None, None)
            c == Enqueue(d, t)
            x == IF kind = "done" THEN 1 ELSE 0
<1>1. t \in TaskType /\ t.kind \in Others /\ TaskOK(t, S) /\ t.kind = kind
  BY DEF Task, TaskType, Kinds, Others, TaskOK, Pipe
<1>2. Bit(t.kind \in FanOut) = x /\ Bit(t.kind \in FanOut \cup {"immediate", "settled"}) = 1
  BY <1>1 DEF Bit, FanOut
<1>3. x \in Int
  OBVIOUS
<1>. HIDE DEF t, x
<1>4. /\ Sound(c, S) /\ Calm(d, c, S, l)
      /\ Moves(d, c, Bit(t.kind \in FanOut), - Bit(t.kind \in FanOut \cup {"immediate", "settled"}), 0)
      /\ c.keys = d.keys /\ c.cancelled = d.cancelled /\ c.routes = d.routes /\ c.running = d.running
      /\ c.fired = d.fired /\ c.timer = d.timer /\ c.delayed = d.delayed /\ c.left = d.left
  BY <1>1, EnqueueFacts
<1>. HIDE DEF c
<1>5. Calm(b, c, S, l)
  BY <1>4, CalmTrans
<1>6. Moves(b, c, x, - 1, 0)
  <2>1. Moves(d, c, x, - 1, 0)
    BY <1>2, <1>4
  <2>2. SlotSum(b) \in Int /\ PendSum(b) \in Int /\ HoldSum(b) \in Int
    BY SumTypes
  <2>. QED BY <1>3, <2>1, <2>2 DEF Moves
<1>7. NamesKept(b, c)
  BY <1>4 DEF NamesKept, Named
<1>. QED BY <1>4, <1>5, <1>6, <1>7 DEF c, t, x

\* What a task about l leaves.
Handled(b, c, l, s) ==
    /\ Sound(c, subs) /\ Calm(b, c, subs, l) /\ Moves(b, c, s, - 1, 0) /\ NamesKept(b, c)
    /\ \A m \in Listeners : Hold(c, cache, m)
    /\ \A m \in Listeners : \A w \in Via : c.running[m][w] > b.running[m][w] /\ m \in app.once => m \in c.fired

\* A listener's task starts its timer, or runs the handler.
LEMMA RunMainKept ==
  ASSUME BusInv, RunMain
  PROVE  BusInv'
<1>. DEFINE b == Started(bus)
            t == Current
            l == t.l
            d == IF l \in b.cancelled THEN b ELSE TimerStarted(b, l)
            e == Enqueue(d, Task("done", None, None))
            i == Invoked(b, l, "slot")
            c == IF l \notin app.held THEN i ELSE e
<1>1. bus.ready # <<>> /\ t.kind = "main" /\ bus \in BusType /\ t = Head(bus.ready) /\ Line(bus) /\ Sound(bus, subs)
  BY DEF RunMain, Running, Current, BusInv, Sound
<1>2. Behind(b)
  BY <1>1, BehindFacts
<1>3. /\ bus' = c /\ ran' = ran \cup {m \in Listeners : \E w \in Via : c.running[m][w] > bus.running[m][w]}
      /\ UNCHANGED <<app, home, sent, stream, cache, adding, subs, gone>>
  BY DEF RunMain, Becomes
<1>. HIDE DEF b
<1>4. /\ b \in BusType /\ Sound(b, subs) /\ Line(b) /\ b.keys = bus.keys /\ b.cancelled = bus.cancelled
      /\ b.fired = bus.fired /\ b.running = bus.running /\ b.loop = bus.loop /\ b.timer = bus.timer
      /\ \A m \in Listeners \ {l} : Hold(b, cache, m)
      /\ \A s : Pending(b, s) => Pending(bus, s)
      /\ l \in subs /\ t.e \in Changes /\ Matches(l, t.e)
  BY <1>1, <1>2 DEF Behind, TaskOK, Pipe
<1>5. l \in Listeners /\ t.e.new = "on"
  BY <1>4 DEF BusInv, Around, Matches
<1>6. Moves(bus, b, - 1, - (- 1), - 0)
  <2>1. Bit(t.kind \in FanOut) = 1 /\ Bit(t.kind \in FanOut \cup {"immediate", "settled"}) = 1
    BY <1>1 DEF Bit, FanOut
  <2>2. Moves(bus, b, - 1, 1, 0)
    BY <1>2, <2>1 DEF Behind
  <2>. QED BY <1>1, <2>2, SumTypes DEF Moves
<1>7. \A f : Pending(b, Task("proxy", None, f)) => f.new = "on"
  <2>. SUFFICES ASSUME NEW f, Pending(b, Task("proxy", None, f)) PROVE f.new = "on"
    OBVIOUS
  <2>1. Pending(bus, Task("proxy", None, f))
    BY <1>4
  <2>2. t.kind \in Pipe
    BY <1>1 DEF Pipe
  <2>3. t.e = f
    BY <1>1, <2>1, <2>2, SameEvent
  <2>. QED BY <1>5, <2>3
<1>8. ASSUME l \notin app.held PROVE Handled(b, c, l, 1)
  <2>1. "slot" \in Via \ {"late"} /\ SlotOf("slot") = 1 /\ PendOf("slot") = - 1 /\ HoldOf("slot") = 0
    BY DEF Via, SlotOf, PendOf, HoldOf
  <2>2. Settled(b, i, subs, l, "slot") /\ Grows(b, i, l, "slot") /\ (l \in app.once => l \in i.fired)
    BY <1>4, <1>5, <2>1, InvokedFacts
  <2>. HIDE DEF i
  <2>3. \A m \in Listeners : Hold(i, cache, m)
    <3>1. \A m \in Listeners \ {l} : Hold(i, cache, m)
      BY <1>4, <2>2, HoldKept DEF Settled, Stills
    <3>2. i.timer[l] # "sleeping"
      BY <1>4, <1>5, <1>8, <2>2 DEF Settled, Stills, Sound, Used
    <3>3. Hold(i, cache, l)
      BY <3>2 DEF Hold
    <3>. QED BY <3>1, <3>3
  <2>4. \A m \in Listeners : \A w \in Via : i.running[m][w] > b.running[m][w] /\ m \in app.once => m \in i.fired
    BY <2>2 DEF Grows
  <2>5. Handled(b, i, l, 1)
    BY <2>1, <2>2, <2>3, <2>4 DEF Settled, Handled
  <2>6. c = i
    BY <1>8
  <2>. HIDE DEF c
  <2>. QED BY <2>5, <2>6
<1>9. ASSUME l \in app.held PROVE Handled(b, c, l, 1)
  <2>1. /\ Sound(d, subs) /\ Calm(b, d, subs, l) /\ Moves(b, d, 0, 0, 0) /\ NamesKept(b, d)
        /\ \A m \in Listeners \ {l} : d.timer[m] = b.timer[m]
        /\ d.running = b.running /\ (l \in d.cancelled \/ l \notin d.left)
    <3>1. CASE l \in b.cancelled
      <4>1. Calm(b, b, subs, l)
        BY <1>4, LaterSame DEF Calm
      <4>. QED BY <1>4, <3>1, <4>1, SumTypes DEF Moves, NamesKept
    <3>2. CASE l \notin b.cancelled
      <4>1. LET x == TimerStarted(b, l)
            IN  /\ Sound(x, subs) /\ Calm(b, x, subs, l) /\ Moves(b, x, 0, 0, 0)
                /\ l \notin x.left
                /\ \A m \in Listeners \ {l} : x.timer[m] = b.timer[m]
                /\ x.keys = b.keys /\ x.ready = b.ready /\ x.running = b.running /\ x.cancelled = b.cancelled
                /\ x.fired = b.fired
        BY <1>4, <1>5, <1>9, TimerStartedFacts
      <4>2. d = TimerStarted(b, l)
        BY <3>2
      <4>. HIDE DEF d
      <4>. QED BY <4>1, <4>2, NamesSame
    <3>. QED BY <3>1, <3>2
  <2>. HIDE DEF d
  <2>2. /\ Sound(e, subs) /\ Calm(b, e, subs, l) /\ Moves(b, e, 1, - 1, 0) /\ NamesKept(b, e)
        /\ e.timer = d.timer /\ e.left = d.left /\ e.cancelled = d.cancelled /\ e.running = d.running
        /\ e.fired = d.fired
    BY <1>4, <2>1, OverFacts
  <2>. HIDE DEF e
  <2>3. \A m \in Listeners \ {l} : Hold(e, cache, m)
    BY <1>4, <2>1, <2>2, HoldKept
  <2>4. Hold(e, cache, l)
    <3>1. \A f : Pending(e, Task("proxy", None, f)) => f.new = "on"
      <4>1. \A f : Task("proxy", None, f).kind \in Pipe
        BY DEF Task, Pipe
      <4>2. \A f : Pending(e, Task("proxy", None, f)) => Pending(b, Task("proxy", None, f))
        BY <1>4, <2>2, <4>1, PendingKept DEF Calm
      <4>. QED BY <1>7, <4>2
    <3>. QED BY <2>1, <2>2, <3>1 DEF Hold
  <2>5. \A m \in Listeners : \A w \in Via : ~(e.running[m][w] > b.running[m][w])
    <3>1. \A m \in Listeners : \A w \in Via : b.running[m][w] \in Nat
      BY <1>4, TypeFacts DEF RunningType
    <3>. QED BY <2>1, <2>2, <3>1
  <2>6. \A m \in Listeners : Hold(e, cache, m)
    BY <2>3, <2>4
  <2>7. Handled(b, e, l, 1)
    BY <2>2, <2>5, <2>6 DEF Handled
  <2>8. c = e
    BY <1>9
  <2>. HIDE DEF c
  <2>. QED BY <2>7, <2>8
<1>10. Handled(b, c, l, 1)
  BY <1>8, <1>9
<1>. HIDE DEF c
<1>11. /\ Sound(bus', subs) /\ Calm(b, bus', subs, l) /\ Moves(b, bus', 1, - 1, 0) /\ NamesKept(b, bus')
       /\ \A m \in Listeners : Hold(bus', cache, m)
       /\ \A m \in Listeners : \A w \in Via : bus'.running[m][w] > bus.running[m][w] /\ m \in app.once => m \in bus'.fired
       /\ ran' = ran \cup {m \in Listeners : \E w \in Via : bus'.running[m][w] > bus.running[m][w]}
  BY <1>3, <1>4, <1>10 DEF Handled
<1>12. 1 \in Int /\ - 1 \in Int /\ 0 \in Int
  OBVIOUS
<1>. HIDE DEF l
<1>. QED BY <1>3, <1>4, <1>6, <1>11, <1>12, FromKept

\* A timer's cancel listener hears of an event.
LEMMA RunCancelKept ==
  ASSUME BusInv, RunCancel
  PROVE  BusInv'
<1>. DEFINE b == Started(bus)
            t == Current
            l == t.l
            d == IF StillHeld(t.e) THEN b ELSE TimerCancelled(b, l)
            c == Enqueue(d, Task("done", None, None))
<1>1. bus.ready # <<>> /\ t.kind = "cancel" /\ bus \in BusType /\ t = Head(bus.ready) /\ Line(bus) /\ Sound(bus, subs)
      /\ \A m \in Listeners : Hold(bus, cache, m)
  BY DEF RunCancel, Running, Current, BusInv, Sound
<1>2. Behind(b)
  BY <1>1, BehindFacts
<1>3. /\ bus' = c /\ ran' = ran \cup {m \in Listeners : \E w \in Via : c.running[m][w] > bus.running[m][w]}
      /\ UNCHANGED <<app, home, sent, stream, cache, adding, subs, gone>>
  BY DEF RunCancel, Becomes
<1>. HIDE DEF b
<1>4. /\ b \in BusType /\ Sound(b, subs) /\ Line(b) /\ b.keys = bus.keys /\ b.cancelled = bus.cancelled
      /\ b.fired = bus.fired /\ b.running = bus.running /\ b.loop = bus.loop /\ b.timer = bus.timer /\ b.left = bus.left
      /\ \A m \in Listeners \ {l} : Hold(b, cache, m)
      /\ \A s : Pending(b, s) => Pending(bus, s)
      /\ \A s : s # t => (Pending(b, s) <=> Pending(bus, s))
      /\ l \in subs
  BY <1>1, <1>2 DEF Behind, TaskOK
<1>5. l \in Listeners
  BY <1>4 DEF BusInv, Around
<1>6. Moves(bus, b, - 1, - (- 1), - 0)
  <2>1. Bit(t.kind \in FanOut) = 1 /\ Bit(t.kind \in FanOut \cup {"immediate", "settled"}) = 1
    BY <1>1 DEF Bit, FanOut
  <2>2. Moves(bus, b, - 1, 1, 0)
    BY <1>2, <2>1 DEF Behind
  <2>. QED BY <1>1, <2>2, SumTypes DEF Moves
<1>7. ASSUME NEW f, Pending(b, Task("proxy", None, f)) PROVE f = t.e
  <2>1. Pending(bus, Task("proxy", None, f))
    BY <1>4, <1>7
  <2>2. t.kind \in Pipe
    BY <1>1 DEF Pipe
  <2>. QED BY <1>1, <2>1, <2>2, SameEvent
<1>8. /\ Sound(d, subs) /\ Calm(b, d, subs, l) /\ Moves(b, d, 0, 0, 0) /\ NamesKept(b, d) /\ Stills(b, d)
      /\ d.running = b.running /\ (StillHeld(t.e) => d = b) /\ (~StillHeld(t.e) => d.timer[l] = "none")
  <2>1. CASE StillHeld(t.e)
    <3>1. Calm(b, b, subs, l)
      BY <1>4, LaterSame DEF Calm
    <3>. QED BY <1>4, <2>1, <3>1, SumTypes DEF Moves, NamesKept, Stills
  <2>2. CASE ~StillHeld(t.e)
    <3>1. LET x == TimerCancelled(b, l)
          IN  /\ Sound(x, subs) /\ Calm(b, x, subs, l) /\ Stills(b, x) /\ Moves(b, x, 0, 0, 0)
              /\ x.timer[l] = "none" /\ ~On(x.routes, "cancel", l)
              /\ \A m : On(x.routes, "main", m) <=> On(b.routes, "main", m)
              /\ \A m \in Listeners \ {l} : x.timer[m] = b.timer[m]
              /\ x.keys = b.keys /\ x.ready = b.ready /\ x.running = b.running /\ x.cancelled = b.cancelled
              /\ x.fired = b.fired /\ x.delayed = b.delayed /\ x.left = b.left
      BY <1>4, <1>5, TimerCancelledFacts
    <3>2. d = TimerCancelled(b, l)
      BY <2>2
    <3>. HIDE DEF d
    <3>. QED BY <2>2, <3>1, <3>2, NamesSame
  <2>. QED BY <2>1, <2>2
<1>. HIDE DEF d
<1>9. /\ Sound(c, subs) /\ Calm(b, c, subs, l) /\ Moves(b, c, 1, - 1, 0) /\ NamesKept(b, c)
      /\ c.timer = d.timer /\ c.left = d.left /\ c.cancelled = d.cancelled /\ c.running = d.running
      /\ c.fired = d.fired
  BY <1>4, <1>8, OverFacts
<1>. HIDE DEF c
<1>10. \A m \in Listeners \ {l} : Hold(c, cache, m)
  BY <1>4, <1>8, <1>9, HoldKept DEF Stills
<1>11. Hold(c, cache, l)
  <2>1. CASE StillHeld(t.e)
    <3>1. Hold(b, cache, l)
      <4>1. \A f : Pending(b, Task("proxy", None, f)) => f.new = "on" /\ Pending(bus, Task("proxy", None, f))
        BY <1>4, <1>7, <2>1 DEF StillHeld
      <4>2. \A f : Task("main", l, f) # t
        BY <1>1 DEF Task
      <4>3. \A f : Pending(bus, Task("main", l, f)) => Pending(b, Task("main", l, f))
        BY <1>4, <4>2
      <4>. QED BY <1>1, <1>4, <1>5, <4>1, <4>3 DEF Hold
    <3>2. c.timer[l] = "sleeping" => b.timer[l] = "sleeping"
      BY <1>8, <1>9, <2>1
    <3>. QED BY <1>4, <1>5, <1>9, <3>1, <3>2, HoldKept
  <2>2. CASE ~StillHeld(t.e)
    BY <1>8, <1>9, <2>2 DEF Hold
  <2>. QED BY <2>1, <2>2
<1>12. \A m \in Listeners : \A w \in Via : ~(c.running[m][w] > bus.running[m][w])
  <2>1. \A m \in Listeners : \A w \in Via : bus.running[m][w] \in Nat
    BY <1>1, TypeFacts DEF RunningType
  <2>. QED BY <1>4, <1>8, <1>9, <2>1
<1>13. /\ Sound(bus', subs) /\ Calm(b, bus', subs, l) /\ Moves(b, bus', 1, - 1, 0) /\ NamesKept(b, bus')
       /\ \A m \in Listeners : Hold(bus', cache, m)
       /\ \A m \in Listeners : \A w \in Via : bus'.running[m][w] > bus.running[m][w] /\ m \in app.once => m \in bus'.fired
       /\ ran' = ran \cup {m \in Listeners : \E w \in Via : bus'.running[m][w] > bus.running[m][w]}
  BY <1>3, <1>9, <1>10, <1>11, <1>12
<1>14. 1 \in Int /\ - 1 \in Int /\ 0 \in Int
  OBVIOUS
<1>. HIDE DEF l
<1>. QED BY <1>3, <1>4, <1>6, <1>13, <1>14, FromKept

\* The state is compared with what an immediate listener asks for.
LEMMA RunImmediateKept ==
  ASSUME BusInv, RunImmediate
  PROVE  BusInv'
<1>. DEFINE b == Started(bus)
            t == Current
            l == t.l
            i == Invoked(b, l, "now")
            d == TimerStarted(b, l)
            e == Enqueue(d, Task("settled", None, None))
            n == Enqueue(b, Task("settled", None, None))
<1>1. bus.ready # <<>> /\ t.kind = "immediate" /\ bus \in BusType
  BY DEF RunImmediate, Running, Current, BusInv, Sound
<1>2. Behind(b)
  BY <1>1, BehindFacts
<1>3. PICK elapsed \in BOOLEAN :
         Becomes(IF ~Matches(l, [old |-> None, new |-> cache]) THEN n
                 ELSE IF l \notin app.held \/ elapsed THEN i ELSE e)
  BY DEF RunImmediate
<1>. DEFINE c == IF ~Matches(l, [old |-> None, new |-> cache]) THEN n
                 ELSE IF l \notin app.held \/ elapsed THEN i ELSE e
<1>4. /\ bus' = c /\ ran' = ran \cup {m \in Listeners : \E w \in Via : c.running[m][w] > bus.running[m][w]}
      /\ UNCHANGED <<app, home, sent, stream, cache, adding, subs, gone>>
  BY <1>3 DEF RunImmediate, Becomes
<1>. HIDE DEF b
<1>5. /\ b \in BusType /\ Sound(b, subs) /\ Line(b) /\ b.keys = bus.keys /\ b.cancelled = bus.cancelled
      /\ b.fired = bus.fired /\ b.running = bus.running /\ b.loop = bus.loop
      /\ \A m \in Listeners : Hold(b, cache, m)
      /\ l \in subs /\ l \in app.immediate
  BY <1>1, <1>2 DEF Behind, TaskOK
<1>6. l \in Listeners
  BY <1>5 DEF BusInv, Around
<1>7. Moves(bus, b, - 0, - (- 1), - 0)
  <2>1. Bit(t.kind \in FanOut) = 0 /\ Bit(t.kind \in FanOut \cup {"immediate", "settled"}) = 1
    BY <1>1 DEF Bit, FanOut
  <2>2. Moves(bus, b, - 0, 1, 0)
    BY <1>2, <2>1 DEF Behind
  <2>. QED BY <1>1, <2>2, SumTypes DEF Moves
<1>8. \A m \in Listeners : \A w \in Via : b.running[m][w] \in Nat
  BY <1>5, TypeFacts DEF RunningType
<1>9. Handled(b, n, l, 0)
  <2>1. Calm(b, b, subs, l) /\ Moves(b, b, 0, 0, 0) /\ NamesKept(b, b)
    BY <1>5, LaterSame, SumTypes DEF Calm, Moves, NamesKept
  <2>2. /\ Sound(n, subs) /\ Calm(b, n, subs, l) /\ Moves(b, n, 0, - 1, 0) /\ NamesKept(b, n)
        /\ n.timer = b.timer /\ n.left = b.left /\ n.cancelled = b.cancelled /\ n.running = b.running
        /\ n.fired = b.fired
    BY <1>5, <2>1, OverFacts
  <2>. HIDE DEF n
  <2>3. \A m \in Listeners : Hold(n, cache, m)
    BY <1>5, <2>2, HoldKept
  <2>4. \A m \in Listeners : \A w \in Via : ~(n.running[m][w] > b.running[m][w])
    BY <1>8, <2>2
  <2>. QED BY <2>2, <2>3, <2>4 DEF Handled
<1>10. Handled(b, i, l, 0)
  <2>1. "now" \in Via \ {"late"} /\ SlotOf("now") = 0 /\ PendOf("now") = - 1 /\ HoldOf("now") = 0
    BY DEF Via, SlotOf, PendOf, HoldOf
  <2>2. Settled(b, i, subs, l, "now") /\ Grows(b, i, l, "now") /\ (l \in app.once => l \in i.fired)
    BY <1>5, <1>6, <2>1, InvokedFacts
  <2>. HIDE DEF i
  <2>3. \A m \in Listeners : Hold(i, cache, m)
    BY <1>5, <2>2, HoldKept DEF Settled, Stills
  <2>4. \A m \in Listeners : \A w \in Via : i.running[m][w] > b.running[m][w] /\ m \in app.once => m \in i.fired
    BY <2>2 DEF Grows
  <2>. QED BY <2>1, <2>2, <2>3, <2>4 DEF Settled, Handled
<1>11. ASSUME l \in app.held PROVE Handled(b, e, l, 0)
  <2>1. /\ Sound(d, subs) /\ Calm(b, d, subs, l) /\ Moves(b, d, 0, 0, 0)
        /\ l \notin d.left
        /\ \A m \in Listeners \ {l} : d.timer[m] = b.timer[m]
        /\ d.keys = b.keys /\ d.ready = b.ready /\ d.running = b.running /\ d.cancelled = b.cancelled
        /\ d.fired = b.fired
    BY <1>5, <1>6, <1>11, TimerStartedFacts
  <2>. HIDE DEF d
  <2>2. NamesKept(b, d)
    BY <2>1, NamesSame
  <2>3. /\ Sound(e, subs) /\ Calm(b, e, subs, l) /\ Moves(b, e, 0, - 1, 0) /\ NamesKept(b, e)
        /\ e.timer = d.timer /\ e.left = d.left /\ e.cancelled = d.cancelled /\ e.running = d.running
        /\ e.fired = d.fired
    BY <1>5, <2>1, <2>2, OverFacts
  <2>. HIDE DEF e
  <2>4. \A m \in Listeners \ {l} : Hold(e, cache, m)
    BY <1>5, <2>1, <2>3, HoldKept
  <2>5. Hold(e, cache, l)
    BY <1>5, <2>1, <2>3 DEF Hold
  <2>6. \A m \in Listeners : Hold(e, cache, m)
    BY <2>4, <2>5
  <2>7. \A m \in Listeners : \A w \in Via : ~(e.running[m][w] > b.running[m][w])
    BY <1>8, <2>1, <2>3
  <2>. QED BY <2>3, <2>6, <2>7 DEF Handled
<1>12. Handled(b, c, l, 0)
  <2>1. ASSUME ~Matches(l, [old |-> None, new |-> cache]) PROVE Handled(b, c, l, 0)
    <3>1. c = n
      BY <2>1
    <3>. HIDE DEF c, n, l
    <3>. QED BY <1>9, <3>1
  <2>2. ASSUME Matches(l, [old |-> None, new |-> cache]), l \notin app.held \/ elapsed PROVE Handled(b, c, l, 0)
    <3>1. c = i
      BY <2>2
    <3>. HIDE DEF c, i, l
    <3>. QED BY <1>10, <3>1
  <2>3. ASSUME Matches(l, [old |-> None, new |-> cache]), ~(l \notin app.held \/ elapsed) PROVE Handled(b, c, l, 0)
    <3>1. c = e /\ l \in app.held
      BY <2>3
    <3>. HIDE DEF c, e, l
    <3>. QED BY <1>11, <3>1
  <2>. QED BY <2>1, <2>2, <2>3
<1>. HIDE DEF c
<1>13. /\ Sound(bus', subs) /\ Calm(b, bus', subs, l) /\ Moves(b, bus', 0, - 1, 0) /\ NamesKept(b, bus')
       /\ \A m \in Listeners : Hold(bus', cache, m)
       /\ \A m \in Listeners : \A w \in Via : bus'.running[m][w] > bus.running[m][w] /\ m \in app.once => m \in bus'.fired
       /\ ran' = ran \cup {m \in Listeners : \E w \in Via : bus'.running[m][w] > bus.running[m][w]}
  BY <1>4, <1>5, <1>12 DEF Handled
<1>14. - 1 \in Int /\ 0 \in Int
  OBVIOUS
<1>. HIDE DEF l
<1>. QED BY <1>4, <1>5, <1>7, <1>13, <1>14, FromKept

\* StateProxy applies the event, the last task about it.
LEMMA RunProxyKept ==
  ASSUME BusInv, RunProxy
  PROVE  BusInv'
<1>. DEFINE b == Started(bus)
            t == Current
            broken == {l \in Listeners : b.timer[l] = "sleeping" /\ t.e.new # "on"}
            f == b.left \cup broken
            d == [b EXCEPT !.left = f]
            dt == Task("done", None, None)
            c == Enqueue(d, dt)
<1>1. bus.ready # <<>> /\ t.kind = "proxy" /\ bus \in BusType /\ t = Head(bus.ready) /\ Line(bus) /\ Sound(bus, subs)
      /\ \A m \in Listeners : Hold(bus, cache, m)
  BY DEF RunProxy, Running, Current, BusInv, Sound
<1>2. Behind(b)
  BY <1>1, BehindFacts
<1>3. /\ bus' = c /\ ran' = ran \cup {m \in Listeners : \E w \in Via : c.running[m][w] > bus.running[m][w]}
      /\ UNCHANGED <<app, home, sent, stream, adding, subs, gone>> /\ cache' = t.e.new
  BY DEF RunProxy, Becomes
<1>4. \A s : s.kind \in Pipe => ~Pending(b, s)
  BY <1>1, ProxyGone
<1>. HIDE DEF b
<1>5. /\ b \in BusType /\ Sound(b, subs) /\ Line(b) /\ b.keys = bus.keys /\ b.cancelled = bus.cancelled
      /\ b.fired = bus.fired /\ b.running = bus.running /\ b.loop = bus.loop /\ b.timer = bus.timer /\ b.left = bus.left
      /\ t.e \in Changes /\ t.e.new \in States
  BY <1>1, <1>2 DEF Behind, TaskOK, Pipe, Changes
<1>6. t = Task("proxy", None, t.e)
  BY <1>1, <1>2 DEF Behind, TaskOK, TaskType, Task
<1>7. Moves(bus, b, - 1, 1, 0)
  <2>1. Bit(t.kind \in FanOut) = 1 /\ Bit(t.kind \in FanOut \cup {"immediate", "settled"}) = 1
    BY <1>1 DEF Bit, FanOut
  <2>. QED BY <1>2, <2>1 DEF Behind
<1>8. f \in SUBSET Listeners /\ \A m : m \in f <=> m \in bus.left \/ (m \in Listeners /\ bus.timer[m] = "sleeping" /\ t.e.new # "on")
  BY <1>5, TypeFacts
<1>. HIDE DEF f
<1>9. d \in BusType
  BY <1>5, <1>8 DEF BusType
<1>10. /\ d.keys = b.keys /\ d.cancelled = b.cancelled /\ d.routes = b.routes /\ d.running = b.running
       /\ d.fired = b.fired /\ d.timer = b.timer /\ d.left = f /\ d.loop = b.loop /\ d.slots = b.slots
       /\ d.pending = b.pending /\ d.holding = b.holding /\ d.delayed = b.delayed /\ d.ready = b.ready
  BY <1>5 DEF BusType
<1>. HIDE DEF d
<1>11. Sound(d, subs)
  BY <1>5, <1>9, <1>10 DEF Sound, Routed, Tasked, Used, OneLate
<1>12. Moves(b, d, 0, 0, 0)
  <2>1. SlotSum(d) = SlotSum(b) /\ PendSum(d) = PendSum(b) /\ HoldSum(d) = HoldSum(b)
    BY <1>10 DEF SlotSum, PendSum, HoldSum, Run, Asleep
  <2>. QED BY <1>5, <2>1, SumTypes DEF Moves
<1>13. dt \in TaskType /\ dt.kind \in Others /\ TaskOK(dt, subs) /\ dt.kind = "done"
  BY DEF dt, Task, TaskType, Kinds, Others, TaskOK, Pipe
<1>. HIDE DEF dt
<1>14. /\ Sound(c, subs) /\ Calm(d, c, subs, None)
       /\ Moves(d, c, Bit(dt.kind \in FanOut), - Bit(dt.kind \in FanOut \cup {"immediate", "settled"}), 0)
       /\ c.keys = d.keys /\ c.cancelled = d.cancelled /\ c.routes = d.routes /\ c.running = d.running
       /\ c.fired = d.fired /\ c.timer = d.timer /\ c.delayed = d.delayed /\ c.left = d.left
  BY <1>11, <1>13, EnqueueFacts
<1>15. Bit(dt.kind \in FanOut) = 1 /\ Bit(dt.kind \in FanOut \cup {"immediate", "settled"}) = 1
  BY <1>13 DEF Bit, FanOut
<1>. HIDE DEF c
<1>16. Balanced(c)
  <2>1. Moves(d, c, 1, - 1, 0)
    BY <1>14, <1>15
  <2>2. SlotSum(bus) = app.slots /\ PendSum(bus) = 0 /\ HoldSum(bus) = 0 /\ SlotSum(bus) \in Int
    BY <1>1, SumTypes DEF BusInv, Balanced
  <2>3. /\ SlotSum(b) = SlotSum(bus) + (- 1) /\ PendSum(b) = PendSum(bus) + 1 /\ HoldSum(b) = HoldSum(bus) + 0
        /\ SlotSum(d) = SlotSum(b) + 0 /\ PendSum(d) = PendSum(b) + 0 /\ HoldSum(d) = HoldSum(b) + 0
        /\ SlotSum(c) = SlotSum(d) + 1 /\ PendSum(c) = PendSum(d) + (- 1) /\ HoldSum(c) = HoldSum(d) + 0
    BY <1>7, <1>12, <2>1 DEF Moves
  <2>4. SlotSum(c) = SlotSum(bus) /\ PendSum(c) = 0 /\ HoldSum(c) = 0
    BY <2>2, <2>3
  <2>. QED BY <2>2, <2>4 DEF Balanced
<1>17. Line(c)
  <2>1. Line(d)
    BY <1>5, <1>10 DEF Line
  <2>. QED BY <1>9, <1>14, <2>1, LineKept DEF Calm
<1>18. \A s : s.kind \in Pipe => ~Pending(c, s)
  <2>1. \A s : Pending(d, s) <=> Pending(b, s)
    BY <1>10 DEF Pending
  <2>. QED BY <1>4, <1>9, <1>14, <2>1, PendingKept DEF Calm
<1>19. ASSUME NEW m \in Listeners PROVE Hold(c, t.e.new, m)
  <2>1. \A g, k : /\ Task("proxy", None, g).kind \in Pipe /\ Task("main", k, g).kind \in Pipe
                  /\ Task("cancel", k, g).kind \in Pipe
    BY DEF Task, Pipe
  <2>2. \A g : ~Pending(c, Task("proxy", None, g))
    BY <1>18, <2>1
  <2>3. Pending(bus, t)
    <3>1. t = bus.ready[1] /\ 1 \in DOMAIN bus.ready
      BY <1>1, StartedFacts
    <3>. QED BY <3>1 DEF Pending
  <2>4. ~Pending(bus, Task("main", m, t.e)) /\ ~Pending(bus, Task("cancel", m, t.e))
    <3>1. \A k : k = t => k.kind = "proxy"
      BY <1>1
    <3>2. Task("main", m, t.e).kind = "main" /\ Task("cancel", m, t.e).kind = "cancel"
      BY DEF Task
    <3>3. Task("main", m, t.e) # t /\ Task("cancel", m, t.e) # t
      BY <3>1, <3>2
    <3>. QED BY <1>1, <2>1, <3>3, ProxyLast
  <2>5. ASSUME m \notin c.cancelled, c.timer[m] = "sleeping", m \in c.left
        PROVE  m \in app.immediate /\ t.e.new # "on"
    <3>1. m \notin bus.cancelled /\ bus.timer[m] = "sleeping" /\ m \in f
      BY <1>5, <1>10, <1>14, <2>5
    <3>2. Pending(bus, Task("proxy", None, t.e))
      BY <1>6, <2>3
    <3>3. CASE m \in bus.left
      <4>1. m \in app.immediate
        BY <1>1, <3>1, <3>3 DEF Hold
      <4>2. t.e.new = "on" => Pending(bus, Task("main", m, t.e))
        BY <1>1, <1>5, <3>1, <3>2, <3>3 DEF Hold
      <4>. QED BY <2>4, <4>1, <4>2
    <3>4. CASE t.e.new # "on"
      <4>1. m \in app.immediate \/ Pending(bus, Task("cancel", m, t.e))
        BY <1>1, <1>5, <3>1, <3>2, <3>4 DEF Hold
      <4>. QED BY <2>4, <3>4, <4>1
    <3>. QED BY <1>8, <3>1, <3>3, <3>4
  <2>. QED BY <2>2, <2>5 DEF Hold
<1>20. \A m \in Listeners : \A w \in Via : ~(c.running[m][w] > bus.running[m][w])
  <2>1. \A m \in Listeners : \A w \in Via : bus.running[m][w] \in Nat
    BY <1>1, TypeFacts DEF RunningType
  <2>. QED BY <1>5, <1>10, <1>14, <2>1
<1>21. Named(bus', subs \cup Registering)
  BY <1>3, <1>5, <1>10, <1>14 DEF BusInv, Named
<1>22. /\ Sound(bus', subs) /\ Balanced(bus') /\ Line(bus') /\ \A m \in Listeners : Hold(bus', cache', m)
       /\ \A m \in Listeners : \A w \in Via : ~(bus'.running[m][w] > bus.running[m][w])
       /\ ran' = ran \cup {m \in Listeners : \E w \in Via : bus'.running[m][w] > bus.running[m][w]}
       /\ bus'.cancelled = bus.cancelled /\ bus'.fired = bus.fired
  BY <1>3, <1>5, <1>10, <1>14, <1>16, <1>17, <1>19, <1>20
<1>23. bus'.loop = bus.loop /\ cache' \in States
  BY <1>3, <1>5, <1>10, <1>14 DEF Calm
<1>. QED BY <1>3, <1>21, <1>22, <1>23, StepKept

\* The done-callback of a task.
LEMMA RunDoneKept ==
  ASSUME BusInv, RunDone
  PROVE  BusInv'
<1>. DEFINE b == Started(bus)
            t == Current
            x == IF t.kind = "done" THEN 1 ELSE 0
            d == IF t.kind = "done" THEN Freed(b) ELSE b
            p == d.pending - 1
            c == [d EXCEPT !.pending = p]
<1>1. bus.ready # <<>> /\ t.kind \in {"done", "settled"} /\ bus \in BusType
      /\ \A m \in Listeners : Hold(bus, cache, m)
  BY DEF RunDone, Running, Current, BusInv, Sound
<1>2. Behind(b)
  BY <1>1, BehindFacts
<1>3. /\ bus' = c /\ ran' = ran \cup {m \in Listeners : \E w \in Via : c.running[m][w] > bus.running[m][w]}
      /\ UNCHANGED <<app, home, sent, stream, cache, adding, subs, gone>>
  BY DEF RunDone, Becomes
<1>. HIDE DEF b
<1>4. /\ b \in BusType /\ Sound(b, subs) /\ Line(b) /\ b.keys = bus.keys /\ b.cancelled = bus.cancelled
      /\ b.fired = bus.fired /\ b.running = bus.running /\ b.loop = bus.loop /\ b.timer = bus.timer /\ b.left = bus.left
      /\ \A m \in Listeners : Hold(b, cache, m)
  BY <1>1, <1>2 DEF Behind
<1>5. Moves(bus, b, - x, 1, 0) /\ x \in Int
  <2>1. Bit(t.kind \in FanOut) = x /\ Bit(t.kind \in FanOut \cup {"immediate", "settled"}) = 1 /\ x \in Int
    BY <1>1 DEF Bit, FanOut
  <2>. HIDE DEF x
  <2>. QED BY <1>2, <2>1 DEF Behind
<1>6. /\ Sound(d, subs) /\ Moves(b, d, x, 0, 0)
      /\ d.keys = b.keys /\ d.cancelled = b.cancelled /\ d.running = b.running
      /\ d.fired = b.fired /\ d.timer = b.timer /\ d.left = b.left
      /\ (d.loop.at = "queued" => b.loop.at = "queued") /\ Line(d)
      /\ \A s : s.kind \in Pipe => (Pending(d, s) <=> Pending(b, s))
  <2>1. CASE t.kind = "done"
    <3>1. LET y == Freed(b)
          IN  /\ Sound(y, subs) /\ Moves(b, y, 1, 0, 0)
              /\ y.keys = b.keys /\ y.cancelled = b.cancelled /\ y.routes = b.routes /\ y.running = b.running
              /\ y.fired = b.fired /\ y.timer = b.timer /\ y.delayed = b.delayed /\ y.left = b.left
              /\ y.pending = b.pending /\ (y.loop.at = "queued" => b.loop.at = "queued")
              /\ Line(b) => Line(y)
              /\ \A s : s.kind \in Pipe => (Pending(y, s) <=> Pending(b, s))
      BY <1>4, FreedFacts
    <3>2. d = Freed(b) /\ x = 1
      BY <2>1
    <3>. HIDE DEF d, x
    <3>. QED BY <1>4, <3>1, <3>2
  <2>2. CASE t.kind # "done"
    <3>1. d = b /\ x = 0
      BY <2>2
    <3>. HIDE DEF d, x
    <3>2. Moves(b, b, 0, 0, 0)
      BY <1>4, SumTypes DEF Moves
    <3>. QED BY <1>4, <3>1, <3>2
  <2>. QED BY <2>1, <2>2
<1>. HIDE DEF d, x
<1>7. d \in BusType /\ d.pending \in Int /\ p \in Int /\ p - d.pending = - 1
  <2>1. d \in BusType /\ d.pending \in Int
    BY <1>6, TypeFacts DEF Sound
  <2>. QED BY <2>1
<1>. HIDE DEF p
<1>8. /\ Sound(c, subs) /\ Moves(d, c, 0, p - d.pending, 0)
      /\ c.keys = d.keys /\ c.cancelled = d.cancelled /\ c.routes = d.routes /\ c.running = d.running
      /\ c.fired = d.fired /\ c.timer = d.timer /\ c.delayed = d.delayed /\ c.left = d.left
      /\ c.loop = d.loop /\ c.slots = d.slots /\ c.ready = d.ready
      /\ Line(d) => Line(c)
      /\ \A s : Pending(c, s) <=> Pending(d, s)
  BY <1>6, <1>7, PendingFacts
<1>. HIDE DEF c
<1>9. Balanced(c)
  <2>1. Moves(d, c, 0, - 1, 0)
    BY <1>7, <1>8
  <2>2. SlotSum(bus) = app.slots /\ PendSum(bus) = 0 /\ HoldSum(bus) = 0 /\ SlotSum(bus) \in Int
    BY <1>1, SumTypes DEF BusInv, Balanced
  <2>3. /\ SlotSum(b) = SlotSum(bus) + (- x) /\ PendSum(b) = PendSum(bus) + 1 /\ HoldSum(b) = HoldSum(bus) + 0
        /\ SlotSum(d) = SlotSum(b) + x /\ PendSum(d) = PendSum(b) + 0 /\ HoldSum(d) = HoldSum(b) + 0
        /\ SlotSum(c) = SlotSum(d) + 0 /\ PendSum(c) = PendSum(d) + (- 1) /\ HoldSum(c) = HoldSum(d) + 0
    BY <1>5, <1>6, <2>1 DEF Moves
  <2>4. SlotSum(c) = SlotSum(bus) /\ PendSum(c) = 0 /\ HoldSum(c) = 0
    BY <1>5, <2>2, <2>3
  <2>. QED BY <2>2, <2>4 DEF Balanced
<1>10. ASSUME NEW m \in Listeners PROVE Hold(c, cache, m)
  <2>1. \A s : s.kind \in Pipe => (Pending(c, s) <=> Pending(b, s))
    BY <1>6, <1>8
  <2>2. c.timer = b.timer /\ c.cancelled = b.cancelled /\ c.left = b.left /\ Hold(b, cache, m)
    BY <1>4, <1>6, <1>8
  <2>. QED BY <2>1, <2>2, HoldLike
<1>11. \A m \in Listeners : \A w \in Via : ~(c.running[m][w] > bus.running[m][w])
  <2>1. \A m \in Listeners : \A w \in Via : bus.running[m][w] \in Nat
    BY <1>1, TypeFacts DEF RunningType
  <2>. QED BY <1>4, <1>6, <1>8, <2>1
<1>12. Named(bus', subs \cup Registering)
  BY <1>3, <1>4, <1>6, <1>8 DEF BusInv, Named
<1>13. cache' = cache /\ cache \in States
  BY <1>3 DEF BusInv, Around
<1>14. /\ Sound(bus', subs) /\ Balanced(bus') /\ Line(bus') /\ \A m \in Listeners : Hold(bus', cache', m)
       /\ \A m \in Listeners : \A w \in Via : ~(bus'.running[m][w] > bus.running[m][w])
       /\ ran' = ran \cup {m \in Listeners : \E w \in Via : bus'.running[m][w] > bus.running[m][w]}
       /\ bus'.cancelled = bus.cancelled /\ bus'.fired = bus.fired /\ (bus'.loop.at = "queued" => bus.loop.at = "queued")
  BY <1>3, <1>4, <1>6, <1>8, <1>9, <1>10, <1>11, <1>13
<1>. QED BY <1>3, <1>12, <1>13, <1>14, StepKept

----------------------------------------------------------------------------
(* Steps of the dispatch loop *)

\* A step that leaves the listeners' flags, timers and handlers alone.
LEMMA QuietKept ==
  ASSUME BusInv, UNCHANGED <<app, home, sent, cache, adding, subs, gone, ran>>, stream' \in Seq(Changes),
         Sound(bus', subs), Balanced(bus'), Line(bus'), \A m \in Listeners : Hold(bus', cache, m),
         bus'.keys = bus.keys, bus'.cancelled = bus.cancelled, bus'.fired = bus.fired,
         bus'.loop.at = "queued" => stream' # <<>>
  PROVE  BusInv'
<1>1. Around /\ Named(bus, subs \cup Registering)
  BY DEF BusInv
<1>2. Around'
  <2>1. /\ app' \in Scenarios /\ home' \in States /\ cache' \in States /\ sent' \in 0..app'.events
        /\ adding' \in Seq(Listeners) /\ subs' \subseteq Listeners /\ gone' \subseteq Listeners /\ ran' \subseteq Listeners
    BY <1>1 DEF Around
  <2>2. Distinct(adding)' /\ \A i \in DOMAIN adding' : adding'[i] \notin subs'
    BY <1>1 DEF Around, Distinct
  <2>3. bus'.cancelled \subseteq subs' \cup gone' /\ app'.once \cap ran' \subseteq bus'.fired
    BY <1>1 DEF Around
  <2>. QED BY <2>1, <2>2, <2>3 DEF Around, Changes
<1>3. Named(bus', subs' \cup {adding'[i] : i \in DOMAIN adding'})
  BY <1>1 DEF Named, Registering
<1>4. Sound(bus', subs') /\ cache' = cache
  OBVIOUS
<1>. QED BY <1>2, <1>3, <1>4, InvPrimed

\* serve() is scheduled.
LEMMA ReceiveKept ==
  ASSUME BusInv, Receive
  PROVE  BusInv'
<1>. DEFINE c == Enqueue([bus EXCEPT !.loop.at = "queued"], Task("go", None, None))
<1>1. Sound(bus, subs) /\ bus.loop.at = "waiting" /\ stream # <<>> /\ Line(bus) /\ bus \in BusType
      /\ stream \in Seq(Changes) /\ \A m \in Listeners : Hold(bus, cache, m)
  BY DEF BusInv, Receive, Sound, Around
<1>2. bus' = c /\ UNCHANGED <<app, home, sent, stream, cache, adding, subs, gone, ran>>
  BY DEF Receive
<1>3. /\ Sound(c, subs) /\ Moves(bus, c, Bit("queued" = "woken"), 0, 0)
      /\ c.keys = bus.keys /\ c.cancelled = bus.cancelled /\ c.routes = bus.routes /\ c.running = bus.running
      /\ c.fired = bus.fired /\ c.timer = bus.timer /\ c.delayed = bus.delayed /\ c.left = bus.left
      /\ c.pending = bus.pending /\ c.slots = bus.slots /\ c.loop.at = "queued"
      /\ Line(bus) => Line(c)
      /\ \A s : s.kind \in Pipe => (Pending(c, s) <=> Pending(bus, s))
  BY <1>1, GoFacts
<1>. HIDE DEF c
<1>4. Bit("queued" = "woken") = 0
  BY DEF Bit
<1>5. Balanced(c)
  <2>1. SlotSum(bus) = app.slots /\ PendSum(bus) = 0 /\ HoldSum(bus) = 0 /\ SlotSum(bus) \in Int
    BY <1>1, SumTypes DEF BusInv, Balanced
  <2>. QED BY <1>3, <1>4, <2>1 DEF Moves, Balanced
<1>6. \A m \in Listeners : Hold(c, cache, m)
  BY <1>1, <1>3, HoldLike
<1>7. /\ Sound(bus', subs) /\ Balanced(bus') /\ Line(bus') /\ (\A m \in Listeners : Hold(bus', cache, m))
      /\ bus'.keys = bus.keys /\ bus'.cancelled = bus.cancelled /\ bus'.fired = bus.fired
      /\ stream' \in Seq(Changes) /\ stream' # <<>>
  BY <1>1, <1>2, <1>3, <1>5, <1>6
<1>. QED BY <1>2, <1>7, QuietKept

\* The loop spawns a task with the slot it was handed.
Pushed(b, c, S, h) ==
    /\ Sound(c, S) /\ Beside(b, c) /\ c.loop = b.loop /\ c.slots = b.slots /\ c.ready = Append(b.ready, h)
    /\ SlotSum(c) = SlotSum(b) + 1 /\ PendSum(c) = PendSum(b) /\ HoldSum(c) = HoldSum(b)

LEMMA PushFacts ==
  ASSUME NEW b, NEW S, Sound(b, S), NEW h \in TaskType, TaskOK(h, S), h.kind \in Pipe
  PROVE  Pushed(b, Enqueue([b EXCEPT !.pending = @ + 1], h), S, h)
<1>. DEFINE p == b.pending + 1
            r == Append(b.ready, h)
            c == Enqueue([b EXCEPT !.pending = @ + 1], h)
            K == FanOut \cup {"immediate", "settled"}
<1>1. b \in BusType /\ b.ready \in Seq(TaskType) /\ b.pending \in Int
  BY TypeFacts DEF Sound
<1>2. c = [b EXCEPT !.pending = p, !.ready = r] /\ p \in Int /\ p = b.pending + 1
  BY <1>1 DEF Enqueue, BusType
<1>3. /\ r \in Seq(TaskType) /\ \A N : Number(r, N) = Number(b.ready, N) + Bit(h.kind \in N)
      /\ \A i \in DOMAIN r : r[i] = h \/ (i \in DOMAIN b.ready /\ r[i] = b.ready[i])
  <2>1. r \in Seq(TaskType) /\ \A N : Number(r, N) = Number(b.ready, N) + Bit(h.kind \in N)
    BY <1>1, NumberAppend
  <2>2. DOMAIN r = 1..(Len(b.ready) + 1) /\ r[Len(b.ready) + 1] = h /\ (\A i \in 1..Len(b.ready) : r[i] = b.ready[i])
        /\ DOMAIN b.ready = 1..Len(b.ready) /\ Len(b.ready) \in Nat
    BY <1>1, AppendProperties, LenProperties
  <2>3. \A i \in 1..(Len(b.ready) + 1) : i = Len(b.ready) + 1 \/ i \in 1..Len(b.ready)
    BY <2>2
  <2>. QED BY <2>1, <2>2, <2>3
<1>. HIDE DEF p, r, c
<1>4. c \in BusType
  BY <1>1, <1>2, <1>3 DEF BusType
<1>5. /\ c.keys = b.keys /\ c.cancelled = b.cancelled /\ c.routes = b.routes /\ c.running = b.running
      /\ c.fired = b.fired /\ c.timer = b.timer /\ c.left = b.left /\ c.loop = b.loop /\ c.slots = b.slots
      /\ c.pending = p /\ c.holding = b.holding /\ c.delayed = b.delayed /\ c.ready = r
  BY <1>1, <1>2 DEF BusType
<1>6. Tasked(c, S)
  BY <1>3, <1>5 DEF Sound, Tasked
<1>7. Sound(c, S)
  BY <1>4, <1>5, <1>6 DEF Sound, Routed, Used, OneLate
<1>8. Number(c.ready, FanOut) = Number(b.ready, FanOut) + 1 /\ Number(c.ready, K) = Number(b.ready, K) + 1
  <2>1. Bit(h.kind \in FanOut) = 1 /\ Bit(h.kind \in K) = 1
    BY DEF Bit, FanOut, Pipe
  <2>. QED BY <1>3, <1>5, <2>1
<1>9. Run(c, "slot") = Run(b, "slot") /\ Run(c, "now") = Run(b, "now") /\ Run(c, "timer") = Run(b, "timer")
      /\ Asleep(c) = Asleep(b) /\ Bit(c.loop.at = "woken") = Bit(b.loop.at = "woken")
  BY <1>5 DEF Run, Asleep
<1>10. /\ b.slots \in Int /\ b.pending \in Int /\ b.holding \in Int
       /\ Number(b.ready, FanOut) \in Nat /\ Number(b.ready, K) \in Nat
       /\ Run(b, "slot") \in Nat /\ Run(b, "now") \in Nat /\ Run(b, "timer") \in Nat
       /\ Asleep(b) \in Nat /\ Bit(b.loop.at = "woken") \in Nat
  BY <1>1, SumTypes DEF Via
<1>11. /\ SlotSum(b) = b.slots + Number(b.ready, FanOut) + Run(b, "slot") + Bit(b.loop.at = "woken")
       /\ SlotSum(c) = c.slots + Number(c.ready, FanOut) + Run(c, "slot") + Bit(c.loop.at = "woken")
       /\ PendSum(b) = b.pending - Number(b.ready, K) - Run(b, "slot") - Run(b, "now")
       /\ PendSum(c) = c.pending - Number(c.ready, K) - Run(c, "slot") - Run(c, "now")
       /\ HoldSum(b) = b.holding - Asleep(b) - Run(b, "timer")
       /\ HoldSum(c) = c.holding - Asleep(c) - Run(c, "timer")
  BY DEF SlotSum, PendSum, HoldSum
<1>. HIDE DEF K
<1>12. SlotSum(c) = SlotSum(b) + 1
  <2>1. SlotSum(c) = b.slots + (Number(b.ready, FanOut) + 1) + Run(b, "slot") + Bit(b.loop.at = "woken")
    BY <1>5, <1>8, <1>9, <1>11
  <2>. QED BY <1>10, <1>11, <2>1
<1>13. PendSum(c) = PendSum(b)
  <2>1. PendSum(c) = (b.pending + 1) - (Number(b.ready, K) + 1) - Run(b, "slot") - Run(b, "now")
    BY <1>2, <1>5, <1>8, <1>9, <1>11
  <2>. QED BY <1>10, <1>11, <2>1
<1>14. HoldSum(c) = HoldSum(b)
  BY <1>5, <1>9, <1>11
<1>15. Beside(b, c)
  BY <1>5 DEF Beside
<1>. QED BY <1>5, <1>7, <1>12, <1>13, <1>14, <1>15 DEF Pushed, c, r

LEMMA DispatchedFacts ==
  ASSUME NEW b, NEW S, Sound(b, S), b.slots >= 0, NEW q, Batch(q, S), Joins(b, q)
  PROVE  LET c == Dispatched(b, q)
         IN  /\ Sound(c, S) /\ Beside(b, c) /\ Line(c) /\ c.loop.at # "queued"
             /\ SlotSum(c) = SlotSum(b) - Bit(b.loop.at = "woken") /\ PendSum(c) = PendSum(b) /\ HoldSum(c) = HoldSum(b)
             /\ \A t : Pending(c, t) => (\E i \in DOMAIN b.ready : b.ready[i] = t) \/ (\E j \in DOMAIN q : q[j] = t)
             /\ \A t : (\E i \in DOMAIN b.ready : b.ready[i] = t) => Pending(c, t)
             /\ \A t : ~Dropped(t) /\ (\E j \in DOMAIN q : q[j] = t) => Pending(c, t)
<1>. DEFINE c == Dispatched(b, q)
<1>1. b \in BusType
  BY DEF Sound
<1>2. /\ c \in BusType /\ (\E n : Spawns(b, c, q, n))
      /\ c.keys = b.keys /\ c.cancelled = b.cancelled /\ c.routes = b.routes /\ c.running = b.running
      /\ c.fired = b.fired /\ c.timer = b.timer /\ c.delayed = b.delayed /\ c.left = b.left
      /\ c.holding = b.holding
  BY <1>1, DispatchedFields
<1>. HIDE DEF c
<1>3. PICK n : Spawns(b, c, q, n)
  BY <1>2
<1>4. Beside(b, c)
  BY <1>2 DEF Beside
<1>5. /\ Sound(c, S) /\ SlotSum(c) = SlotSum(b) - Bit(b.loop.at = "woken")
      /\ PendSum(c) = PendSum(b) /\ HoldSum(c) = HoldSum(b)
  BY <1>2, <1>3, <1>4, SpawnedFacts
<1>6. Line(c)
  BY <1>1, <1>3, SpawnedLine
<1>7. c.loop.at # "queued"
  BY <1>3 DEF Spawns
<1>8. ASSUME NEW t
      PROVE  /\ Pending(c, t) => (\E i \in DOMAIN b.ready : b.ready[i] = t) \/ (\E j \in DOMAIN q : q[j] = t)
             /\ (\E i \in DOMAIN b.ready : b.ready[i] = t) => Pending(c, t)
             /\ ~Dropped(t) /\ (\E j \in DOMAIN q : q[j] = t) => Pending(c, t)
  BY <1>1, <1>3, SpawnedPending
<1>. QED BY <1>4, <1>5, <1>6, <1>7, <1>8 DEF c

\* Of a hold that an immediate fire started no task is dropped.
LEMMA HeldNotDropped ==
  ASSUME app \in Scenarios, NEW m, m \in app.held, m \in app.immediate, NEW e
  PROVE  ~Dropped(Task("main", m, e)) /\ ~Dropped(Task("cancel", m, e)) /\ m \notin app.fromOff
<1>1. m \notin app.dropping /\ m \notin app.fromOff
  BY BusAssumption
<1>2. /\ Task("main", m, e).kind = "main" /\ Task("main", m, e).l = m
      /\ Task("cancel", m, e).kind = "cancel"
  BY DEF Task
<1>. QED BY <1>1, <1>2 DEF Dropped

LEMMA CancelNotDropped ==
  ASSUME NEW m, NEW e
  PROVE  ~Dropped(Task("cancel", m, e))
BY DEF Dropped, Task

\* The loop has received an event.
LEMMA RunLoopEvent ==
  ASSUME BusInv, RunLoop, bus.loop.at = "queued"
  PROVE  BusInv'
<1>. DEFINE b == Started(bus)
            e == Head(stream)
            q == Targets(bus, e)
            c == Dispatched(b, q)
<1>1. /\ bus.ready # <<>> /\ Current.kind = "go" /\ bus \in BusType /\ Current = Head(bus.ready) /\ Line(bus)
      /\ Sound(bus, subs) /\ app \in Scenarios
      /\ \A m \in Listeners : Hold(bus, cache, m)
  BY DEF RunLoop, Running, Current, BusInv, Sound, Around
<1>2. Behind(b)
  BY <1>1, BehindFacts
<1>3. /\ bus' = c /\ stream' = Tail(stream)
      /\ UNCHANGED <<app, home, sent, cache, adding, subs, gone, ran>>
  BY DEF RunLoop
<1>4. e \in Changes /\ stream' \in Seq(Changes)
  <2>1. stream \in Seq(Changes) /\ stream # <<>>
    BY DEF BusInv, Around
  <2>. QED BY <1>3, <2>1, HeadTailProperties
<1>5. \A i \in DOMAIN b.ready : b.ready[i].kind # "go" /\ b.ready[i].kind \notin Pipe
  <2>1. bus.ready \in Seq(TaskType)
    BY <1>1, TypeFacts
  <2>2. Head(bus.ready) = bus.ready[1] /\ 1 \in DOMAIN bus.ready /\ DOMAIN bus.ready = 1..Len(bus.ready)
        /\ Len(bus.ready) \in Nat
    BY <1>1, <2>1, StartedFacts, LenProperties
  <2>3. \A i \in DOMAIN b.ready : i \in Nat /\ i + 1 \in DOMAIN bus.ready /\ b.ready[i] = bus.ready[i + 1]
    BY <1>1, <2>1, NumberHead DEF Started
  <2>4. DOMAIN b.ready = 1..Len(b.ready)
    BY <1>1, <2>1, HeadTailProperties, LenProperties DEF Started
  <2>5. \A i \in DOMAIN b.ready : i + 1 # 1 /\ ~(i + 1 < 1)
    BY <2>3, <2>4
  <2>6. \A j \in DOMAIN bus.ready : /\ bus.ready[j].kind = "go" => 1 = j
                                    /\ bus.ready[j].kind \in Pipe => j < 1
    BY <1>1, <2>2 DEF Line
  <2>. QED BY <2>3, <2>5, <2>6
<1>. HIDE DEF b, e
<1>6. /\ b \in BusType /\ Sound(b, subs) /\ Line(b) /\ b.keys = bus.keys /\ b.cancelled = bus.cancelled
      /\ b.fired = bus.fired /\ b.running = bus.running /\ b.timer = bus.timer /\ b.left = bus.left
      /\ b.loop = bus.loop /\ b.routes = bus.routes
  BY <1>2 DEF Behind
<1>7. Moves(bus, b, - 0, 0, 0)
  <2>1. Bit(Current.kind \in FanOut) = 0 /\ Bit(Current.kind \in FanOut \cup {"immediate", "settled"}) = 0
    BY <1>1 DEF Bit, FanOut
  <2>. QED BY <1>2, <2>1 DEF Behind
<1>8. /\ Batch(q, subs) /\ q # <<>> /\ (\A i \in DOMAIN q : q[i].e = e)
      /\ \A m : On(bus.routes, "cancel", m) => \E i \in DOMAIN q : q[i] = Task("cancel", m, e)
      /\ \A m : On(bus.routes, "main", m) /\ Matches(m, e) => \E i \in DOMAIN q : q[i] = Task("main", m, e)
  BY <1>1, <1>4, TargetsFacts
<1>. HIDE DEF q
<1>9. Joins(b, q)
  <2>1. "proxy" \in Pipe
    BY DEF Pipe
  <2>. QED BY <1>5, <1>8, <2>1 DEF Joins
<1>10. b.slots >= 0
  BY <1>6 DEF Line
<1>11. /\ Sound(c, subs) /\ Beside(b, c) /\ Line(c) /\ c.loop.at # "queued"
       /\ SlotSum(c) = SlotSum(b) - Bit(b.loop.at = "woken") /\ PendSum(c) = PendSum(b) /\ HoldSum(c) = HoldSum(b)
       /\ \A t : Pending(c, t) => (\E i \in DOMAIN b.ready : b.ready[i] = t) \/ (\E j \in DOMAIN q : q[j] = t)
       /\ \A t : (\E i \in DOMAIN b.ready : b.ready[i] = t) => Pending(c, t)
       /\ \A t : ~Dropped(t) /\ (\E j \in DOMAIN q : q[j] = t) => Pending(c, t)
  BY <1>6, <1>8, <1>9, <1>10, DispatchedFacts
<1>. HIDE DEF c
<1>12. Balanced(c)
  <2>1. Bit(b.loop.at = "woken") = 0
    BY <1>6 DEF Bit
  <2>2. SlotSum(bus) = app.slots /\ PendSum(bus) = 0 /\ HoldSum(bus) = 0 /\ SlotSum(bus) \in Int
    BY <1>1, SumTypes DEF BusInv, Balanced
  <2>. QED BY <1>7, <1>11, <2>1, <2>2 DEF Moves, Balanced
<1>13. ASSUME NEW m \in Listeners PROVE Hold(c, cache, m)
  <2>. SUFFICES ASSUME m \notin c.cancelled, c.timer[m] = "sleeping" PROVE Hold(c, cache, m)
    BY DEF Hold
  <2>1. c.timer = bus.timer /\ c.cancelled = bus.cancelled /\ c.left = bus.left
    BY <1>6, <1>11 DEF Beside
  <2>2. On(bus.routes, "cancel", m) /\ On(bus.routes, "main", m) /\ m \in app.held
    BY <1>1, <2>1 DEF Sound, Routed, Used
  <2>3. \A f : Pending(c, Task("proxy", None, f)) => f = e
    <3>. SUFFICES ASSUME NEW f, Pending(c, Task("proxy", None, f)) PROVE f = e
      OBVIOUS
    <3>1. Task("proxy", None, f).kind \in Pipe /\ Task("proxy", None, f).e = f
      BY DEF Task, Pipe
    <3>2. ~\E i \in DOMAIN b.ready : b.ready[i] = Task("proxy", None, f)
      BY <1>5, <3>1
    <3>3. \E j \in DOMAIN q : q[j] = Task("proxy", None, f)
      BY <1>11, <3>2
    <3>. QED BY <1>8, <3>1, <3>3
  <2>4. Pending(c, Task("cancel", m, e))
    BY <1>8, <1>11, <2>2, CancelNotDropped
  <2>5. ASSUME m \in c.left
        PROVE  /\ m \in app.immediate /\ cache # "on"
               /\ e.new = "on" => Pending(c, Task("main", m, e))
    <3>1. m \in app.immediate /\ cache # "on"
      BY <1>1, <2>1, <2>5 DEF Hold
    <3>2. ~Dropped(Task("main", m, e)) /\ m \notin app.fromOff
      BY <1>1, <2>2, <3>1, HeldNotDropped
    <3>3. e.new = "on" => Matches(m, e)
      BY <3>2 DEF Matches
    <3>. QED BY <1>8, <1>11, <2>2, <3>1, <3>2, <3>3
  <2>. QED BY <2>3, <2>4, <2>5 DEF Hold
<1>14. c.keys = bus.keys /\ c.cancelled = bus.cancelled /\ c.fired = bus.fired
  BY <1>6, <1>11 DEF Beside
<1>15. /\ Sound(bus', subs) /\ Balanced(bus') /\ Line(bus') /\ (\A m \in Listeners : Hold(bus', cache, m))
       /\ bus'.keys = bus.keys /\ bus'.cancelled = bus.cancelled /\ bus'.fired = bus.fired
       /\ bus'.loop.at # "queued"
  BY <1>3, <1>11, <1>12, <1>13, <1>14
<1>. QED BY <1>3, <1>4, <1>15, QuietKept

\* The loop has been handed the slot it waited for.
LEMMA RunLoopSlot ==
  ASSUME BusInv, RunLoop, bus.loop.at # "queued"
  PROVE  BusInv'
<1>. DEFINE b == Started(bus)
            w == b.loop.todo
            h == Head(w)
            q == Tail(w)
            d == Enqueue([b EXCEPT !.pending = @ + 1], h)
            c == Dispatched(d, q)
<1>1. /\ bus.ready # <<>> /\ Current.kind = "go" /\ bus \in BusType /\ Current = Head(bus.ready) /\ Line(bus)
      /\ Sound(bus, subs) /\ app \in Scenarios
  BY DEF RunLoop, Running, Current, BusInv, Sound, Around
<1>2. Behind(b)
  BY <1>1, BehindFacts
<1>3. bus' = c /\ UNCHANGED <<app, home, sent, stream, cache, adding, subs, gone, ran>>
  BY DEF RunLoop
<1>4. /\ bus.loop.at = "woken"
      /\ \A i \in DOMAIN b.ready : b.ready[i].kind # "go"
  <2>1. bus.ready \in Seq(TaskType)
    BY <1>1, TypeFacts
  <2>2. Head(bus.ready) = bus.ready[1] /\ 1 \in DOMAIN bus.ready
    BY <1>1, <2>1, StartedFacts
  <2>3. \A i \in DOMAIN b.ready : i \in Nat /\ i + 1 \in DOMAIN bus.ready /\ b.ready[i] = bus.ready[i + 1]
    BY <1>1, <2>1, NumberHead DEF Started
  <2>4. DOMAIN b.ready = 1..Len(b.ready)
    BY <1>1, <2>1, HeadTailProperties, LenProperties DEF Started
  <2>5. \A i \in DOMAIN b.ready : i + 1 # 1
    BY <2>3, <2>4
  <2>6. bus.loop.at \in {"queued", "woken"} /\ \A j \in DOMAIN bus.ready : bus.ready[j].kind = "go" => 1 = j
    BY <1>1, <2>2 DEF Line
  <2>. QED BY <2>3, <2>5, <2>6
<1>. HIDE DEF b
<1>5. /\ b \in BusType /\ Sound(b, subs) /\ Line(b) /\ b.keys = bus.keys /\ b.cancelled = bus.cancelled
      /\ b.fired = bus.fired /\ b.timer = bus.timer /\ b.left = bus.left /\ b.loop = bus.loop
      /\ (\A m \in Listeners : Hold(b, cache, m))
  BY <1>1, <1>2 DEF Behind
<1>6. Moves(bus, b, - 0, 0, 0)
  <2>1. Bit(Current.kind \in FanOut) = 0 /\ Bit(Current.kind \in FanOut \cup {"immediate", "settled"}) = 0
    BY <1>1 DEF Bit, FanOut
  <2>. QED BY <1>2, <2>1 DEF Behind
<1>7. /\ w \in Seq(TaskType) /\ w # <<>> /\ b.slots >= 0
      /\ (\A i \in DOMAIN b.ready : b.ready[i].kind # "proxy")
      /\ (\A i \in DOMAIN w : w[i].kind = "proxy" <=> i = Len(w))
      /\ (\A i, j \in DOMAIN w : w[i].e = w[j].e)
      /\ (\A i, j \in DOMAIN b.ready :
            b.ready[i].kind \in Pipe /\ b.ready[j].kind \in Pipe => b.ready[i].e = b.ready[j].e)
      /\ (\A i \in DOMAIN b.ready : \A j \in DOMAIN w : b.ready[i].kind \in Pipe => b.ready[i].e = w[j].e)
      /\ (\A i \in DOMAIN w : TaskOK(w[i], subs) /\ w[i].kind \in Pipe)
  <2>1. w \in Seq(TaskType)
    BY <1>5 DEF BusType
  <2>2. w # <<>>
    BY <1>4, <1>5 DEF Line
  <2>3. \A i \in DOMAIN w : TaskOK(w[i], subs) /\ w[i].kind \in Pipe
    BY <1>5 DEF Sound, Tasked
  <2>. QED BY <1>5, <2>1, <2>2, <2>3 DEF Line
<1>. HIDE DEF w
<1>8. /\ h \in TaskType /\ h = w[1] /\ 1 \in DOMAIN w /\ q \in Seq(TaskType) /\ Len(q) = Len(w) - 1
      /\ DOMAIN w = 1..Len(w) /\ DOMAIN q = 1..Len(q) /\ Len(q) \in Nat /\ Len(w) \in Nat
      /\ (\A i \in DOMAIN q : i \in Nat /\ i + 1 \in DOMAIN w /\ q[i] = w[i + 1])
      /\ (\A i \in DOMAIN w : w[i] = h \/ \E j \in DOMAIN q : q[j] = w[i])
  <2>1. /\ h \in TaskType /\ h = w[1] /\ 1 \in DOMAIN w /\ q \in Seq(TaskType) /\ Len(q) = Len(w) - 1
        /\ \A i \in DOMAIN q : i \in Nat /\ i + 1 \in DOMAIN w /\ q[i] = w[i + 1]
    BY <1>7, NumberHead
  <2>2. DOMAIN w = 1..Len(w) /\ DOMAIN q = 1..Len(q) /\ Len(q) \in Nat /\ Len(w) \in Nat
    BY <1>7, <2>1, LenProperties
  <2>3. ASSUME NEW i \in DOMAIN w, i # 1 PROVE \E j \in DOMAIN q : q[j] = w[i]
    <3>. HIDE DEF q
    <3>1. i - 1 \in 1..Len(q) /\ (i - 1) + 1 = i
      BY <2>1, <2>2, <2>3
    <3>2. q[i - 1] = w[(i - 1) + 1]
      BY <2>1, <2>2, <3>1
    <3>. QED BY <2>2, <3>1, <3>2
  <2>. QED BY <2>1, <2>2, <2>3
<1>. HIDE DEF h, q
<1>9. TaskOK(h, subs) /\ h.kind \in Pipe /\ (q # <<>> => h.kind # "proxy")
  <2>1. q # <<>> => Len(q) # 0
    BY <1>8, EmptySeq
  <2>2. q # <<>> => 1 # Len(w)
    BY <1>8, <2>1
  <2>. QED BY <1>7, <1>8, <2>2
<1>10. /\ Sound(d, subs) /\ Beside(b, d) /\ d.loop = b.loop /\ d.slots = b.slots /\ d.ready = Append(b.ready, h)
       /\ SlotSum(d) = SlotSum(b) + 1 /\ PendSum(d) = PendSum(b) /\ HoldSum(d) = HoldSum(b)
  <2>1. Pushed(b, d, subs, h)
    BY <1>5, <1>8, <1>9, PushFacts
  <2>. HIDE DEF d
  <2>. QED BY <2>1 DEF Pushed
<1>. HIDE DEF d
<1>11. /\ \A i \in DOMAIN d.ready : \/ i \in DOMAIN b.ready /\ d.ready[i] = b.ready[i]
                                    \/ d.ready[i] = h /\ \A j \in DOMAIN d.ready : j <= i
       /\ \A i \in DOMAIN b.ready : i \in DOMAIN d.ready /\ d.ready[i] = b.ready[i]
       /\ \E i \in DOMAIN d.ready : d.ready[i] = h
  <2>1. b.ready \in Seq(TaskType)
    BY <1>5, TypeFacts
  <2>2. /\ DOMAIN d.ready = 1..(Len(b.ready) + 1) /\ d.ready[Len(b.ready) + 1] = h
        /\ \A i \in 1..Len(b.ready) : d.ready[i] = b.ready[i]
        /\ DOMAIN b.ready = 1..Len(b.ready) /\ Len(b.ready) \in Nat
    BY <1>8, <1>10, <2>1, AppendProperties, LenProperties
  <2>3. /\ \A i \in 1..(Len(b.ready) + 1) : i = Len(b.ready) + 1 \/ i \in 1..Len(b.ready)
        /\ \A i \in 1..Len(b.ready) : i \in 1..(Len(b.ready) + 1)
        /\ \A j \in 1..(Len(b.ready) + 1) : j <= Len(b.ready) + 1
        /\ Len(b.ready) + 1 \in 1..(Len(b.ready) + 1)
    BY <2>2
  <2>. QED BY <2>2, <2>3
<1>12. Batch(q, subs)
  <2>1. \A i \in DOMAIN q : q[i].kind = "proxy" <=> i = Len(q)
    <3>1. \A i \in DOMAIN q : i + 1 = Len(w) <=> i = Len(q)
      BY <1>8
    <3>. QED BY <1>7, <1>8, <3>1
  <2>. QED BY <1>7, <1>8, <2>1 DEF Batch
<1>13. Joins(d, q)
  <2>1. \A i \in DOMAIN d.ready : d.ready[i].kind # "go" /\ (q # <<>> => d.ready[i].kind # "proxy")
    BY <1>4, <1>7, <1>9, <1>11 DEF Pipe
  <2>2. \A i, j \in DOMAIN d.ready : d.ready[i].kind = "proxy" /\ d.ready[j].kind \in Pipe => j <= i
    BY <1>7, <1>11
  <2>3. \A i, j \in DOMAIN d.ready :
          d.ready[i].kind \in Pipe /\ d.ready[j].kind \in Pipe => d.ready[i].e = d.ready[j].e
    BY <1>7, <1>8, <1>11
  <2>4. \A i, j \in DOMAIN q : q[i].e = q[j].e
    BY <1>7, <1>8
  <2>5. ASSUME NEW i \in DOMAIN d.ready, NEW j \in DOMAIN q, d.ready[i].kind \in Pipe
        PROVE  d.ready[i].e = q[j].e
    <3>1. PICK k \in DOMAIN w : q[j] = w[k]
      BY <1>8
    <3>2. h.e = w[k].e
      BY <1>7, <1>8
    <3>3. i \in DOMAIN b.ready /\ d.ready[i] = b.ready[i] => d.ready[i].e = w[k].e
      BY <1>7, <2>5
    <3>. QED BY <1>11, <3>1, <3>2, <3>3
  <2>. QED BY <2>1, <2>2, <2>3, <2>4, <2>5 DEF Joins
<1>14. d.slots >= 0
  BY <1>7, <1>10
<1>15. /\ Sound(c, subs) /\ Beside(d, c) /\ Line(c) /\ c.loop.at # "queued"
       /\ SlotSum(c) = SlotSum(d) - Bit(d.loop.at = "woken") /\ PendSum(c) = PendSum(d) /\ HoldSum(c) = HoldSum(d)
       /\ \A t : Pending(c, t) => (\E i \in DOMAIN d.ready : d.ready[i] = t) \/ (\E j \in DOMAIN q : q[j] = t)
       /\ \A t : (\E i \in DOMAIN d.ready : d.ready[i] = t) => Pending(c, t)
       /\ \A t : ~Dropped(t) /\ (\E j \in DOMAIN q : q[j] = t) => Pending(c, t)
  BY <1>10, <1>12, <1>13, <1>14, DispatchedFacts
<1>. HIDE DEF c
<1>16. Balanced(c)
  <2>1. Bit(d.loop.at = "woken") = 1
    BY <1>4, <1>5, <1>10 DEF Bit
  <2>2. SlotSum(bus) = app.slots /\ PendSum(bus) = 0 /\ HoldSum(bus) = 0 /\ SlotSum(bus) \in Int
        /\ SlotSum(b) \in Int
    BY <1>1, <1>5, SumTypes DEF BusInv, Balanced
  <2>. QED BY <1>6, <1>10, <1>15, <2>1, <2>2 DEF Moves, Balanced
<1>17. (\A t : Pending(c, t) => Pending(b, t)) /\ \A t : ~Dropped(t) /\ Pending(b, t) => Pending(c, t)
  <2>1. \A t : Pending(b, t) <=> (\E i \in DOMAIN b.ready : b.ready[i] = t) \/ \E i \in DOMAIN w : w[i] = t
    BY DEF Pending, w
  <2>2. ASSUME NEW t, Pending(c, t) PROVE Pending(b, t)
    BY <1>8, <1>11, <1>15, <2>1, <2>2
  <2>3. ASSUME NEW t, ~Dropped(t), Pending(b, t) PROVE Pending(c, t)
    BY <1>8, <1>11, <1>15, <2>1, <2>3
  <2>. QED BY <2>2, <2>3
<1>18. ASSUME NEW m \in Listeners PROVE Hold(c, cache, m)
  <2>. SUFFICES ASSUME m \notin c.cancelled, c.timer[m] = "sleeping" PROVE Hold(c, cache, m)
    BY DEF Hold
  <2>1. c.timer = b.timer /\ c.cancelled = b.cancelled /\ c.left = b.left
    BY <1>10, <1>15 DEF Beside
  <2>2. Hold(b, cache, m) /\ m \notin b.cancelled /\ b.timer[m] = "sleeping" /\ m \in app.held
    BY <1>5, <2>1 DEF Sound, Used
  <2>3. \A e : Pending(b, Task("cancel", m, e)) => Pending(c, Task("cancel", m, e))
    BY <1>17, CancelNotDropped
  <2>4. m \in app.immediate => \A e : Pending(b, Task("main", m, e)) => Pending(c, Task("main", m, e))
    BY <1>1, <1>17, <2>2, HeldNotDropped
  <2>5. \A e : Pending(c, Task("proxy", None, e)) => Pending(b, Task("proxy", None, e))
    BY <1>17
  <2>. QED BY <2>1, <2>2, <2>3, <2>4, <2>5 DEF Hold
<1>19. c.keys = bus.keys /\ c.cancelled = bus.cancelled /\ c.fired = bus.fired
  BY <1>5, <1>10, <1>15 DEF Beside
<1>20. /\ Sound(bus', subs) /\ Balanced(bus') /\ Line(bus') /\ (\A m \in Listeners : Hold(bus', cache, m))
       /\ bus'.keys = bus.keys /\ bus'.cancelled = bus.cancelled /\ bus'.fired = bus.fired
       /\ bus'.loop.at # "queued" /\ stream' \in Seq(Changes)
  BY <1>3, <1>15, <1>16, <1>18, <1>19 DEF BusInv, Around
<1>. QED BY <1>3, <1>20, QuietKept

----------------------------------------------------------------------------
(* Steps of the app and its Bus *)

\* A step of the app starts no handler.
LEMMA AppKept ==
  ASSUME BusInv, UNCHANGED <<app, home, sent, stream, cache>>,
         adding' \in Seq(Listeners), Distinct(adding'), subs' \subseteq Listeners, gone' \subseteq Listeners,
         \A i \in DOMAIN adding' : adding'[i] \notin subs',
         Sound(bus', subs'), Named(bus', subs' \cup {adding'[i] : i \in DOMAIN adding'}), Balanced(bus'), Line(bus'),
         \A m \in Listeners : Hold(bus', cache, m),
         bus'.cancelled \subseteq subs' \cup gone', bus'.loop.at = "queued" => bus.loop.at = "queued",
         bus.fired \subseteq bus'.fired, Fewer(bus, bus'),
         ran' = ran \cup {l \in Listeners : \E v \in Via : bus'.running[l][v] > bus.running[l][v]}
  PROVE  BusInv'
<1>1. Around /\ bus \in BusType /\ bus' \in BusType
  BY DEF BusInv, Sound, BusType
<1>2. bus' \in [keys : [Names -> Listeners \cup {None}], routes : Seq(RouteType),
                cancelled : SUBSET Listeners, fired : SUBSET Listeners,
                timer : [Listeners -> {"none", "sleeping"}], left : SUBSET Listeners, holding : Int,
                delayed : SUBSET app.debounced, owed : SUBSET app.debounced, shut : SUBSET app.throttled,
                running : [Listeners -> [Via -> Nat]], slots : Int, pending : Int,
                loop : [at : {"waiting", "queued", "blocked", "woken"}, todo : Seq(TaskType)],
                ready : Seq(TaskType)]
  BY <1>1 DEF BusType
<1>3. \A m \in Listeners : \A w \in Via : ~(bus'.running[m][w] > bus.running[m][w])
  <2>1. \A m \in Listeners : \A w \in Via :
          bus'.running[m][w] <= bus.running[m][w] /\ bus'.running[m][w] \in Nat /\ bus.running[m][w] \in Nat
    BY <1>1, <1>2 DEF BusType, Fewer
  <2>. QED BY <2>1
<1>4. ran' \subseteq Listeners /\ app'.once \cap ran' \subseteq bus'.fired
  BY <1>1, <1>3, RanKept DEF Around
<1>5. Around'
  <2>1. /\ app' \in Scenarios /\ home' \in States /\ cache' \in States /\ sent' \in 0..app'.events
        /\ stream' \in Seq(Changes) /\ (bus'.loop.at = "queued" => stream' # <<>>)
    BY <1>1 DEF Around
  <2>2. Distinct(adding)' /\ \A i \in DOMAIN adding' : adding'[i] \notin subs'
    BY DEF Distinct
  <2>. QED BY <1>4, <2>1, <2>2 DEF Around, Changes
<1>6. cache' = cache
  OBVIOUS
<1>. QED BY <1>5, <1>6, InvPrimed

LEMMA BalancedKept ==
  ASSUME NEW b \in BusType, NEW c, Balanced(b), Moves(b, c, 0, 0, 0)
  PROVE  Balanced(c)
<1>1. SlotSum(b) \in Int
  BY SumTypes
<1>. QED BY <1>1 DEF Balanced, Moves

\* c and b differ in the names and the routes only.
Aside(b, c) ==
    /\ c.cancelled = b.cancelled /\ c.fired = b.fired /\ c.timer = b.timer /\ c.left = b.left
    /\ c.holding = b.holding /\ c.delayed = b.delayed /\ c.running = b.running
    /\ c.slots = b.slots /\ c.pending = b.pending /\ c.loop = b.loop /\ c.ready = b.ready

LEMMA AsideFacts ==
  ASSUME NEW b, NEW c, Aside(b, c)
  PROVE  /\ Balanced(b) => Balanced(c)
         /\ Line(b) => Line(c)
         /\ \A m, state : Hold(b, state, m) => Hold(c, state, m)
<1>1. Balanced(b) => Balanced(c)
  BY DEF Aside, Balanced, SlotSum, PendSum, HoldSum, Run, Asleep
<1>2. Line(b) => Line(c)
  BY DEF Aside, Line
<1>3. \A t : Pending(b, t) <=> Pending(c, t)
  BY DEF Aside, Pending
<1>4. \A m, state : Hold(b, state, m) => Hold(c, state, m)
  BY <1>3 DEF Aside, Hold
<1>. QED BY <1>1, <1>2, <1>4

\* The name of l is given to k, or given back.
Renamed(b, l, k) == [b EXCEPT !.keys[NameOf[l]] = k]

LEMMA RenamedFacts ==
  ASSUME NEW b, NEW S, Sound(b, S), NEW l \in Listeners, NEW k \in Listeners \cup {None}
  PROVE  LET c == Renamed(b, l, k)
         IN  Sound(c, S) /\ Aside(b, c) /\ c.keys = [b.keys EXCEPT ![NameOf[l]] = k]
<1>. DEFINE c == Renamed(b, l, k)
<1>1. b \in BusType /\ b.keys \in [Names -> Listeners \cup {None}] /\ NameOf[l] \in Names
  BY BusAssumption, TypeFacts DEF Sound
<1>2. c = [b EXCEPT !.keys = [b.keys EXCEPT ![NameOf[l]] = k]]
  BY <1>1 DEF BusType, Renamed
<1>. HIDE DEF c
<1>3. [b.keys EXCEPT ![NameOf[l]] = k] \in [Names -> Listeners \cup {None}]
  BY <1>1
<1>4. c \in BusType
  BY <1>1, <1>2, <1>3 DEF BusType
<1>5. Aside(b, c) /\ c.routes = b.routes /\ c.keys = [b.keys EXCEPT ![NameOf[l]] = k]
  BY <1>1, <1>2 DEF BusType, Aside
<1>6. Sound(c, S)
  BY <1>4, <1>5 DEF Aside, Sound, Tasked, Routed, Used, OneLate
<1>. QED BY <1>5, <1>6 DEF c

\* Once l is cancelled, what the loop's invariant says still holds.
LEMMA PartedKept ==
  ASSUME NEW b, NEW c, NEW S, NEW l, Parted(b, c, S, l), b \in BusType
  PROVE  /\ c \in BusType /\ Sound(c, S) /\ Fewer(b, c) /\ c.cancelled = b.cancelled \cup {l}
         /\ b.fired \subseteq c.fired /\ c.loop = b.loop
         /\ Balanced(b) => Balanced(c)
         /\ Line(b) => Line(c)
         /\ \A m \in Listeners : \A state : Hold(b, state, m) => Hold(c, state, m)
<1>1. /\ Sound(c, S) /\ Calm(b, c, S, l) /\ Stills(b, c) /\ Moves(b, c, 0, 0, 0) /\ Fewer(b, c)
      /\ c.cancelled = b.cancelled \cup {l}
  BY DEF Parted
<1>2. c \in BusType
  BY <1>1 DEF Sound
<1>3. b.fired \subseteq c.fired /\ c.loop = b.loop /\ c.slots = b.slots /\ Later(b, c, S)
  BY <1>1 DEF Calm
<1>4. Balanced(b) => Balanced(c)
  BY <1>1, BalancedKept
<1>5. Line(b) => Line(c)
  BY <1>3, LineKept
<1>6. \A m \in Listeners : \A state : Hold(b, state, m) => Hold(c, state, m)
  BY <1>1, HoldKept DEF Stills
<1>. QED BY <1>1, <1>2, <1>3, <1>4, <1>5, <1>6

\* An app cancels a subscription.
LEMMA CancelKept ==
  ASSUME BusInv, NEW l \in Listeners, Cancel(l)
  PROVE  BusInv'
<1>. DEFINE c == Unsubscribed(bus, l)
<1>1. /\ Around /\ Sound(bus, subs) /\ bus \in BusType /\ Line(bus) /\ Balanced(bus)
      /\ Named(bus, subs \cup Registering) /\ \A m \in Listeners : Hold(bus, cache, m)
  BY DEF BusInv, Sound
<1>2. /\ l \in subs /\ bus' = c /\ gone' = gone \cup {l}
      /\ UNCHANGED <<app, home, sent, stream, cache, adding, subs>>
      /\ ran' = ran \cup {m \in Listeners : \E v \in Via : bus'.running[m][v] > bus.running[m][v]}
  BY DEF Cancel, Becomes
<1>3. Parted(bus, c, subs, l) /\ NamesKept(bus, c)
  BY <1>1, UnsubscribedFacts
<1>. HIDE DEF c
<1>4. /\ Sound(c, subs) /\ Fewer(bus, c) /\ c.cancelled = bus.cancelled \cup {l}
      /\ bus.fired \subseteq c.fired /\ c.loop = bus.loop /\ Balanced(c) /\ Line(c)
      /\ \A m \in Listeners : Hold(c, cache, m)
  BY <1>1, <1>3, PartedKept
<1>5. Named(c, subs \cup Registering)
  BY <1>1, <1>3 DEF NamesKept
<1>6. /\ adding' \in Seq(Listeners) /\ Distinct(adding') /\ subs' \subseteq Listeners /\ gone' \subseteq Listeners
      /\ \A i \in DOMAIN adding' : adding'[i] \notin subs'
  BY <1>1, <1>2 DEF Around
<1>7. /\ Sound(bus', subs') /\ Balanced(bus') /\ Line(bus') /\ (\A m \in Listeners : Hold(bus', cache, m))
      /\ bus'.loop.at = bus.loop.at /\ bus.fired \subseteq bus'.fired /\ Fewer(bus, bus')
  BY <1>2, <1>4
<1>8. Named(bus', subs' \cup {adding'[i] : i \in DOMAIN adding'})
  BY <1>2, <1>5 DEF Registering
<1>9. bus'.cancelled \subseteq subs' \cup gone'
  BY <1>1, <1>2, <1>4 DEF Around
<1>. QED BY <1>2, <1>6, <1>7, <1>8, <1>9, AppKept

\* A registration takes its name, from the listener that has it if need be.
LEMMA RegisterKept ==
  ASSUME BusInv, NEW l \in Listeners, Register(l)
  PROVE  BusInv'
<1>. DEFINE old == bus.keys[NameOf[l]]
            b == IF old = None THEN bus ELSE Unsubscribed(bus, old)
            c == Renamed(b, l, l)
<1>1. /\ Around /\ Sound(bus, subs) /\ bus \in BusType /\ Line(bus) /\ Balanced(bus)
      /\ Named(bus, subs \cup Registering) /\ \A m \in Listeners : Hold(bus, cache, m)
  BY DEF BusInv, Sound
<1>2. /\ l \notin gone \cup subs /\ ~Contains(adding, l) /\ bus' = c
      /\ gone' = (IF old = None THEN gone ELSE gone \cup {old}) /\ adding' = Append(adding, l)
      /\ UNCHANGED <<app, home, sent, stream, cache, subs>>
      /\ ran' = ran \cup {m \in Listeners : \E v \in Via : bus'.running[m][v] > bus.running[m][v]}
  BY DEF Register, Becomes, Renamed
<1>3. /\ NameOf[l] \in Names /\ old \in Listeners \cup {None}
      /\ (old # None => old \in subs \cup Registering)
  BY <1>1, BusAssumption DEF BusType, Named
<1>4. \A i \in DOMAIN adding : adding[i] # l
  BY <1>2 DEF Contains
<1>5. old # l
  BY <1>2, <1>3, <1>4, BusAssumption DEF Registering
<1>6. adding \in Seq(Listeners) /\ Distinct(adding) /\ gone \subseteq Listeners /\ subs \subseteq Listeners
  BY <1>1 DEF Around
<1>. HIDE DEF old
<1>7. /\ Sound(b, subs) /\ Fewer(bus, b) /\ b.cancelled \subseteq bus.cancelled \cup ({old} \ {None})
      /\ bus.fired \subseteq b.fired /\ b.loop = bus.loop /\ Balanced(b) /\ Line(b)
      /\ (\A m \in Listeners : Hold(b, cache, m)) /\ Named(b, subs \cup Registering)
  <2>1. CASE old = None
    <3>1. b = bus
      BY <2>1
    <3>2. Fewer(bus, bus)
      BY <1>1 DEF Fewer, BusType
    <3>. QED BY <1>1, <3>1, <3>2
  <2>2. CASE old # None
    <3>1. b = Unsubscribed(bus, old) /\ old \in Listeners
      BY <1>3, <2>2
    <3>. HIDE DEF b
    <3>2. Parted(bus, b, subs, old) /\ NamesKept(bus, b)
      BY <1>1, <3>1, UnsubscribedFacts
    <3>3. /\ Sound(b, subs) /\ Fewer(bus, b) /\ b.cancelled = bus.cancelled \cup {old}
          /\ bus.fired \subseteq b.fired /\ b.loop = bus.loop /\ Balanced(b) /\ Line(b)
          /\ \A m \in Listeners : Hold(b, cache, m)
      BY <1>1, <3>2, PartedKept
    <3>4. Named(b, subs \cup Registering)
      BY <1>1, <3>2 DEF NamesKept
    <3>. QED BY <2>2, <3>3, <3>4
  <2>. QED BY <2>1, <2>2
<1>. HIDE DEF b
<1>8. Sound(c, subs) /\ Aside(b, c) /\ c.keys = [b.keys EXCEPT ![NameOf[l]] = l]
  BY <1>7, RenamedFacts
<1>. HIDE DEF c
<1>9. /\ DOMAIN adding' = DOMAIN adding \cup {Len(adding) + 1} /\ adding'[Len(adding) + 1] = l
      /\ (\A i \in DOMAIN adding : adding'[i] = adding[i]) /\ adding' \in Seq(Listeners)
  <2>1. /\ adding' \in Seq(Listeners) /\ DOMAIN adding' = 1..(Len(adding) + 1) /\ adding'[Len(adding) + 1] = l
        /\ (\A i \in 1..Len(adding) : adding'[i] = adding[i])
        /\ DOMAIN adding = 1..Len(adding) /\ Len(adding) \in Nat
    BY <1>2, <1>6, AppendProperties, LenProperties
  <2>2. 1..(Len(adding) + 1) = 1..Len(adding) \cup {Len(adding) + 1}
    BY <2>1
  <2>. QED BY <2>1, <2>2
<1>10. Distinct(adding')
  BY <1>4, <1>6, <1>9 DEF Distinct
<1>11. \A i \in DOMAIN adding' : adding'[i] \notin subs'
  BY <1>1, <1>2, <1>9 DEF Around
<1>12. {adding'[i] : i \in DOMAIN adding'} = Registering \cup {l}
  BY <1>9 DEF Registering
<1>13. l \notin c.cancelled
  <2>1. l \notin bus.cancelled
    BY <1>1, <1>2 DEF Around
  <2>. QED BY <1>5, <1>7, <1>8, <2>1 DEF Aside
<1>14. Named(c, subs \cup (Registering \cup {l}))
  <2>1. b.keys \in [Names -> Listeners \cup {None}]
    BY <1>7 DEF Sound, BusType
  <2>2. ASSUME NEW n \in Names, c.keys[n] # None
        PROVE  /\ NameOf[c.keys[n]] = n /\ c.keys[n] \notin c.cancelled
               /\ c.keys[n] \in subs \cup (Registering \cup {l})
    <3>1. CASE n = NameOf[l]
      BY <1>8, <1>13, <2>1, <3>1
    <3>2. CASE n # NameOf[l]
      <4>1. c.keys[n] = b.keys[n] /\ c.cancelled = b.cancelled
        BY <1>8, <2>1, <3>2 DEF Aside
      <4>. QED BY <1>7, <2>2, <4>1 DEF Named
    <3>. QED BY <3>1, <3>2
  <2>. QED BY <2>2 DEF Named
<1>15. /\ Balanced(c) /\ Line(c) /\ (\A m \in Listeners : Hold(c, cache, m))
       /\ c.loop = bus.loop /\ c.fired = b.fired /\ c.cancelled = b.cancelled /\ Fewer(bus, c)
  BY <1>7, <1>8, AsideFacts DEF Aside, Fewer
<1>16. c.cancelled \subseteq subs \cup gone'
  <2>1. bus.cancelled \subseteq subs \cup gone /\ gone \subseteq gone' /\ ({old} \ {None} \subseteq gone')
    BY <1>1, <1>2 DEF Around
  <2>. QED BY <1>7, <1>15, <2>1
<1>17. subs' \subseteq Listeners /\ gone' \subseteq Listeners
  BY <1>2, <1>3, <1>6
<1>18. /\ Sound(bus', subs') /\ Balanced(bus') /\ Line(bus') /\ (\A m \in Listeners : Hold(bus', cache, m))
       /\ bus'.loop.at = bus.loop.at /\ bus.fired \subseteq bus'.fired /\ Fewer(bus, bus')
       /\ bus'.cancelled \subseteq subs' \cup gone'
       /\ Named(bus', subs' \cup {adding'[i] : i \in DOMAIN adding'})
  BY <1>2, <1>7, <1>8, <1>12, <1>14, <1>15, <1>16
<1>. QED BY <1>2, <1>9, <1>10, <1>11, <1>17, <1>18, AppKept

LEMMA RestFacts ==
  ASSUME NEW S, NEW s \in Seq(S), s # <<>>, Distinct(s)
  PROVE  /\ Head(s) \in S /\ Tail(s) \in Seq(S) /\ Distinct(Tail(s)) /\ (\E i \in DOMAIN s : s[i] = Head(s))
         /\ {Tail(s)[i] : i \in DOMAIN Tail(s)} = {s[i] : i \in DOMAIN s} \ {Head(s)}
<1>. DEFINE h == Head(s)   t == Tail(s)
<1>1. /\ h \in S /\ h = s[1] /\ 1 \in DOMAIN s /\ t \in Seq(S) /\ Len(t) = Len(s) - 1
      /\ \A i \in DOMAIN t : i \in Nat /\ i + 1 \in DOMAIN s /\ t[i] = s[i + 1]
  BY NumberHead
<1>2. DOMAIN s = 1..Len(s) /\ DOMAIN t = 1..Len(t) /\ Len(s) \in Nat /\ Len(t) \in Nat
  BY <1>1, LenProperties
<1>. HIDE DEF h, t
<1>3. Distinct(t)
  <2>. SUFFICES ASSUME NEW i \in DOMAIN t, NEW j \in DOMAIN t, t[i] = t[j] PROVE i = j
    BY DEF Distinct
  <2>1. i + 1 = j + 1
    BY <1>1 DEF Distinct
  <2>. QED BY <1>1, <2>1
<1>4. \A i \in DOMAIN t : t[i] # h
  <2>1. \A i \in DOMAIN t : i + 1 # 1
    BY <1>2
  <2>. QED BY <1>1, <2>1 DEF Distinct
<1>5. ASSUME NEW i \in DOMAIN s, s[i] # h PROVE \E j \in DOMAIN t : t[j] = s[i]
  <2>1. i - 1 \in DOMAIN t /\ (i - 1) + 1 = i
    BY <1>1, <1>2, <1>5
  <2>. QED BY <1>1, <2>1
<1>6. {t[i] : i \in DOMAIN t} = {s[i] : i \in DOMAIN s} \ {h}
  BY <1>1, <1>4, <1>5
<1>. QED BY <1>1, <1>3, <1>6 DEF h, t

\* The database refuses the next registration.
LEMMA RegisterFailsKept ==
  ASSUME BusInv, RegisterFails
  PROVE  BusInv'
<1>. DEFINE l == Head(adding)
            c == Refused(bus, l)
<1>1. /\ Around /\ Sound(bus, subs) /\ bus \in BusType /\ Line(bus) /\ Balanced(bus)
      /\ Named(bus, subs \cup Registering) /\ \A m \in Listeners : Hold(bus, cache, m)
  BY DEF BusInv, Sound
<1>2. /\ adding # <<>> /\ bus' = c /\ gone' = gone \cup {l} /\ adding' = Tail(adding)
      /\ UNCHANGED <<app, home, sent, stream, cache, subs>>
      /\ ran' = ran \cup {m \in Listeners : \E v \in Via : bus'.running[m][v] > bus.running[m][v]}
  BY DEF RegisterFails, Becomes
<1>3. adding \in Seq(Listeners) /\ Distinct(adding) /\ gone \subseteq Listeners /\ subs \subseteq Listeners
      /\ \A i \in DOMAIN adding : adding[i] \notin subs
  BY <1>1 DEF Around
<1>4. /\ l \in Listeners /\ adding' \in Seq(Listeners) /\ Distinct(adding')
      /\ {adding'[i] : i \in DOMAIN adding'} = Registering \ {l}
  <2>. DEFINE t == Tail(adding)
  <2>1. /\ l \in Listeners /\ t \in Seq(Listeners) /\ Distinct(t)
        /\ {t[i] : i \in DOMAIN t} = {adding[i] : i \in DOMAIN adding} \ {l}
    BY <1>2, <1>3, RestFacts
  <2>2. adding' = t
    BY <1>2
  <2>. HIDE DEF t, l
  <2>. QED BY <2>1, <2>2 DEF Registering
<1>. HIDE DEF l
<1>5. /\ Sound(c, subs) /\ Aside(bus, c)
      /\ c.keys = IF bus.keys[NameOf[l]] = l THEN [bus.keys EXCEPT ![NameOf[l]] = None] ELSE bus.keys
  <2>1. CASE bus.keys[NameOf[l]] = l
    <3>1. c = Renamed(bus, l, None)
      BY <2>1 DEF Refused, Renamed
    <3>. HIDE DEF c
    <3>. QED BY <1>1, <1>4, <2>1, <3>1, RenamedFacts
  <2>2. CASE bus.keys[NameOf[l]] # l
    <3>1. c = bus
      BY <2>2 DEF Refused
    <3>. QED BY <1>1, <2>2, <3>1 DEF Aside
  <2>. QED BY <2>1, <2>2
<1>. HIDE DEF c
<1>6. Named(c, subs \cup (Registering \ {l}))
  <2>1. bus.keys \in [Names -> Listeners \cup {None}] /\ None \notin Listeners /\ NameOf[l] \in Names
    BY <1>1, <1>4, BusAssumption DEF BusType
  <2>2. ASSUME NEW n \in Names, c.keys[n] # None PROVE c.keys[n] = bus.keys[n] /\ c.keys[n] # l
    <3>1. c.keys[n] = bus.keys[n]
      BY <1>5, <2>1, <2>2
    <3>2. ASSUME c.keys[n] = l PROVE FALSE
      <4>1. NameOf[l] = n
        BY <1>1, <2>2, <3>1, <3>2 DEF Named
      <4>. QED BY <1>5, <2>1, <2>2, <3>1, <3>2, <4>1
    <3>. QED BY <3>1, <3>2
  <2>3. c.cancelled = bus.cancelled
    BY <1>5 DEF Aside
  <2>. QED BY <1>1, <2>2, <2>3 DEF Named
<1>7. /\ Balanced(c) /\ Line(c) /\ (\A m \in Listeners : Hold(c, cache, m))
      /\ c.loop = bus.loop /\ c.fired = bus.fired /\ c.cancelled = bus.cancelled /\ Fewer(bus, c)
  <2>1. c.running = bus.running /\ c.loop = bus.loop /\ c.fired = bus.fired /\ c.cancelled = bus.cancelled
    BY <1>5 DEF Aside
  <2>2. Fewer(bus, c)
    BY <1>1, <2>1 DEF Fewer, BusType
  <2>. QED BY <1>1, <1>5, <2>1, <2>2, AsideFacts
<1>8. \A i \in DOMAIN adding' : adding'[i] \notin subs'
  BY <1>2, <1>3, <1>4 DEF Registering
<1>9. subs' \subseteq Listeners /\ gone' \subseteq Listeners
  BY <1>2, <1>3, <1>4
<1>10. c.cancelled \subseteq subs \cup gone'
  BY <1>1, <1>2, <1>7 DEF Around
<1>11. /\ Sound(bus', subs') /\ Balanced(bus') /\ Line(bus') /\ (\A m \in Listeners : Hold(bus', cache, m))
       /\ bus'.loop.at = bus.loop.at /\ bus.fired \subseteq bus'.fired /\ Fewer(bus, bus')
       /\ bus'.cancelled \subseteq subs' \cup gone'
       /\ Named(bus', subs' \cup {adding'[i] : i \in DOMAIN adding'})
  BY <1>2, <1>4, <1>5, <1>6, <1>7, <1>10
<1>. QED BY <1>2, <1>4, <1>8, <1>9, <1>11, AppKept

\* A listener is routed.
LEMMA RoutedFacts ==
  ASSUME NEW b, NEW S, Sound(b, S), NEW l \in Listeners, l \notin S
  PROVE  LET c == [b EXCEPT !.routes = Append(@, Route("main", l))]
         IN  Sound(c, S \cup {l}) /\ Aside(b, c) /\ c.keys = b.keys
<1>. DEFINE r == Append(b.routes, Route("main", l))
            c == [b EXCEPT !.routes = Append(@, Route("main", l))]
<1>1. b \in BusType /\ b.routes \in Seq(RouteType) /\ Distinct(b.routes) /\ ~On(b.routes, "main", l)
  BY TypeFacts DEF Sound, Routed
<1>2. r \in Seq(RouteType) /\ Distinct(r)
      /\ \A k, m : On(r, k, m) <=> On(b.routes, k, m) \/ (k = "main" /\ m = l)
  BY <1>1, WithFacts
<1>3. c = [b EXCEPT !.routes = r]
  BY <1>1 DEF BusType
<1>. HIDE DEF r, c
<1>4. c \in BusType
  BY <1>1, <1>2, <1>3 DEF BusType
<1>5. Aside(b, c) /\ c.routes = r /\ c.keys = b.keys
  BY <1>1, <1>3 DEF BusType, Aside
<1>6. Tasked(c, S \cup {l})
  BY <1>5 DEF Aside, Sound, Tasked, TaskOK
<1>7. Routed(c, S \cup {l})
  BY <1>2, <1>5 DEF Aside, Sound, Routed
<1>8. Used(c, S \cup {l}) /\ OneLate(c)
  BY <1>5 DEF Aside, Sound, Used, OneLate
<1>. QED BY <1>4, <1>5, <1>6, <1>7, <1>8 DEF Sound, c

\* The next registration is written: the listener is routed, and fired at once if it asks for it.
LEMMA RegisteredKept ==
  ASSUME BusInv, Registered
  PROVE  BusInv'
<1>. DEFINE l == Head(adding)
            S == subs \cup {l}
            b == [bus EXCEPT !.routes = Append(@, Route("main", l))]
            p == b.pending + 1
            d == [b EXCEPT !.pending = p]
            t == Task("immediate", l, None)
            c == IF l \in app.immediate THEN Enqueue(d, t) ELSE b
<1>1. /\ Around /\ Sound(bus, subs) /\ bus \in BusType /\ Line(bus) /\ Balanced(bus)
      /\ Named(bus, subs \cup Registering) /\ \A m \in Listeners : Hold(bus, cache, m)
  BY DEF BusInv, Sound
<1>2. /\ adding # <<>> /\ subs' = S /\ adding' = Tail(adding)
      /\ UNCHANGED <<app, home, sent, stream, cache, gone>>
      /\ ran' = ran \cup {m \in Listeners : \E v \in Via : bus'.running[m][v] > bus.running[m][v]}
  BY DEF Registered, Becomes
<1>3. bus' = c
  <2>1. [b EXCEPT !.pending = @ + 1] = d
    <3>1. b.pending + 1 = p
      OBVIOUS
    <3>. QED BY <1>1 DEF BusType
  <2>. QED BY <2>1 DEF Registered, Becomes
<1>4. adding \in Seq(Listeners) /\ Distinct(adding) /\ gone \subseteq Listeners /\ subs \subseteq Listeners
      /\ \A i \in DOMAIN adding : adding[i] \notin subs
  BY <1>1 DEF Around
<1>5. /\ l \in Listeners /\ l \notin subs /\ adding' \in Seq(Listeners) /\ Distinct(adding')
      /\ {adding'[i] : i \in DOMAIN adding'} = Registering \ {l} /\ l \in Registering
  <2>. DEFINE r == Tail(adding)
  <2>1. /\ l \in Listeners /\ r \in Seq(Listeners) /\ Distinct(r) /\ (\E i \in DOMAIN adding : adding[i] = l)
        /\ {r[i] : i \in DOMAIN r} = {adding[i] : i \in DOMAIN adding} \ {l}
    BY <1>2, <1>4, RestFacts
  <2>2. adding' = r
    BY <1>2
  <2>. HIDE DEF r, l
  <2>. QED BY <1>4, <2>1, <2>2 DEF Registering
<1>. HIDE DEF l
<1>6. Sound(b, S) /\ Aside(bus, b) /\ b.keys = bus.keys
  BY <1>1, <1>5, RoutedFacts
<1>. HIDE DEF b
<1>7. Balanced(b) /\ Line(b) /\ (\A m \in Listeners : Hold(b, cache, m)) /\ b \in BusType /\ b.pending \in Int
  BY <1>1, <1>6, AsideFacts, TypeFacts DEF Sound
<1>8. /\ Sound(c, S) /\ Balanced(c) /\ Line(c) /\ (\A m \in Listeners : Hold(c, cache, m))
      /\ c.keys = b.keys /\ c.cancelled = b.cancelled /\ c.fired = b.fired /\ c.running = b.running
      /\ c.loop = b.loop
  <2>1. CASE l \notin app.immediate
    BY <1>6, <1>7, <2>1
  <2>2. CASE l \in app.immediate
    <3>1. p \in Int /\ p - b.pending = 1
      BY <1>7
    <3>. HIDE DEF p, S
    <3>2. /\ Sound(d, S) /\ Moves(b, d, 0, p - b.pending, 0)
          /\ d.keys = b.keys /\ d.cancelled = b.cancelled /\ d.running = b.running
          /\ d.fired = b.fired /\ d.timer = b.timer /\ d.left = b.left
          /\ d.loop = b.loop /\ d.slots = b.slots /\ Line(d)
          /\ \A s : Pending(d, s) <=> Pending(b, s)
      BY <1>6, <1>7, <3>1, PendingFacts
    <3>. HIDE DEF d
    <3>3. t \in TaskType /\ t.kind = "immediate" /\ t.kind \in Others /\ TaskOK(t, S)
      BY <1>5, <2>2 DEF Task, TaskType, TaskOK, Kinds, Others, Pipe, S
    <3>. HIDE DEF t
    <3>4. c = Enqueue(d, t)
      BY <2>2
    <3>. HIDE DEF c
    <3>5. /\ Sound(c, S) /\ Calm(d, c, S, l)
          /\ Moves(d, c, Bit(t.kind \in FanOut), - Bit(t.kind \in FanOut \cup {"immediate", "settled"}), 0)
          /\ c.keys = d.keys /\ c.cancelled = d.cancelled /\ c.running = d.running
          /\ c.fired = d.fired /\ c.timer = d.timer
      BY <3>2, <3>3, <3>4, EnqueueFacts
    <3>6. Bit(t.kind \in FanOut) = 0 /\ Bit(t.kind \in FanOut \cup {"immediate", "settled"}) = 1
      BY <3>3 DEF Bit, FanOut
    <3>7. d \in BusType /\ c \in BusType
      BY <3>2, <3>5 DEF Sound
    <3>8. Balanced(c)
      <4>1. SlotSum(b) \in Int /\ PendSum(b) = 0 /\ SlotSum(b) = app.slots /\ HoldSum(b) = 0
        BY <1>7, SumTypes DEF Balanced
      <4>2. SlotSum(d) = app.slots + 0 /\ PendSum(d) = 0 + 1 /\ HoldSum(d) = 0 + 0
        BY <3>1, <3>2, <4>1 DEF Moves
      <4>3. SlotSum(c) = SlotSum(d) + 0 /\ PendSum(c) = PendSum(d) + (- 1) /\ HoldSum(c) = HoldSum(d) + 0
        BY <3>5, <3>6 DEF Moves
      <4>. QED BY <4>1, <4>2, <4>3 DEF Balanced
    <3>9. c.loop = d.loop /\ c.slots = d.slots /\ Later(d, c, S)
      BY <3>5 DEF Calm
    <3>10. Line(c)
      BY <3>2, <3>7, <3>9, LineKept
    <3>11. \A m \in Listeners : Hold(d, cache, m)
      BY <1>7, <3>2, HoldLike
    <3>12. \A m \in Listeners : Hold(c, cache, m)
      BY <3>5, <3>7, <3>11, HoldKept
    <3>. QED BY <3>2, <3>5, <3>8, <3>9, <3>10, <3>12
  <2>. QED BY <2>1, <2>2
<1>. HIDE DEF c
<1>9. c.cancelled = bus.cancelled /\ c.fired = bus.fired /\ c.running = bus.running /\ c.loop = bus.loop /\ c.keys = bus.keys
  BY <1>6, <1>8 DEF Aside
<1>10. Fewer(bus, c)
  BY <1>1, <1>9 DEF Fewer, BusType
<1>11. S \cup (Registering \ {l}) = subs \cup Registering
  BY <1>5
<1>12. Named(c, S \cup (Registering \ {l}))
  BY <1>1, <1>9, <1>11 DEF Named
<1>13. /\ subs' \subseteq Listeners /\ gone' \subseteq Listeners /\ \A i \in DOMAIN adding' : adding'[i] \notin subs'
  <2>1. \A i \in DOMAIN adding' : adding'[i] \in Registering \ {l}
    BY <1>5
  <2>. QED BY <1>2, <1>4, <1>5, <2>1 DEF Registering
<1>14. c.cancelled \subseteq S \cup gone
  BY <1>1, <1>9 DEF Around
<1>15. /\ Sound(bus', subs') /\ Balanced(bus') /\ Line(bus') /\ (\A m \in Listeners : Hold(bus', cache, m))
       /\ bus'.loop.at = bus.loop.at /\ bus.fired \subseteq bus'.fired /\ Fewer(bus, bus')
       /\ bus'.cancelled \subseteq subs' \cup gone'
       /\ Named(bus', subs' \cup {adding'[i] : i \in DOMAIN adding'})
  <2>. HIDE DEF S
  <2>. QED BY <1>2, <1>3, <1>5, <1>8, <1>9, <1>10, <1>12, <1>14
<1>. QED BY <1>2, <1>5, <1>13, <1>15, AppKept

\* The entity changes.
LEMMA HomeChangesKept ==
  ASSUME BusInv, NEW s \in States, HomeChanges(s)
  PROVE  BusInv'
<1>1. /\ Around /\ Sound(bus, subs) /\ Named(bus, subs \cup Registering)
      /\ Balanced(bus) /\ Line(bus) /\ \A m \in Listeners : Hold(bus, cache, m)
  BY DEF BusInv
<1>2. /\ sent < app.events /\ home' = s /\ sent' = sent + 1 /\ stream' = Append(stream, [old |-> home, new |-> s])
      /\ UNCHANGED <<app, cache, adding, subs, gone, bus, ran>>
  BY DEF HomeChanges
<1>3. sent' \in 0..app'.events
  <2>1. app.events \in Nat /\ sent \in 0..app.events
    BY <1>1, BusAssumption DEF Around, Scenario
  <2>. QED BY <1>2, <2>1
<1>4. stream' \in Seq(Changes) /\ stream' # <<>>
  <2>1. [old |-> home, new |-> s] \in Changes /\ stream \in Seq(Changes)
    BY <1>1 DEF Around, Changes
  <2>2. stream' \in Seq(Changes) /\ Len(stream') = Len(stream) + 1 /\ Len(stream) \in Nat
    BY <1>2, <2>1, AppendProperties, LenProperties
  <2>3. Len(stream') # 0
    BY <2>2
  <2>. QED BY <2>2, <2>3, EmptySeq
<1>5. Around'
  <2>1. /\ app' \in Scenarios /\ home' \in States /\ cache' \in States
        /\ adding' \in Seq(Listeners) /\ subs' \subseteq Listeners /\ gone' \subseteq Listeners /\ ran' \subseteq Listeners
    BY <1>1, <1>2 DEF Around
  <2>2. Distinct(adding)' /\ \A i \in DOMAIN adding' : adding'[i] \notin subs'
    BY <1>1, <1>2 DEF Around, Distinct
  <2>3. bus'.cancelled \subseteq subs' \cup gone' /\ app'.once \cap ran' \subseteq bus'.fired
    BY <1>1, <1>2 DEF Around
  <2>. QED BY <1>3, <1>4, <2>1, <2>2, <2>3 DEF Around, Changes
<1>6. /\ Sound(bus', subs') /\ Balanced(bus') /\ Line(bus') /\ (\A m \in Listeners : Hold(bus', cache', m))
      /\ Named(bus', subs' \cup {adding'[i] : i \in DOMAIN adding'})
  BY <1>1, <1>2 DEF Registering
<1>. QED BY <1>2, <1>5, <1>6, InvPrimed

\* The listeners that are routed, those of them with a sleeping timer, and the tasks
\* that release the overlap guards.
Mains(b) == {i \in DOMAIN b.routes : b.routes[i].kind = "main"}
Mine(b) == {b.routes[i].l : i \in Mains(b)}
Timed(b) == {l \in Mine(b) : b.timer[l] = "sleeping"}
Guards(b) == Kept(b.routes, {i \in Mains(b) : b.routes[i].l \notin app.parallel})
Releases(b) == [i \in DOMAIN Guards(b) |-> Task("release", Guards(b)[i].l, None)]
Unslept(b) == [l \in Listeners |-> IF l \in Mine(b) THEN "none" ELSE b.timer[l]]
Unrun(b) ==
    [l \in Listeners |-> IF l \in Mine(b) \cap app.parallel THEN [b.running[l] EXCEPT !["late"] = 0] ELSE b.running[l]]

Stopped(b) ==
    [b EXCEPT !.keys = [n \in Names |-> None], !.routes = <<>>,
              !.cancelled = @ \cup Mine(b), !.fired = @ \cup Mine(b),
              !.timer = Unslept(b), !.holding = @ - Cardinality(Timed(b)),
              !.delayed = @ \ Mine(b), !.running = Unrun(b), !.ready = @ \o Releases(b)]

LEMMA StoppedTypes ==
  ASSUME NEW b \in BusType
  PROVE  /\ Mine(b) \subseteq Listeners /\ Timed(b) \subseteq Listeners /\ Cardinality(Timed(b)) \in Nat
         /\ Releases(b) \in Seq(TaskType) /\ b.ready \o Releases(b) \in Seq(TaskType)
         /\ \A i \in DOMAIN Releases(b) : Releases(b)[i].kind = "release" /\ Releases(b)[i].l \in Listeners
         /\ Unslept(b) \in [Listeners -> {"none", "sleeping"}] /\ Unrun(b) \in RunningType
         /\ \A l, k : On(b.routes, "main", l) => l \in Mine(b)
<1>1. b.routes \in Seq(RouteType) /\ b.timer \in [Listeners -> {"none", "sleeping"}] /\ b.ready \in Seq(TaskType)
      /\ b.running \in RunningType
  BY TypeFacts
<1>2. \A i \in DOMAIN b.routes : b.routes[i] \in RouteType
  BY <1>1, LenProperties, ElementOfSeq
<1>3. Mine(b) \subseteq Listeners /\ Timed(b) \subseteq Listeners
  BY <1>2 DEF Mine, Mains, Timed, RouteType
<1>4. Cardinality(Timed(b)) \in Nat
  BY <1>3, FS_Subset, FS_CardinalityType, BusAssumption
<1>. DEFINE I == {i \in Mains(b) : b.routes[i].l \notin app.parallel}
            g == Guards(b)
<1>5. g \in Seq(RouteType)
  <2>1. I \subseteq DOMAIN b.routes
    BY DEF Mains
  <2>2. Kept(b.routes, I) \in Seq(RouteType)
    <3>. HIDE DEF I
    <3>. QED BY <1>1, <2>1, KeptFacts
  <2>. QED BY <2>2 DEF Guards
<1>6. DOMAIN g = 1..Len(g) /\ Len(g) \in Nat /\ \A i \in DOMAIN g : g[i].l \in Listeners
  <2>. HIDE DEF g
  <2>1. DOMAIN g = 1..Len(g) /\ Len(g) \in Nat
    BY <1>5, LenProperties
  <2>2. \A i \in DOMAIN g : g[i] \in RouteType
    BY <1>5, <2>1, ElementOfSeq
  <2>. QED BY <2>1, <2>2 DEF RouteType
<1>. HIDE DEF I, g
<1>7. Releases(b) = [i \in 1..Len(g) |-> Task("release", g[i].l, None)]
  BY <1>6 DEF Releases, g
<1>8. \A i \in 1..Len(g) : /\ Task("release", g[i].l, None) \in TaskType
                           /\ Task("release", g[i].l, None).kind = "release"
                           /\ Task("release", g[i].l, None).l \in Listeners
  BY <1>6 DEF Task, TaskType, Kinds
<1>9. Releases(b) \in Seq(TaskType)
  BY <1>6, <1>7, <1>8
<1>10. \A i \in DOMAIN Releases(b) : Releases(b)[i].kind = "release" /\ Releases(b)[i].l \in Listeners
  BY <1>7, <1>8
<1>11. b.ready \o Releases(b) \in Seq(TaskType)
  BY <1>1, <1>9, ConcatProperties
<1>12. Unslept(b) \in [Listeners -> {"none", "sleeping"}]
  BY <1>1 DEF Unslept
<1>13. Unrun(b) \in RunningType
  BY <1>1 DEF Unrun, RunningType
<1>14. \A l : On(b.routes, "main", l) => l \in Mine(b)
  BY DEF On, Route, Mine, Mains
<1>. QED BY <1>3, <1>4, <1>9, <1>10, <1>11, <1>12, <1>13, <1>14

LEMMA StoppedFields ==
  ASSUME NEW b \in BusType
  PROVE  LET c == Stopped(b)
         IN  /\ c \in BusType /\ c.keys = [n \in Names |-> None] /\ c.routes = <<>>
             /\ c.cancelled = b.cancelled \cup Mine(b) /\ c.fired = b.fired \cup Mine(b)
             /\ c.timer = Unslept(b) /\ c.holding = b.holding - Cardinality(Timed(b))
             /\ c.delayed = b.delayed \ Mine(b) /\ c.running = Unrun(b) /\ c.ready = b.ready \o Releases(b)
             /\ c.slots = b.slots /\ c.pending = b.pending /\ c.loop = b.loop /\ c.left = b.left
<1>. DEFINE M == Mine(b)
            ke == [n \in Names |-> None]
            ro == <<>>
            ca == b.cancelled \cup M
            fi == b.fired \cup M
            ti == Unslept(b)
            ho == b.holding - Cardinality(Timed(b))
            de == b.delayed \ M
            ru == Unrun(b)
            re == b.ready \o Releases(b)
            c == Stopped(b)
<1>1. c = [b EXCEPT !.keys = ke, !.routes = ro, !.cancelled = ca, !.fired = fi, !.timer = ti, !.holding = ho,
                    !.delayed = de, !.running = ru, !.ready = re]
  BY DEF Stopped, BusType
<1>2. /\ ke \in [Names -> Listeners \cup {None}] /\ ro \in Seq(RouteType)
      /\ ca \in SUBSET Listeners /\ fi \in SUBSET Listeners /\ ti \in [Listeners -> {"none", "sleeping"}] /\ ho \in Int
      /\ de \in SUBSET app.debounced /\ ru \in [Listeners -> [Via -> Nat]] /\ re \in Seq(TaskType)
  <2>1. /\ M \subseteq Listeners /\ Cardinality(Timed(b)) \in Nat /\ b.ready \o Releases(b) \in Seq(TaskType)
        /\ Unslept(b) \in [Listeners -> {"none", "sleeping"}] /\ Unrun(b) \in RunningType
    BY StoppedTypes
  <2>2. b.cancelled \subseteq Listeners /\ b.fired \subseteq Listeners /\ b.delayed \subseteq app.debounced /\ b.holding \in Int
    BY TypeFacts
  <2>3. ro \in Seq(RouteType)
    OBVIOUS
  <2>4. ho \in Int
    BY <2>1, <2>2
  <2>. QED BY <2>1, <2>2, <2>3, <2>4 DEF RunningType
<1>. HIDE DEF c, ke, ro, ca, fi, ti, ho, de, ru, re
<1>3. c \in BusType
  BY <1>1, <1>2 DEF BusType
<1>4. /\ c.keys = ke /\ c.routes = ro /\ c.cancelled = ca /\ c.fired = fi /\ c.timer = ti /\ c.holding = ho
      /\ c.delayed = de /\ c.running = ru /\ c.ready = re
      /\ c.slots = b.slots /\ c.pending = b.pending /\ c.loop = b.loop /\ c.left = b.left
  BY <1>1 DEF BusType
<1>. QED BY <1>3, <1>4 DEF c, ke, ro, ca, fi, ti, ho, de, ru, re

LEMMA StoppedFacts ==
  ASSUME NEW b, NEW S, Sound(b, S)
  PROVE  LET c == Stopped(b)
         IN  /\ Sound(c, S) /\ Fewer(b, c) /\ c.cancelled \subseteq b.cancelled \cup S
             /\ b.fired \subseteq c.fired /\ c.loop = b.loop
             /\ Balanced(b) => Balanced(c)
             /\ Line(b) => Line(c)
             /\ \A m \in Listeners : \A state : Hold(c, state, m)
             /\ \A K : Named(c, K)
<1>. DEFINE c == Stopped(b)
            M == Mine(b)
<1>1. b \in BusType /\ Tasked(b, S) /\ Routed(b, S) /\ Used(b, S) /\ OneLate(b)
  BY DEF Sound
<1>2. /\ M \subseteq Listeners /\ Timed(b) \subseteq Listeners /\ Cardinality(Timed(b)) \in Nat
      /\ Releases(b) \in Seq(TaskType)
      /\ (\A i \in DOMAIN Releases(b) : Releases(b)[i].kind = "release" /\ Releases(b)[i].l \in Listeners)
      /\ \A l : On(b.routes, "main", l) => l \in M
  BY <1>1, StoppedTypes
<1>3. /\ c \in BusType /\ c.keys = [n \in Names |-> None] /\ c.routes = <<>>
      /\ c.cancelled = b.cancelled \cup M /\ c.fired = b.fired \cup M
      /\ c.timer = Unslept(b) /\ c.holding = b.holding - Cardinality(Timed(b))
      /\ c.delayed = b.delayed \ M /\ c.running = Unrun(b) /\ c.ready = b.ready \o Releases(b)
      /\ c.slots = b.slots /\ c.pending = b.pending /\ c.loop = b.loop /\ c.left = b.left
  BY <1>1, StoppedFields
<1>4. M \subseteq S
  <2>1. ASSUME NEW i \in Mains(b) PROVE b.routes[i].l \in S
    <3>1. b.routes[i] \in RouteType /\ b.routes[i].kind = "main" /\ i \in DOMAIN b.routes
      <4>1. b.routes \in Seq(RouteType)
        BY <1>1, TypeFacts
      <4>. QED BY <2>1, <4>1, LenProperties, ElementOfSeq DEF Mains
    <3>2. b.routes[i] = Route("main", b.routes[i].l) /\ b.routes[i].l \in Listeners
      BY <3>1 DEF RouteType, Route
    <3>3. On(b.routes, "main", b.routes[i].l)
      BY <3>1, <3>2 DEF On
    <3>. QED BY <1>1, <3>2, <3>3 DEF Routed
  <2>. QED BY <2>1 DEF Mine
<1>5. \A l \in Listeners : l \in S => l \in c.cancelled
  BY <1>1, <1>2, <1>3 DEF Routed
<1>6. /\ \A l \in Listeners : c.timer[l] = "sleeping" <=> b.timer[l] = "sleeping" /\ l \notin M
      /\ \A l \in Listeners : \A v \in Via : c.running[l][v] = b.running[l][v] \/ (v = "late" /\ c.running[l][v] = 0)
      /\ \A l \in Listeners : \A v \in Via : c.running[l][v] <= b.running[l][v]
  <2>0. b.running \in [Listeners -> [Via -> Nat]]
    BY <1>1 DEF BusType
  <2>1. \A l \in Listeners : c.timer[l] = IF l \in M THEN "none" ELSE b.timer[l]
    BY <1>3 DEF Unslept
  <2>2. \A l \in Listeners : \A v \in Via : c.running[l][v] = b.running[l][v] \/ (v = "late" /\ c.running[l][v] = 0)
    BY <1>3, <2>0 DEF Unrun, Via
  <2>3. ASSUME NEW l \in Listeners, NEW v \in Via PROVE c.running[l][v] <= b.running[l][v]
    <3>1. b.running[l][v] \in Nat
      BY <2>0
    <3>. QED BY <2>2, <3>1
  <2>. QED BY <2>1, <2>2, <2>3
<1>7. Later(b, c, S)
  <2>1. \A i \in DOMAIN Releases(b) : Releases(b)[i].kind \in Others /\ TaskOK(Releases(b)[i], S)
    BY <1>2 DEF Others, TaskOK, Pipe
  <2>. QED BY <1>2, <1>3, <2>1 DEF Later
<1>8. Tasked(c, S)
  BY <1>1, <1>3, <1>7, TasksFollow
<1>9. Routed(c, S)
  <2>1. DOMAIN c.routes = {}
    BY <1>3
  <2>2. Distinct(c.routes) /\ \A k, l : ~On(c.routes, k, l)
    BY <2>1 DEF Distinct, On
  <2>3. \A l \in Listeners : c.timer[l] = "sleeping" => l \in S
    BY <1>1, <1>6 DEF Used
  <2>. QED BY <1>5, <2>2, <2>3 DEF Routed
<1>10. Used(c, S)
  <2>1. \A l \in Listeners : c.timer[l] = "sleeping" => l \in S /\ l \in app.held
    BY <1>1, <1>6 DEF Used
  <2>2. c.delayed \subseteq S /\ c.delayed \cap c.cancelled = {}
    BY <1>1, <1>3 DEF Used
  <2>3. ASSUME NEW l \in Listeners, NEW v \in Via, c.running[l][v] > 0 PROVE l \in S
    <3>1. b.running[l][v] > 0
      <4>1. c.running[l][v] = b.running[l][v] \/ c.running[l][v] = 0
        BY <1>6
      <4>. QED BY <2>3, <4>1
    <3>. QED BY <1>1, <3>1 DEF Used
  <2>. QED BY <2>1, <2>2, <2>3 DEF Used
<1>11. OneLate(c)
  <2>1. ASSUME NEW l \in Listeners
        PROVE  c.running[l]["late"] <= 1 /\ (l \in c.delayed \cap app.parallel => c.running[l]["late"] = 0)
    <3>1. b.running[l]["late"] <= 1 /\ (l \in b.delayed \cap app.parallel => b.running[l]["late"] = 0)
      BY <1>1 DEF OneLate
    <3>2. c.running[l]["late"] = b.running[l]["late"] \/ c.running[l]["late"] = 0
      BY <1>6 DEF Via
    <3>. QED BY <1>3, <3>1, <3>2
  <2>. QED BY <2>1 DEF OneLate
<1>12. Sound(c, S)
  BY <1>3, <1>8, <1>9, <1>10, <1>11 DEF Sound
<1>13. Fewer(b, c)
  BY <1>6 DEF Fewer
<1>14. Line(b) => Line(c)
  BY <1>1, <1>3, <1>7, LineKept
<1>15. \A m \in Listeners : ~(m \notin c.cancelled /\ c.timer[m] = "sleeping")
  BY <1>5, <1>10 DEF Used
<1>16. \A m \in Listeners : \A state : Hold(c, state, m)
  BY <1>15 DEF Hold
<1>17. \A K : Named(c, K)
  BY <1>3 DEF Named
<1>18. Balanced(b) => Balanced(c)
  <2>. DEFINE K == FanOut \cup {"immediate", "settled"}
  <2>1. Number(c.ready, FanOut) = Number(b.ready, FanOut) + 0 /\ Number(c.ready, K) = Number(b.ready, K) + 0
    <3>1. \A i \in DOMAIN Releases(b) : Releases(b)[i].kind \notin FanOut /\ Releases(b)[i].kind \notin K
      BY <1>2 DEF FanOut
    <3>2. Number(Releases(b), FanOut) = 0 /\ Number(Releases(b), K) = 0
      BY <3>1, NumberZero
    <3>3. b.ready \in Seq(TaskType)
      BY <1>1, TypeFacts
    <3>4. \A N : Number(b.ready \o Releases(b), N) = Number(b.ready, N) + Number(Releases(b), N)
      BY <1>2, <3>3, NumberConcat
    <3>. QED BY <1>3, <3>2, <3>4
  <2>2. Run(c, "slot") = Run(b, "slot") /\ Run(c, "now") = Run(b, "now") /\ Run(c, "timer") = Run(b, "timer")
    <3>1. \A l \in Listeners : \A v \in {"slot", "now", "timer"} : c.running[l][v] = b.running[l][v]
      BY <1>6 DEF Via
    <3>2. \A v \in {"slot", "now", "timer"} : Runs(c.running, v) = Runs(b.running, v)
      BY <3>1, RunsSame
    <3>. QED BY <3>2 DEF Run
  <2>3. Asleep(c) = Asleep(b) - Cardinality(Timed(b))
    <3>. DEFINE X == {l \in Listeners : b.timer[l] = "sleeping"}
                Y == {l \in Listeners : c.timer[l] = "sleeping"}
                T == Timed(b)
    <3>1. Y = X \ T /\ X \cap T = T
      BY <1>2, <1>6 DEF Timed
    <3>2. IsFiniteSet(X)
      BY FS_Subset, BusAssumption
    <3>3. Asleep(b) = Cardinality(X) /\ Asleep(c) = Cardinality(Y)
      BY DEF Asleep
    <3>. HIDE DEF X, Y, T
    <3>4. Cardinality(X \ T) = Cardinality(X) - Cardinality(X \cap T)
      BY <3>2, FS_Difference
    <3>. QED BY <3>1, <3>3, <3>4 DEF T
  <2>4. Bit(c.loop.at = "woken") = Bit(b.loop.at = "woken")
    BY <1>3
  <2>5. /\ b.slots \in Int /\ b.pending \in Int /\ b.holding \in Int
        /\ Number(b.ready, FanOut) \in Nat /\ Number(b.ready, K) \in Nat
        /\ Run(b, "slot") \in Nat /\ Run(b, "now") \in Nat /\ Run(b, "timer") \in Nat
        /\ Asleep(b) \in Nat /\ Bit(b.loop.at = "woken") \in Nat
    BY <1>1, SumTypes DEF Via
  <2>. HIDE DEF c, K
  <2>6. SlotSum(c) = SlotSum(b)
    BY <1>3, <2>1, <2>2, <2>4, <2>5 DEF SlotSum
  <2>7. PendSum(c) = PendSum(b)
    BY <1>3, <2>1, <2>2, <2>5 DEF PendSum, K
  <2>8. HoldSum(c) = HoldSum(b)
    <3>1. HoldSum(c) = (b.holding - Cardinality(Timed(b))) - (Asleep(b) - Cardinality(Timed(b))) - Run(b, "timer")
      BY <1>3, <2>2, <2>3 DEF HoldSum
    <3>2. HoldSum(b) = b.holding - Asleep(b) - Run(b, "timer")
      BY DEF HoldSum
    <3>. QED BY <1>2, <2>5, <3>1, <3>2
  <2>. QED BY <2>6, <2>7, <2>8 DEF Balanced
<1>19. c.cancelled \subseteq b.cancelled \cup S /\ b.fired \subseteq c.fired
  BY <1>3, <1>4
<1>. QED BY <1>3, <1>12, <1>13, <1>14, <1>16, <1>17, <1>18, <1>19 DEF c

\* The app's bus is shut down.
LEMMA StopKept ==
  ASSUME BusInv, Stop
  PROVE  BusInv'
<1>. DEFINE c == Stopped(bus)
<1>1. /\ Around /\ Sound(bus, subs) /\ bus \in BusType /\ Line(bus) /\ Balanced(bus)
  BY DEF BusInv, Sound
<1>2. /\ gone' = Listeners /\ UNCHANGED <<app, home, sent, stream, cache, adding, subs>>
      /\ ran' = ran \cup {m \in Listeners : \E v \in Via : bus'.running[m][v] > bus.running[m][v]}
  BY DEF Stop, Becomes
<1>3. bus' = c
  <2>1. {l \in Mine(bus) : bus.timer[l] = "sleeping"} = Timed(bus)
    BY DEF Timed
  <2>. QED BY <1>1, <2>1 DEF Stop, Becomes, Stopped, Mine, Mains, Guards, Releases, Unslept, Unrun, BusType
<1>. HIDE DEF c
<1>4. /\ Sound(c, subs) /\ Fewer(bus, c) /\ c.cancelled \subseteq bus.cancelled \cup subs
      /\ bus.fired \subseteq c.fired /\ c.loop = bus.loop /\ Balanced(c) /\ Line(c)
      /\ (\A m \in Listeners : Hold(c, cache, m)) /\ \A K : Named(c, K)
  BY <1>1, StoppedFacts DEF c
<1>5. /\ adding' \in Seq(Listeners) /\ Distinct(adding') /\ subs' \subseteq Listeners /\ gone' \subseteq Listeners
      /\ \A i \in DOMAIN adding' : adding'[i] \notin subs'
  BY <1>1, <1>2 DEF Around
<1>6. c.cancelled \subseteq Listeners
  BY <1>4, TypeFacts DEF Sound
<1>7. /\ Sound(bus', subs') /\ Balanced(bus') /\ Line(bus') /\ (\A m \in Listeners : Hold(bus', cache, m))
      /\ bus'.loop.at = bus.loop.at /\ bus.fired \subseteq bus'.fired /\ Fewer(bus, bus')
      /\ bus'.cancelled \subseteq subs' \cup gone'
      /\ Named(bus', subs' \cup {adding'[i] : i \in DOMAIN adding'})
  BY <1>2, <1>3, <1>4, <1>6
<1>. QED BY <1>2, <1>5, <1>7, AppKept

----------------------------------------------------------------------------
(* The invariant holds *)

LEMMA InitInv ==
  ASSUME Init
  PROVE  BusInv
<1>1. /\ app \in Scenarios /\ home = "off" /\ cache = "off" /\ sent = 0 /\ stream = <<>> /\ adding = <<>>
      /\ subs = {} /\ gone = {} /\ ran = {}
  BY DEF Init
<1>2. /\ bus.keys = [n \in Names |-> None] /\ bus.routes = <<>> /\ bus.cancelled = {} /\ bus.fired = {}
      /\ bus.timer = [l \in Listeners |-> "none"] /\ bus.left = {} /\ bus.holding = 0 /\ bus.delayed = {}
      /\ bus.running = [l \in Listeners |-> [v \in Via |-> 0]] /\ bus.slots = app.slots /\ bus.pending = 0
      /\ bus.loop = [at |-> "waiting", todo |-> <<>>] /\ bus.ready = <<>>
  BY DEF Init
<1>3. app.slots \in Nat /\ app.events \in Nat
  BY <1>1, BusAssumption DEF Scenario
<1>4. bus \in BusType
  <2>1. /\ [n \in Names |-> None] \in [Names -> Listeners \cup {None}] /\ <<>> \in Seq(RouteType)
        /\ [l \in Listeners |-> "none"] \in [Listeners -> {"none", "sleeping"}]
        /\ [l \in Listeners |-> [v \in Via |-> 0]] \in [Listeners -> [Via -> Nat]]
        /\ <<>> \in Seq(TaskType)
    OBVIOUS
  <2>2. [at |-> "waiting", todo |-> <<>>] \in [at : {"waiting", "queued", "blocked", "woken"}, todo : Seq(TaskType)]
    BY <2>1
  <2>. QED BY <1>3, <2>1, <2>2 DEF Init, BusType
<1>5. DOMAIN bus.ready = {} /\ DOMAIN bus.loop.todo = {} /\ DOMAIN bus.routes = {} /\ DOMAIN adding = {}
  BY <1>1, <1>2
<1>6. Around
  <2>1. home \in States /\ cache \in States /\ sent \in 0..app.events
    BY <1>1, <1>3 DEF States
  <2>2. stream \in Seq(Changes) /\ adding \in Seq(Listeners) /\ Distinct(adding)
    BY <1>1, <1>5 DEF Distinct
  <2>3. bus.loop.at # "queued"
    BY <1>2
  <2>. QED BY <1>1, <1>2, <1>5, <2>1, <2>2, <2>3 DEF Around
<1>7. Sound(bus, subs)
  <2>1. Tasked(bus, subs)
    BY <1>5 DEF Tasked
  <2>2. Routed(bus, subs)
    BY <1>1, <1>2, <1>5 DEF Routed, Distinct, On
  <2>3. Used(bus, subs) /\ OneLate(bus)
    BY <1>2 DEF Used, OneLate, Via
  <2>. QED BY <1>4, <2>1, <2>2, <2>3 DEF Sound
<1>8. Named(bus, subs \cup Registering)
  BY <1>2 DEF Named
<1>9. Balanced(bus)
  <2>1. \A N : Number(bus.ready, N) = 0
    BY <1>5, NumberZero
  <2>2. \A v \in Via : Run(bus, v) = 0
    <3>. SUFFICES ASSUME NEW v \in Via PROVE Run(bus, v) = 0
      OBVIOUS
    <3>1. bus.running \in RunningType
      BY <1>4, TypeFacts
    <3>2. ASSUME NEW x \in Runs(bus.running, v) PROVE FALSE
      <4>1. PICK l \in Listeners : \E k \in 1..bus.running[l][v] : x = <<l, k>>
        BY <3>1, RunsFinite
      <4>2. bus.running[l][v] = 0
        BY <1>2
      <4>. QED BY <4>1, <4>2
    <3>3. Runs(bus.running, v) = {}
      BY <3>2
    <3>. QED BY <3>3, FS_EmptySet DEF Run
  <2>3. Asleep(bus) = 0
    <3>1. {l \in Listeners : bus.timer[l] = "sleeping"} = {}
      BY <1>2
    <3>. QED BY <3>1, FS_EmptySet DEF Asleep
  <2>4. Bit(bus.loop.at = "woken") = 0
    BY <1>2 DEF Bit
  <2>5. Run(bus, "slot") = 0 /\ Run(bus, "now") = 0 /\ Run(bus, "timer") = 0
    BY <2>2 DEF Via
  <2>. QED BY <1>2, <1>3, <2>1, <2>3, <2>4, <2>5 DEF Balanced, SlotSum, PendSum, HoldSum
<1>10. Line(bus)
  <2>1. bus.loop.at = "waiting" /\ bus.loop.todo = <<>> /\ bus.slots >= 0
    BY <1>2, <1>3
  <2>. QED BY <1>5, <2>1 DEF Line
<1>11. \A l \in Listeners : Hold(bus, cache, l)
  BY <1>2 DEF Hold
<1>. QED BY <1>6, <1>7, <1>8, <1>9, <1>10, <1>11 DEF BusInv

LEMMA NextInv ==
  ASSUME BusInv, [Next]_vars
  PROVE  BusInv'
<1>1. CASE Loop
  <2>1. CASE Receive
    BY <2>1, ReceiveKept
  <2>2. CASE RunLoop
    BY <2>2, RunLoopEvent, RunLoopSlot
  <2>3. CASE RunMain
    BY <2>3, RunMainKept
  <2>4. CASE RunCancel
    BY <2>4, RunCancelKept
  <2>5. CASE RunProxy
    BY <2>5, RunProxyKept
  <2>6. CASE RunImmediate
    BY <2>6, RunImmediateKept
  <2>7. CASE RunRelease
    BY <2>7, RunReleaseKept
  <2>8. CASE RunDone
    BY <2>8, RunDoneKept
  <2>. QED BY <1>1, <2>1, <2>2, <2>3, <2>4, <2>5, <2>6, <2>7, <2>8 DEF Loop
<1>2. CASE \E l \in Listeners : \/ \E via \in Via : Finish(l, via)
                                \/ TimerFires(l)
                                \/ DelayElapses(l)
                                \/ WindowEnds(l)
                                \/ Register(l)
                                \/ Cancel(l)
  BY <1>2, FinishKept, TimerFiresKept, DelayElapsesKept, WindowEndsKept, RegisterKept, CancelKept
<1>3. CASE Registered
  BY <1>3, RegisteredKept
<1>4. CASE RegisterFails
  BY <1>4, RegisterFailsKept
<1>5. CASE Stop
  BY <1>5, StopKept
<1>6. CASE \E s \in States : HomeChanges(s)
  BY <1>6, HomeChangesKept
<1>7. CASE UNCHANGED vars
  <2>1. UNCHANGED <<app, home, sent, stream, cache, adding, subs, gone, bus, ran>>
    BY <1>7 DEF vars
  <2>2. /\ Around /\ Sound(bus, subs) /\ Named(bus, subs \cup Registering)
        /\ Balanced(bus) /\ Line(bus) /\ \A m \in Listeners : Hold(bus, cache, m)
    BY DEF BusInv
  <2>3. Around'
    <3>1. /\ app' \in Scenarios /\ home' \in States /\ cache' \in States /\ sent' \in 0..app'.events
          /\ adding' \in Seq(Listeners) /\ subs' \subseteq Listeners /\ gone' \subseteq Listeners /\ ran' \subseteq Listeners
      BY <2>1, <2>2 DEF Around
    <3>2. Distinct(adding)' /\ \A i \in DOMAIN adding' : adding'[i] \notin subs'
      BY <2>1, <2>2 DEF Around, Distinct
    <3>3. /\ bus'.cancelled \subseteq subs' \cup gone' /\ app'.once \cap ran' \subseteq bus'.fired
          /\ stream' \in Seq(Changes) /\ (bus'.loop.at = "queued" => stream' # <<>>)
      BY <2>1, <2>2 DEF Around
    <3>. QED BY <3>1, <3>2, <3>3 DEF Around, Changes
  <2>4. /\ Sound(bus', subs') /\ Balanced(bus') /\ Line(bus') /\ (\A m \in Listeners : Hold(bus', cache', m))
        /\ Named(bus', subs' \cup {adding'[i] : i \in DOMAIN adding'})
    BY <2>1, <2>2 DEF Registering
  <2>. QED BY <2>1, <2>3, <2>4, InvPrimed
<1>. QED BY <1>1, <1>2, <1>3, <1>4, <1>5, <1>6, <1>7 DEF Next

LEMMA Invariance == Spec => []BusInv
<1>1. Init => BusInv
  BY InitInv
<1>2. BusInv /\ [Next]_vars => BusInv'
  BY NextInv
<1>. QED BY <1>1, <1>2, PTL DEF Spec

LEMMA CountsHold ==
  ASSUME BusInv
  PROVE  TypeOK
<1>1. /\ Around /\ Sound(bus, subs) /\ bus \in BusType /\ Balanced(bus) /\ Line(bus)
  BY DEF BusInv, Sound
<1>2. /\ bus.slots \in Int /\ bus.pending \in Int /\ bus.holding \in Int
      /\ (\A K : Number(bus.ready, K) \in Nat)
      /\ Run(bus, "slot") \in Nat /\ Run(bus, "now") \in Nat /\ Run(bus, "timer") \in Nat
      /\ Asleep(bus) \in Nat /\ Bit(bus.loop.at = "woken") \in Nat
  BY <1>1, SumTypes DEF Via
<1>. DEFINE K == FanOut \cup {"immediate", "settled"}
            x == Number(bus.ready, FanOut)
            y == Number(bus.ready, K)
            w == Bit(bus.loop.at = "woken")
            a == Asleep(bus)
            r == Run(bus, "slot")
            n == Run(bus, "now")
            t == Run(bus, "timer")
<1>3. bus.slots + x + r + w = app.slots /\ bus.pending - y - r - n = 0 /\ bus.holding - a - t = 0
  BY <1>1 DEF Balanced, SlotSum, PendSum, HoldSum
<1>4. x \in Nat /\ y \in Nat /\ w \in Nat /\ a \in Nat /\ r \in Nat /\ n \in Nat /\ t \in Nat
  BY <1>2
<1>5. /\ x = Count(FanOut) /\ y = Count(K) /\ r = Handlers("slot") /\ n = Handlers("now") /\ t = Handlers("timer")
      /\ w = (IF bus.loop.at = "woken" THEN 1 ELSE 0)
      /\ a = Cardinality({l \in Listeners : bus.timer[l] = "sleeping"})
  BY DEF Number, Hits, Count, Run, Runs, Handlers, Bit, Asleep
<1>6. bus.slots >= 0 /\ (bus.loop.at = "blocked" => bus.slots = 0)
  BY <1>1 DEF Line
<1>. HIDE DEF x, y, w, a, r, n, t
<1>7. /\ bus.pending = y + r + n /\ bus.holding = a + t /\ bus.slots \in 0..app.slots
      /\ bus.pending \in Nat /\ bus.holding \in Nat
  <2>. DEFINE s == bus.slots   p == bus.pending   h == bus.holding   z == app.slots
  <2>1. s \in Int /\ p \in Int /\ h \in Int
    BY <1>2
  <2>2. s + x + r + w = z /\ p - y - r - n = 0 /\ h - a - t = 0 /\ s >= 0
    BY <1>3, <1>6
  <2>. HIDE DEF s, p, h, z
  <2>3. p = y + r + n /\ p \in Nat
    BY <1>4, <2>1, <2>2
  <2>4. h = a + t /\ h \in Nat
    BY <1>4, <2>1, <2>2
  <2>5. s \in 0..z
    BY <1>4, <2>1, <2>2
  <2>. QED BY <2>3, <2>4, <2>5 DEF s, p, h, z
<1>8. CountsAccounted
  <2>1. \A l \in Listeners : bus.running[l]["late"] <= 1
    BY <1>1 DEF Sound, OneLate
  <2>. QED BY <1>3, <1>5, <1>6, <1>7, <2>1 DEF CountsAccounted, K
<1>9. /\ bus.keys \in [Names -> Listeners \cup {None}] /\ bus.timer \in [Listeners -> {"none", "sleeping"}]
      /\ bus.running \in [Listeners -> [Via -> Nat]]
      /\ bus.delayed \subseteq app.debounced /\ bus.owed \subseteq app.debounced
      /\ bus.shut \subseteq app.throttled /\ bus.loop.at \in {"waiting", "queued", "blocked", "woken"}
  BY <1>1 DEF BusType
<1>. QED BY <1>1, <1>7, <1>8, <1>9 DEF TypeOK, Around

\* Every dispatch slot, the count the tests wait for and the count of active timers
\* are accounted for, whatever the app does and however the tasks interleave.
THEOREM BusTypeCorrect == Spec => []TypeOK
<1>1. BusInv => TypeOK
  BY CountsHold
<1>. QED BY <1>1, Invariance, PTL

\* A live listener's timer is guarded by exactly one cancel listener while it sleeps, and
\* by none after, however starts, fires and removals interleave (bus/duration_timer.py).
THEOREM HoldsAreGuarded == Spec => []HoldGuarded
<1>1. ASSUME BusInv PROVE HoldGuarded
  <2>. SUFFICES ASSUME NEW l \in Listeners, l \notin bus.cancelled
                PROVE  Cardinality({i \in DOMAIN bus.routes : bus.routes[i] = Route("cancel", l)})
                         = IF bus.timer[l] = "sleeping" THEN 1 ELSE 0
    BY DEF HoldGuarded
  <2>1. Distinct(bus.routes) /\ (On(bus.routes, "cancel", l) <=> bus.timer[l] = "sleeping")
    BY <1>1 DEF BusInv, Sound, Routed
  <2>. DEFINE X == {i \in DOMAIN bus.routes : bus.routes[i] = Route("cancel", l)}
  <2>2. CASE bus.timer[l] = "sleeping"
    <3>1. PICK i \in DOMAIN bus.routes : bus.routes[i] = Route("cancel", l)
      BY <2>1, <2>2 DEF On
    <3>2. X = {i}
      BY <2>1, <3>1 DEF Distinct
    <3>. QED BY <2>2, <3>2, FS_Singleton
  <2>3. CASE bus.timer[l] # "sleeping"
    <3>1. X = {}
      BY <2>1, <2>3 DEF On
    <3>. QED BY <2>3, <3>1, FS_EmptySet
  <2>. QED BY <2>2, <2>3
<1>. QED BY <1>1, Invariance, PTL

\* No name refuses a registration on behalf of a listener that is gone: its holder is live
\* and routed or waits for the database, through replacements, failures and removals (bus/bus.py).
THEOREM NamesAreHeld == Spec => []KeyHolderLives
<1>1. ASSUME BusInv PROVE KeyHolderLives
  <2>. SUFFICES ASSUME NEW n \in Names, bus.keys[n] # None
                PROVE  /\ bus.keys[n] \notin bus.cancelled
                       /\ Contains(adding, bus.keys[n]) \/ Contains(bus.routes, Route("main", bus.keys[n]))
    BY DEF KeyHolderLives
  <2>. DEFINE l == bus.keys[n]
  <2>1. l \notin bus.cancelled /\ l \in subs \cup Registering
    BY <1>1 DEF BusInv, Named
  <2>2. adding \in Seq(Listeners) /\ bus.routes \in Seq(RouteType) /\ subs \subseteq Listeners /\ Sound(bus, subs)
    BY <1>1 DEF BusInv, Around, Sound, BusType
  <2>3. DOMAIN adding = 1..Len(adding) /\ DOMAIN bus.routes = 1..Len(bus.routes)
    BY <2>2, LenProperties
  <2>. HIDE DEF l
  <2>4. l \in Registering => Contains(adding, l)
    BY <2>3 DEF Registering, Contains
  <2>5. l \in subs => Contains(bus.routes, Route("main", l))
    BY <2>1, <2>2, <2>3 DEF Sound, Routed, On, Contains
  <2>. QED BY <2>1, <2>4, <2>5 DEF l
<1>. QED BY <1>1, Invariance, PTL

----------------------------------------------------------------------------
(* Handlers are started only when they are due *)

\* What a step that starts a handler of l's owes.
Due ==
    \A l \in Listeners : \A v \in Via : bus'.running[l][v] > bus.running[l][v] =>
        /\ v = "timer" /\ l \notin bus.cancelled => l \notin bus.left
        /\ v = "late" => l \notin bus.cancelled
        /\ l \notin app.once \cap ran

LEMMA RunningTypes ==
  ASSUME BusInv, BusInv'
  PROVE  bus.running \in RunningType /\ bus'.running \in RunningType
<1>1. bus \in BusType /\ (bus \in BusType)'
  BY DEF BusInv, Sound
<1>. QED BY <1>1 DEF BusType, RunningType

LEMMA DueFewer ==
  ASSUME BusInv, BusInv', Fewer(bus, bus')
  PROVE  Due
<1>1. \A l \in Listeners : \A v \in Via :
        bus'.running[l][v] <= bus.running[l][v] /\ bus'.running[l][v] \in Nat /\ bus.running[l][v] \in Nat
  BY RunningTypes DEF Fewer, RunningType
<1>2. \A l \in Listeners : \A v \in Via : ~(bus'.running[l][v] > bus.running[l][v])
  BY <1>1
<1>. QED BY <1>2 DEF Due

LEMMA DueSame ==
  ASSUME BusInv, BusInv', bus'.running = bus.running
  PROVE  Due
<1>1. Fewer(bus, bus')
  BY RunningTypes DEF Fewer, RunningType
<1>. QED BY <1>1, DueFewer

\* A listener's task, timer or immediate fire comes to its handler, the once-guard first.
LEMMA DueInvoked ==
  ASSUME BusInv, BusInv', NEW b, Sound(b, subs), b.running = bus.running, b.fired = bus.fired,
         NEW l \in Listeners, l \in subs, NEW v \in Via \ {"late"}, bus' = Invoked(b, l, v),
         v = "timer" /\ l \notin bus.cancelled => l \notin bus.left
  PROVE  Due
<1>. DEFINE c == Invoked(b, l, v)
<1>1. Grows(b, c, l, v) /\ (Spent(b, l) => Fewer(b, c))
  BY InvokedFacts
<1>. HIDE DEF c
<1>2. bus' = c
  BY DEF c
<1>3. CASE l \in app.once \cap ran
  <2>1. l \in bus.fired
    BY <1>3 DEF BusInv, Around
  <2>2. Fewer(bus, bus')
    BY <1>1, <1>2, <1>3, <2>1 DEF Spent, Fewer
  <2>. QED BY <2>2, DueFewer
<1>4. CASE l \notin app.once \cap ran
  <2>1. \A m \in Listeners : \A w \in Via : bus'.running[m][w] > bus.running[m][w] => m = l /\ w = v
    BY <1>1, <1>2 DEF Grows
  <2>. QED BY <1>4, <2>1 DEF Due
<1>. QED BY <1>3, <1>4

LEMMA DueTimer ==
  ASSUME BusInv, BusInv', NEW l \in Listeners, TimerFires(l)
  PROVE  Due
<1>. DEFINE b == [bus EXCEPT !.timer[l] = "none", !.routes = Without(@, "cancel", l)]
<1>1. /\ Sound(bus, subs) /\ bus.timer[l] = "sleeping" /\ Hold(bus, cache, l)
      /\ bus' = IF cache = "on" THEN Invoked(b, l, "timer") ELSE Ended(b, l, "timer")
  BY DEF BusInv, TimerFires, Becomes
<1>2. Sound(b, subs) /\ b.running = bus.running /\ b.fired = bus.fired /\ l \in subs
  BY <1>1, TimerOverFacts
<1>. HIDE DEF b
<1>3. "timer" \in Via /\ "timer" # "late"
  BY DEF Via
<1>4. CASE cache = "on"
  <2>1. l \notin bus.cancelled => l \notin bus.left
    BY <1>1, <1>4 DEF Hold
  <2>. QED BY <1>1, <1>2, <1>3, <1>4, <2>1, DueInvoked
<1>5. CASE cache # "on"
  <2>1. Fewer(b, Ended(b, l, "timer"))
    BY <1>2, <1>3, EndedFacts
  <2>2. Fewer(bus, bus')
    BY <1>1, <1>2, <1>5, <2>1 DEF Fewer
  <2>. QED BY <2>2, DueFewer
<1>. QED BY <1>4, <1>5

LEMMA DueDelay ==
  ASSUME BusInv, BusInv', NEW l \in Listeners, DelayElapses(l)
  PROVE  Due
<1>. DEFINE d == bus.delayed \ {l}
            h == bus.shut
            b == WaitOver(bus, d, h)
            c == Guarded(b, l, "late")
<1>1. /\ Sound(bus, subs) /\ bus \in BusType /\ l \in bus.delayed /\ app \in Scenarios
  BY DEF BusInv, Sound, DelayElapses, Around
<1>2. [bus EXCEPT !.delayed = @ \ {l}] = b
  BY <1>1 DEF BusType, WaitOver
<1>3. bus' = c
  BY <1>2 DEF DelayElapses, Becomes
<1>4. d \in SUBSET bus.delayed /\ h \in SUBSET bus.shut /\ l \notin d
  OBVIOUS
<1>. HIDE DEF d, h
<1>5. /\ Sound(b, subs) /\ Calm(bus, b, subs, l) /\ Stills(bus, b) /\ Moves(bus, b, 0, 0, 0)
      /\ b.keys = bus.keys /\ b.cancelled = bus.cancelled /\ b.running = bus.running /\ b.fired = bus.fired
      /\ b.delayed = d
  <2>1. Waited(bus, b, subs, d, l)
    BY <1>1, <1>4, WaitOverFacts
  <2>. HIDE DEF b
  <2>. QED BY <2>1 DEF Waited
<1>6. l \in subs /\ (l \in app.parallel => bus.running[l]["late"] = 0) /\ l \notin bus.cancelled
  BY <1>1 DEF Sound, Used, OneLate
<1>7. l \notin app.once
  <2>1. l \in app.debounced
    BY <1>1, TypeFacts
  <2>. QED BY <1>1, <2>1, BusAssumption
<1>8. "late" \in Via /\ l \notin b.delayed /\ (l \in app.parallel => b.running[l]["late"] = 0)
  BY <1>4, <1>5, <1>6 DEF Via
<1>. HIDE DEF b
<1>9. Grows(b, c, l, "late")
  BY <1>5, <1>6, <1>8, GuardedFacts
<1>. HIDE DEF c
<1>10. \A m \in Listeners : \A w \in Via : bus'.running[m][w] > bus.running[m][w] => m = l /\ w = "late"
  BY <1>3, <1>5, <1>9 DEF Grows
<1>. QED BY <1>6, <1>7, <1>10 DEF Due

LEMMA DueMain ==
  ASSUME BusInv, BusInv', RunMain
  PROVE  Due
<1>. DEFINE b == Started(bus)
            l == Current.l
<1>1. bus.ready # <<>> /\ Current.kind = "main"
  BY DEF RunMain, Running, Current
<1>2. Behind(b)
  BY <1>1, BehindFacts
<1>3. bus' = IF l \notin app.held THEN Invoked(b, l, "slot")
             ELSE Enqueue(IF l \in b.cancelled THEN b ELSE TimerStarted(b, l), Task("done", None, None))
  BY DEF RunMain, Becomes
<1>. HIDE DEF b
<1>4. /\ b \in BusType /\ Sound(b, subs) /\ b.running = bus.running /\ b.fired = bus.fired /\ l \in subs
  BY <1>1, <1>2 DEF Behind, TaskOK
<1>5. l \in Listeners
  BY <1>4 DEF BusInv, Around
<1>. HIDE DEF l
<1>6. CASE l \notin app.held
  <2>1. "slot" \in Via \ {"late"} /\ "slot" # "timer"
    BY DEF Via
  <2>. QED BY <1>3, <1>4, <1>5, <1>6, <2>1, DueInvoked
<1>7. CASE l \in app.held
  <2>1. bus'.running = bus.running
    BY <1>3, <1>4, <1>7 DEF Enqueue, TimerStarted, TimerCancelled, BusType
  <2>. QED BY <2>1, DueSame
<1>. QED BY <1>6, <1>7

LEMMA DueImmediate ==
  ASSUME BusInv, BusInv', RunImmediate
  PROVE  Due
<1>. DEFINE b == Started(bus)
            l == Current.l
            n == Enqueue(b, Task("settled", None, None))
            s == Enqueue(TimerStarted(b, l), Task("settled", None, None))
<1>1. bus.ready # <<>> /\ Current.kind = "immediate"
  BY DEF RunImmediate, Running, Current
<1>2. Behind(b)
  BY <1>1, BehindFacts
<1>3. bus' = n \/ bus' = Invoked(b, l, "now") \/ bus' = s
  BY DEF RunImmediate, Becomes
<1>. HIDE DEF b
<1>4. /\ b \in BusType /\ Sound(b, subs) /\ b.running = bus.running /\ b.fired = bus.fired /\ l \in subs
  BY <1>1, <1>2 DEF Behind, TaskOK
<1>5. l \in Listeners
  BY <1>4 DEF BusInv, Around
<1>. HIDE DEF l
<1>6. CASE bus' = Invoked(b, l, "now")
  <2>1. "now" \in Via \ {"late"} /\ "now" # "timer"
    BY DEF Via
  <2>. QED BY <1>4, <1>5, <1>6, <2>1, DueInvoked
<1>7. CASE bus' = n \/ bus' = s
  <2>1. n.running = b.running /\ s.running = b.running
    BY <1>4 DEF Enqueue, TimerStarted, TimerCancelled, BusType
  <2>2. bus'.running = bus.running
    BY <1>4, <1>7, <2>1
  <2>. QED BY <2>2, DueSame
<1>. QED BY <1>3, <1>6, <1>7

LEMMA DueEnds ==
  ASSUME BusInv, BusInv', (\E l \in Listeners, via \in Via : Finish(l, via)) \/ RunRelease
  PROVE  Due
<1>1. Sound(bus, subs) /\ bus \in BusType
  BY DEF BusInv, Sound
<1>2. ASSUME NEW l \in Listeners, NEW via \in Via, Finish(l, via) PROVE Fewer(bus, bus')
  <2>. DEFINE o == IF via = "late" THEN bus.owed \ ({l} \ bus.delayed) ELSE bus.owed
              c == Ended([bus EXCEPT !.running[l][via] = @ - 1, !.owed = o], l, via)
  <2>1. bus.running[l][via] > 0 /\ bus' = c
    BY <1>2 DEF Finish, Becomes
  <2>2. o \in SUBSET app.debounced
    BY <1>1, TypeFacts
  <2>. HIDE DEF o
  <2>3. Fewer(bus, c)
    BY <1>1, <2>1, <2>2, FinishedFacts
  <2>. QED BY <2>1, <2>3
<1>3. ASSUME RunRelease PROVE Fewer(bus, bus')
  <2>. DEFINE b == Started(bus)
              l == Current.l
              cut == {v \in Via : b.running[l][v] > 0}
              v == CHOOSE x \in cut : TRUE
              o == b.owed
              c == Ended([b EXCEPT !.running[l][v] = @ - 1], l, v)
              f == Ended([b EXCEPT !.running[l][v] = @ - 1, !.owed = o], l, v)
  <2>1. bus.ready # <<>> /\ Current.kind = "release" /\ bus' = IF cut = {} THEN b ELSE c
    BY <1>3 DEF RunRelease, Running, Current, Becomes
  <2>2. Behind(b)
    BY <2>1, BehindFacts
  <2>. HIDE DEF b
  <2>3. b \in BusType /\ Sound(b, subs) /\ b.running = bus.running /\ l \in Listeners
    BY <2>1, <2>2 DEF Behind, TaskOK
  <2>. HIDE DEF l
  <2>4. CASE cut = {}
    <3>1. bus'.running = bus.running
      BY <2>1, <2>3, <2>4
    <3>. QED BY <3>1, RunningTypes DEF Fewer, RunningType
  <2>5. CASE cut # {}
    <3>1. v \in Via /\ b.running[l][v] > 0
      BY <2>5
    <3>. HIDE DEF cut, v
    <3>2. [b EXCEPT !.running[l][v] = @ - 1] = [b EXCEPT !.running[l][v] = @ - 1, !.owed = o]
      BY <2>3 DEF BusType
    <3>3. o \in SUBSET app.debounced
      BY <2>3, TypeFacts
    <3>4. c = f
      BY <3>2
    <3>. HIDE DEF o
    <3>5. Fewer(b, f)
      BY <2>3, <3>1, <3>3, FinishedFacts
    <3>. HIDE DEF c, f
    <3>6. Fewer(b, bus')
      BY <2>1, <2>5, <3>4, <3>5
    <3>. QED BY <2>3, <3>6 DEF Fewer
  <2>. QED BY <2>4, <2>5
<1>. QED BY <1>2, <1>3, DueFewer

\* No other step of the event loop starts a handler.
LEMMA DueLoop ==
  ASSUME BusInv, BusInv', Receive \/ RunLoop \/ RunCancel \/ RunProxy \/ RunDone
  PROVE  Due
<1>1. bus \in BusType /\ Sound(bus, subs)
  BY DEF BusInv, Sound
<1>2. CASE Receive
  <2>1. bus'.running = bus.running
    BY <1>1, <1>2 DEF Receive, Enqueue, BusType
  <2>. QED BY <2>1, DueSame
<1>3. CASE RunLoop
  <2>1. bus'.running = bus.running
    <3>. DEFINE b == Started(bus)
                d == Enqueue([b EXCEPT !.pending = @ + 1], Head(b.loop.todo))
    <3>1. b \in BusType /\ b.running = bus.running
      <4>1. bus.ready # <<>>
        BY <1>3 DEF RunLoop, Running
      <4>. QED BY <1>1, <4>1, StartedFacts DEF Sound
    <3>2. bus' = Dispatched(b, Targets(bus, Head(stream))) \/ bus' = Dispatched(d, Tail(b.loop.todo))
      BY <1>3 DEF RunLoop
    <3>. HIDE DEF b
    <3>3. d.running = b.running /\ DOMAIN d = DOMAIN b
      BY <3>1 DEF Enqueue, BusType
    <3>4. \A q : Dispatched(b, q).running = b.running
      BY <3>1 DEF Dispatched, BusType
    <3>. HIDE DEF d
    <3>5. \A q : Dispatched(d, q).running = d.running
      BY <3>1, <3>3 DEF Dispatched, BusType
    <3>. QED BY <3>1, <3>2, <3>3, <3>4, <3>5
  <2>. QED BY <2>1, DueSame
<1>4. CASE RunCancel
  <2>1. bus'.running = bus.running
    BY <1>1, <1>4 DEF RunCancel, Becomes, Enqueue, Started, TimerCancelled, BusType
  <2>. QED BY <2>1, DueSame
<1>5. CASE RunProxy
  <2>1. bus'.running = bus.running
    BY <1>1, <1>5 DEF RunProxy, Becomes, Enqueue, Started, BusType
  <2>. QED BY <2>1, DueSame
<1>6. CASE RunDone
  <2>1. bus'.running = bus.running
    BY <1>1, <1>6 DEF RunDone, Becomes, Enqueue, Started, Freed, BusType
  <2>. QED BY <2>1, DueSame
<1>. QED BY <1>2, <1>3, <1>4, <1>5, <1>6

\* Nor does a step of the app.
LEMMA DueApp ==
  ASSUME BusInv, BusInv',
         \/ Registered \/ RegisterFails \/ Stop \/ (\E s \in States : HomeChanges(s)) \/ UNCHANGED vars
         \/ \E l \in Listeners : WindowEnds(l) \/ Register(l) \/ Cancel(l)
  PROVE  Due
<1>1. bus \in BusType /\ Sound(bus, subs)
  BY DEF BusInv, Sound
<1>2. CASE Registered \/ RegisterFails \/ (\E l \in Listeners : WindowEnds(l))
  <2>1. Registered => bus'.running = bus.running
    BY <1>1 DEF Registered, Becomes, Enqueue, BusType
  <2>2. RegisterFails => bus'.running = bus.running
    BY <1>1 DEF RegisterFails, Becomes, Refused, BusType
  <2>3. (\E l \in Listeners : WindowEnds(l)) => bus'.running = bus.running
    BY <1>1 DEF WindowEnds, Becomes, BusType
  <2>. QED BY <1>2, <2>1, <2>2, <2>3, DueSame
<1>3. CASE (\E s \in States : HomeChanges(s)) \/ UNCHANGED vars
  <2>1. bus' = bus
    BY <1>3 DEF HomeChanges, vars
  <2>. QED BY <2>1, DueSame
<1>4. CASE Stop
  <2>1. bus' = Stopped(bus)
    <3>1. {l \in Mine(bus) : bus.timer[l] = "sleeping"} = Timed(bus)
      BY DEF Timed
    <3>. QED BY <1>1, <1>4, <3>1 DEF Stop, Becomes, Stopped, Mine, Mains, Guards, Releases, Unslept, Unrun, BusType
  <2>2. Fewer(bus, Stopped(bus))
    BY <1>1, StoppedFacts
  <2>3. Fewer(bus, bus')
    BY <2>1, <2>2
  <2>. QED BY <2>3, DueFewer
<1>5. ASSUME NEW l \in Listeners PROVE Fewer(bus, Unsubscribed(bus, l))
  BY <1>1, UnsubscribedFacts DEF Parted
<1>6. ASSUME NEW l \in Listeners, Cancel(l) PROVE Due
  <2>1. bus' = Unsubscribed(bus, l)
    BY <1>6 DEF Cancel, Becomes
  <2>2. Fewer(bus, bus')
    BY <1>5, <2>1
  <2>. QED BY <2>2, DueFewer
<1>7. ASSUME NEW l \in Listeners, Register(l) PROVE Due
  <2>. DEFINE old == bus.keys[NameOf[l]]
              b == IF old = None THEN bus ELSE Unsubscribed(bus, old)
  <2>1. bus' = Renamed(b, l, l)
    BY <1>7 DEF Register, Becomes, Renamed
  <2>2. old \in Listeners \cup {None}
    BY <1>1, BusAssumption DEF BusType
  <2>. HIDE DEF old
  <2>3. b \in BusType /\ Sound(b, subs) /\ Fewer(bus, b)
    <3>1. CASE old = None
      BY <1>1, <3>1, RunningTypes DEF Fewer, RunningType
    <3>2. CASE old # None
      <4>1. Sound(Unsubscribed(bus, old), subs)
        BY <1>1, <2>2, <3>2, UnsubscribedFacts DEF Parted
      <4>. QED BY <1>5, <2>2, <3>2, <4>1 DEF Sound
    <3>. QED BY <3>1, <3>2
  <2>. HIDE DEF b
  <2>4. Renamed(b, l, l).running = b.running
    <3>1. Aside(b, Renamed(b, l, l))
      BY <2>3, RenamedFacts
    <3>. QED BY <3>1 DEF Aside
  <2>5. Fewer(bus, bus')
    BY <2>1, <2>3, <2>4 DEF Fewer
  <2>. QED BY <2>5, DueFewer
<1>. QED BY <1>2, <1>3, <1>4, <1>6, <1>7

LEMMA NextDue ==
  ASSUME BusInv, BusInv', [Next]_vars
  PROVE  Due
<1>1. CASE Loop
  BY <1>1, DueLoop, DueMain, DueImmediate, DueEnds DEF Loop
<1>2. CASE \E l \in Listeners : \/ \E via \in Via : Finish(l, via)
                                \/ TimerFires(l)
                                \/ DelayElapses(l)
                                \/ WindowEnds(l)
                                \/ Register(l)
                                \/ Cancel(l)
  BY <1>2, DueEnds, DueTimer, DueDelay, DueApp
<1>3. CASE Registered \/ RegisterFails \/ Stop \/ (\E s \in States : HomeChanges(s)) \/ UNCHANGED vars
  BY <1>3, DueApp
<1>. QED BY <1>1, <1>2, <1>3 DEF Next

\* A timer starts its handler only if the state was held since the timer was started, no removed
\* listener's debounced handler is started, and a once-listener's at most once, whichever
\* of event, timer and immediate fire comes first (bus/duration_timer.py, bus/rate_limiter.py,
\* core/bus_service.py).
THEOREM HandlersAreDue == Spec => StartsOnlyWhenDue
<1>1. ASSUME BusInv, BusInv', [Next]_vars
      PROVE  /\ \A l \in Listeners \ bus.cancelled :
                  bus'.running[l]["timer"] > bus.running[l]["timer"] => l \notin bus.left
             /\ \A l \in bus.cancelled : bus'.running[l]["late"] <= bus.running[l]["late"]
             /\ \A l \in app.once \cap ran : \A v \in Via : bus'.running[l][v] <= bus.running[l][v]
  <2>1. Due
    BY <1>1, NextDue
  <2>2. \A l \in Listeners : \A v \in Via : bus'.running[l][v] \in Nat /\ bus.running[l][v] \in Nat
    BY <1>1, RunningTypes DEF RunningType
  <2>3. bus.cancelled \subseteq Listeners /\ ran \subseteq Listeners
    BY <1>1, TypeFacts DEF BusInv, Sound, Around
  <2>4. \A l \in Listeners : \A v \in Via :
          ~(bus'.running[l][v] > bus.running[l][v]) => bus'.running[l][v] <= bus.running[l][v]
    BY <2>2
  <2>5. "timer" \in Via /\ "late" \in Via
    BY DEF Via
  <2>. QED BY <2>1, <2>3, <2>4, <2>5 DEF Due
<1>. QED BY <1>1, Invariance, PTL DEF Spec, StartsOnlyWhenDue, HeldThroughout, NeverLate
=============================================================================
