---- MODULE DiscoveryProofs ----
(***************************************************************************)
(* The platform forgets no file and the project model says nothing of a     *)
(* file that the version it knows does not say, whatever the number of      *)
(* files, the limit of the queue, the capacity of the model and what comes  *)
(* between the awaits of the parser.                                        *)
(***************************************************************************)
EXTENDS Platform, FiniteSetTheorems, SequenceTheorems, WellFoundedInduction, TLAPS

\* A set of numbers has a least one: what stands for induction below.
LEMMA Least ==
    ASSUME NEW S, S \subseteq Nat, S # {}
    PROVE  \E n \in S : \A m \in S : n <= m
<1>1. IsWellFoundedOn(OpToRel(<, Nat), Nat)
  BY NatLessThanWellFounded
<1>2. PICK n \in S : \A m \in S : ~ (<<m, n>> \in OpToRel(<, Nat))
  BY <1>1, WFMin
<1>3. \A m \in S : ~ (m < n)
  BY <1>2 DEF OpToRel
<1> QED
  BY <1>3

\* What a batch does, one observation after the other.
IsUnfolded(N, order, after, work, batch, priority) ==
    /\ \A a \in DOMAIN batch : \E n \in 1..N : order[n] = a
    /\ after[0] = work
    /\ \A n \in 1..N : after[n] = ObserveOne(after[n - 1], order[n], batch[order[n]], priority)
    /\ ObserveAll(work, batch, priority) = after[N]

\* A batch is observed in some order, each file once, from what was known to what is known.
LEMMA FoldIsDefined ==
    ASSUME NEW work, NEW batch, NEW priority, IsFiniteSet(DOMAIN batch)
    PROVE  \E N \in Nat : \E order \in [1..N -> DOMAIN batch] : \E after :
              IsUnfolded(N, order, after, work, batch, priority)
<1> DEFINE order == SetToSeq(DOMAIN batch)
<1> DEFINE N == Cardinality(DOMAIN batch)
<1> DEFINE Step(f, n) == IF n = 0 THEN work ELSE ObserveOne(f[n - 1], order[n], batch[order[n]], priority)
<1>1. N \in Nat
  BY FS_CardinalityType
<1>2. order \in [1..N -> DOMAIN batch] /\ \A a \in DOMAIN batch : \E n \in 1..N : order[n] = a
  <2>1. ExistsBijection(1..N, DOMAIN batch)
    BY FS_CardinalityType
  <2>2. PICK f \in [1..N -> DOMAIN batch] : IsInjective(f)
    BY <2>1 DEF ExistsBijection, Bijection, Injection, IsInjective
  <2>3. order \in [1..N -> DOMAIN batch] /\ IsInjective(order)
    BY <2>2 DEF SetToSeq
  <2>4. order \in Injection(1..N, DOMAIN batch) /\ IsFiniteSet(1..N) /\ Cardinality(1..N) = N
    BY <2>3, <1>1, FS_Interval DEF Injection
  <2>5. IsFiniteSet(DOMAIN batch) /\ Cardinality(1..N) = Cardinality(DOMAIN batch)
    BY <2>4
  <2>6. order \in Surjection(1..N, DOMAIN batch)
    <3> HIDE DEF order
    <3> QED
      BY <2>4, <2>5, FS_Injection
  <2> QED
    BY <2>3, <2>6 DEF Surjection
<1>3. Len(order) = N
  BY <1>1, <1>2
<1> DEFINE after == CHOOSE f : f = [n \in 0..N |-> Step(f, n)]
<1>4. ObserveAll(work, batch, priority) = after[N]
  BY <1>3 DEF ObserveAll
<1>5. \A n \in Nat : \E f : f = [k \in 0..n |-> Step(f, k)]
  <2> DEFINE Bad == {n \in Nat : ~ \E f : f = [k \in 0..n |-> Step(f, k)]}
  <2> SUFFICES ASSUME Bad # {} PROVE FALSE
    OBVIOUS
  <2>1. PICK n \in Bad : \A m \in Bad : n <= m
    BY Least
  <2>2. CASE n = 0
    <3> DEFINE g == [k \in 0..n |-> work]
    <3>1. g = [k \in 0..n |-> Step(g, k)]
      BY <2>2
    <3> QED
      BY <3>1, <2>1
  <2>3. CASE n # 0
    <3>1. n - 1 \in Nat /\ n - 1 \notin Bad
      BY <2>1, <2>3
    <3>2. PICK f : f = [k \in 0..(n - 1) |-> Step(f, k)]
      BY <3>1
    <3> HIDE DEF Step
    <3> DEFINE g == [k \in 0..n |-> Step(f, k)]
    <3>3. \A k \in 0..(n - 1) : g[k] = f[k]
      BY <3>1, <3>2
    <3>6. g = [k \in 0..n |-> Step(f, k)]
      OBVIOUS
    <3> HIDE DEF g
    <3>4. \A k \in 0..n : Step(f, k) = Step(g, k)
      <4> TAKE k \in 0..n
      <4>1. CASE k = 0
        BY <4>1 DEF Step
      <4>2. CASE k # 0
        <5>1. f[k - 1] = g[k - 1]
          BY <3>1, <3>3, <4>2
        <5> QED
          BY <4>2, <5>1 DEF Step
      <4> QED
        BY <4>1, <4>2
    <3>5. g = [k \in 0..n |-> Step(g, k)]
      BY <3>4, <3>6
    <3> QED
      BY <3>5, <2>1
  <2> QED
    BY <2>2, <2>3
<1> HIDE DEF Step
<1>6. after = [n \in 0..N |-> Step(after, n)]
  BY <1>1, <1>5
<1> HIDE DEF after, order, N
<1>7. after[0] = work /\ \A n \in 1..N : after[n] = ObserveOne(after[n - 1], order[n], batch[order[n]], priority)
  BY <1>1, <1>6 DEF Step
<1> QED
  BY <1>1, <1>2, <1>4, <1>7 DEF IsUnfolded

\* What every observation keeps, a batch keeps.
LEMMA BatchKeeps ==
    ASSUME NEW P, NEW work \in P, NEW batch, NEW priority, IsFiniteSet(DOMAIN batch),
           \A w \in P, a \in DOMAIN batch : ObserveOne(w, a, batch[a], priority) \in P
    PROVE  ObserveAll(work, batch, priority) \in P
<1>1. PICK N \in Nat : \E order \in [1..N -> DOMAIN batch] : \E after :
              IsUnfolded(N, order, after, work, batch, priority)
  BY FoldIsDefined
<1>2. PICK order \in [1..N -> DOMAIN batch] : \E after : IsUnfolded(N, order, after, work, batch, priority)
  BY <1>1
<1>0. PICK after : IsUnfolded(N, order, after, work, batch, priority)
  BY <1>2
<1>3. /\ \A a \in DOMAIN batch : \E n \in 1..N : order[n] = a
      /\ after[0] = work
      /\ \A n \in 1..N : after[n] = ObserveOne(after[n - 1], order[n], batch[order[n]], priority)
      /\ ObserveAll(work, batch, priority) = after[N]
  BY <1>0 DEF IsUnfolded
<1> DEFINE Bad == {n \in 0..N : after[n] \notin P}
<1>4. SUFFICES ASSUME Bad # {} PROVE FALSE
  BY <1>3
<1>5. PICK n \in Bad : \A m \in Bad : n <= m
  <2>1. Bad \subseteq Nat
    OBVIOUS
  <2> QED
    BY <2>1, <1>4, Least
<1>6. n # 0
  BY <1>3, <1>5
<1>7. after[n - 1] \in P /\ n \in 1..N
  BY <1>5, <1>6
<1>8. order[n] \in DOMAIN batch
  BY <1>7
<1> QED
  BY <1>3, <1>5, <1>7, <1>8

\* What the observation of one file brings about and every other keeps, a batch with that file
\* brings about.
LEMMA BatchReaches ==
    ASSUME NEW P, NEW Q, NEW work \in P, NEW batch, NEW priority, IsFiniteSet(DOMAIN batch),
           NEW c \in DOMAIN batch,
           \A w \in P, a \in DOMAIN batch : ObserveOne(w, a, batch[a], priority) \in P,
           \A w \in P : ObserveOne(w, c, batch[c], priority) \in Q,
           \A w \in Q, a \in DOMAIN batch : ObserveOne(w, a, batch[a], priority) \in Q
    PROVE  ObserveAll(work, batch, priority) \in Q
<1>1. PICK N \in Nat : \E order \in [1..N -> DOMAIN batch] : \E after :
              IsUnfolded(N, order, after, work, batch, priority)
  BY FoldIsDefined
<1>2. PICK order \in [1..N -> DOMAIN batch] : \E after : IsUnfolded(N, order, after, work, batch, priority)
  BY <1>1
<1>0. PICK after : IsUnfolded(N, order, after, work, batch, priority)
  BY <1>2
<1>3. /\ \A a \in DOMAIN batch : \E n \in 1..N : order[n] = a
      /\ after[0] = work
      /\ \A n \in 1..N : after[n] = ObserveOne(after[n - 1], order[n], batch[order[n]], priority)
      /\ ObserveAll(work, batch, priority) = after[N]
  BY <1>0 DEF IsUnfolded
<1>4. PICK k \in 1..N : order[k] = c
  BY <1>3
<1> DEFINE Bad == {n \in 0..N : after[n] \notin P \/ (n >= k /\ after[n] \notin Q)}
<1>5. SUFFICES ASSUME Bad # {} PROVE FALSE
  <2>1. ObserveAll(work, batch, priority) = after[N]
    BY <1>3
  <2>2. N \in 0..N /\ N >= k
    OBVIOUS
  <2> QED
    BY <2>1, <2>2
<1>6. PICK n \in Bad : \A m \in Bad : n <= m
  <2>1. Bad \subseteq Nat
    OBVIOUS
  <2> QED
    BY <2>1, <1>5, Least
<1>7. n # 0
  BY <1>3, <1>6
<1>8. n - 1 \in 0..N /\ n - 1 \notin Bad /\ n \in 1..N
  BY <1>6, <1>7
<1>9. order[n] \in DOMAIN batch
  BY <1>8
<1>10. after[n] = ObserveOne(after[n - 1], order[n], batch[order[n]], priority)
  BY <1>3, <1>8
<1>11. after[n] \in P
  BY <1>8, <1>9, <1>10
<1>12. ASSUME n >= k PROVE after[n] \in Q
  <2>1. CASE n = k
    BY <2>1, <1>4, <1>8, <1>10
  <2>2. CASE n # k
    BY <2>2, <1>12, <1>8, <1>9, <1>10
  <2> QED
    BY <2>1, <2>2
<1> QED
  BY <1>6, <1>11, <1>12

-----------------------------------------------------------------------------
(* The queue. *)

Queues ==
    {q \in Seq(Items) : Len(q) <= QueueLimit /\ \A i, j \in DOMAIN q : q[i].of = q[j].of => i = j}

Entries(q) == {q[i] : i \in DOMAIN q}

\* What a queue is: entries of different files, no more than the limit.
LEMMA QueueFacts ==
    ASSUME NEW q \in Queues
    PROVE  /\ q \in Seq(Items) /\ Len(q) \in Nat /\ DOMAIN q = 1..Len(q) /\ Len(q) <= QueueLimit
           /\ \A i \in 1..Len(q) : q[i] \in Items
           /\ \A i, j \in 1..Len(q) : q[i].of = q[j].of => i = j
           /\ Entries(q) \subseteq Items
BY DEF Queues, Entries

\* The queue that Init and close leave.
LEMMA EmptyQueue == <<>> \in Queues /\ Entries(<<>>) = {} /\ Len(<<>>) = 0
BY PlatformAssumption DEF Queues, Entries

\* Taking one entry out leaves the others, each once.
LEMMA RemovedAt ==
    ASSUME NEW q \in Queues, NEW i \in 1..Len(q)
    PROVE  /\ RemoveAt(q, i) \in Queues /\ Len(RemoveAt(q, i)) = Len(q) - 1
           /\ Entries(RemoveAt(q, i)) = Entries(q) \ {q[i]}
           /\ Entries(RemoveAt(q, i)) = {e \in Entries(q) : e.of # q[i].of}
<1> DEFINE n == Len(q)  r == RemoveAt(q, i)
<1>1. /\ q \in Seq(Items) /\ n \in Nat /\ DOMAIN q = 1..n /\ n <= QueueLimit
      /\ \A j, k \in 1..n : q[j].of = q[k].of => j = k
  BY QueueFacts
<1>2. /\ SubSeq(q, 1, i - 1) \in Seq(Items) /\ Len(SubSeq(q, 1, i - 1)) = i - 1
      /\ \A k \in 1..(i - 1) : SubSeq(q, 1, i - 1)[k] = q[k]
  BY <1>1
<1>3. /\ SubSeq(q, i + 1, n) \in Seq(Items) /\ Len(SubSeq(q, i + 1, n)) = n - i
      /\ \A k \in 1..(n - i) : SubSeq(q, i + 1, n)[k] = q[i + k]
  <2>1. \A k \in (i + 1)..n : q[k] \in Items
    BY <1>1
  <2>2. /\ SubSeq(q, i + 1, n) \in Seq(Items)
        /\ Len(SubSeq(q, i + 1, n)) = IF i + 1 <= n THEN n - (i + 1) + 1 ELSE 0
        /\ \A k \in 1..(n - (i + 1) + 1) : SubSeq(q, i + 1, n)[k] = q[(i + 1) + k - 1]
    BY <2>1, <1>1, SubSeqProperties
  <2>3. ASSUME NEW k \in 1..(n - i) PROVE SubSeq(q, i + 1, n)[k] = q[i + k]
    <3>1. k \in 1..(n - (i + 1) + 1) /\ (i + 1) + k - 1 = i + k
      BY <1>1
    <3> HIDE DEF n
    <3> QED
      BY <2>2, <3>1
  <2>4. Len(SubSeq(q, i + 1, n)) = n - i
    <3>1. n \in Nat /\ i \in 1..n /\ Len(SubSeq(q, i + 1, n)) = IF i + 1 <= n THEN n - (i + 1) + 1 ELSE 0
      BY <1>1, <2>2
    <3> DEFINE length == Len(SubSeq(q, i + 1, n))
    <3> HIDE DEF n, length
    <3>2. CASE i + 1 <= n
      BY <3>1, <3>2 DEF length
    <3>3. CASE ~ (i + 1 <= n)
      BY <3>1, <3>3 DEF length
    <3> QED
      BY <3>2, <3>3 DEF length
  <2> QED
    BY <2>2, <2>3, <2>4
<1> DEFINE front == SubSeq(q, 1, i - 1)  back == SubSeq(q, i + 1, n)
<1>4. /\ r \in Seq(Items) /\ Len(r) = n - 1 /\ DOMAIN r = 1..(n - 1)
      /\ \A k \in 1..(n - 1) : r[k] = IF k < i THEN q[k] ELSE q[k + 1]
  <2>1. r = front \o back
    BY DEF RemoveAt
  <2>2. /\ front \in Seq(Items) /\ Len(front) = i - 1 /\ \A k \in 1..(i - 1) : front[k] = q[k]
        /\ back \in Seq(Items) /\ Len(back) = n - i /\ \A k \in 1..(n - i) : back[k] = q[i + k]
    BY <1>2, <1>3
  <2> HIDE DEF r, front, back
  <2>3. /\ r \in Seq(Items) /\ Len(r) = Len(front) + Len(back)
        /\ \A k \in 1..(Len(front) + Len(back)) :
              r[k] = IF k <= Len(front) THEN front[k] ELSE back[k - Len(front)]
    BY <2>1, <2>2, ConcatProperties
  <2>4. Len(front) + Len(back) = n - 1
    BY <1>1, <2>2
  <2>5. \A k \in 1..(n - 1) : r[k] = IF k < i THEN q[k] ELSE q[k + 1]
    <3> TAKE k \in 1..(n - 1)
    <3>1. CASE k < i
      <4>1. k \in 1..(i - 1) /\ k <= Len(front)
        BY <3>1, <2>2
      <4> QED
        BY <3>1, <4>1, <2>2, <2>3, <2>4
    <3>2. CASE ~ (k < i)
      <4>1. k - (i - 1) \in 1..(n - i) /\ i + (k - (i - 1)) = k + 1 /\ ~ (k <= Len(front))
        BY <3>2, <1>1, <2>2
      <4>2. r[k] = back[k - (i - 1)]
        BY <4>1, <2>2, <2>3, <2>4
      <4> QED
        BY <3>2, <4>1, <4>2, <2>2
    <3> QED
      BY <3>1, <3>2
  <2> QED
    BY <2>3, <2>4, <2>5, <1>1
<1> HIDE DEF r, front, back
<1>5. ASSUME NEW j \in 1..(n - 1), NEW k \in 1..(n - 1), r[j].of = r[k].of PROVE j = k
  <2> DEFINE a == IF j < i THEN j ELSE j + 1
  <2> DEFINE b == IF k < i THEN k ELSE k + 1
  <2>1. a \in 1..n /\ b \in 1..n
    BY <1>1
  <2>2. r[j] = q[a] /\ r[k] = q[b]
    BY <1>1, <1>4
  <2>3. a = b
    <3> HIDE DEF a, b
    <3> QED
      BY <2>1, <2>2, <1>1, <1>5
  <2>4. i \in Nat /\ j \in Nat /\ k \in Nat
    BY <1>1
  <2>5. CASE j < i /\ k < i
    BY <2>3, <2>5
  <2>6. CASE j < i /\ ~ (k < i)
    BY <2>3, <2>4, <2>6
  <2>7. CASE ~ (j < i) /\ k < i
    BY <2>3, <2>4, <2>7
  <2>8. CASE ~ (j < i) /\ ~ (k < i)
    BY <2>3, <2>4, <2>8
  <2> QED
    BY <2>5, <2>6, <2>7, <2>8
<1>6. r \in Queues
  <2>1. n - 1 <= QueueLimit
    BY <1>1, PlatformAssumption
  <2>2. \A j, k \in DOMAIN r : r[j].of = r[k].of => j = k
    BY <1>4, <1>5
  <2> HIDE DEF n
  <2> QED
    BY <1>4, <2>1, <2>2 DEF Queues
<1>7. \A e \in Entries(r) : e \in Entries(q) /\ e.of # q[i].of
  <2> TAKE e \in Entries(r)
  <2>1. PICK k \in 1..(n - 1) : e = r[k]
    BY <1>4 DEF Entries
  <2>2. \E j \in 1..n : j # i /\ e = q[j]
    <3>1. CASE k < i
      BY <3>1, <2>1, <1>1, <1>4
    <3>2. CASE ~ (k < i)
      BY <3>2, <2>1, <1>1, <1>4
    <3> QED
      BY <3>1, <3>2
  <2> QED
    BY <2>2, <1>1 DEF Entries
<1>8. \A e \in Entries(q) : e # q[i] => e \in Entries(r)
  <2> SUFFICES ASSUME NEW k \in 1..n, q[k] # q[i] PROVE q[k] \in Entries(r)
    BY <1>1 DEF Entries
  <2>1. \E j \in 1..(n - 1) : r[j] = q[k]
    <3>1. CASE k < i
      BY <3>1, <1>1, <1>4
    <3>2. CASE k > i
      <4>1. k - 1 \in 1..(n - 1) /\ ~ (k - 1 < i) /\ (k - 1) + 1 = k
        BY <3>2, <1>1
      <4> QED
        BY <4>1, <1>4
    <3> QED
      BY <3>1, <3>2, <1>1
  <2> QED
    BY <2>1, <1>4 DEF Entries
<1> QED
  BY <1>4, <1>6, <1>7, <1>8 DEF r

\* queue.delete takes out just the entry of the file.
LEMMA DequeuedIs ==
    ASSUME NEW q \in Queues, NEW a
    PROVE  /\ Dequeued(q, a) \in Queues
           /\ Entries(Dequeued(q, a)) = {e \in Entries(q) : e.of # a}
<1>1. CASE Waits(q, a)
  <2> DEFINE i == CHOOSE k \in DOMAIN q : q[k].of = a
  <2>1. i \in DOMAIN q /\ q[i].of = a
    BY <1>1 DEF Waits
  <2>2. Dequeued(q, a) = RemoveAt(q, i)
    BY <1>1 DEF Dequeued
  <2> HIDE DEF i
  <2> QED
    BY <2>1, <2>2, RemovedAt, QueueFacts
<1>2. CASE ~ Waits(q, a)
  BY <1>2 DEF Dequeued, Waits, Entries
<1> QED
  BY <1>1, <1>2

\* A file that does not wait may be appended while there is room.
LEMMA AppendedIs ==
    ASSUME NEW q \in Queues, NEW item \in Items, Len(q) < QueueLimit, ~ Waits(q, item.of)
    PROVE  Append(q, item) \in Queues /\ Entries(Append(q, item)) = Entries(q) \union {item}
<1> DEFINE r == Append(q, item)
<1>1. /\ q \in Seq(Items) /\ Len(q) \in Nat /\ DOMAIN q = 1..Len(q)
      /\ \A i, j \in 1..Len(q) : q[i].of = q[j].of => i = j
  BY QueueFacts
<1>2. /\ r \in Seq(Items) /\ Len(r) = Len(q) + 1 /\ DOMAIN r = 1..(Len(q) + 1)
      /\ \A k \in 1..Len(q) : r[k] = q[k]
      /\ r[Len(q) + 1] = item
  BY <1>1, AppendProperties
<1> HIDE DEF r
<1>3. \A k \in 1..Len(q) : q[k].of # item.of
  BY <1>1 DEF Waits
<1>4. \A j, k \in DOMAIN r : r[j].of = r[k].of => j = k
  BY <1>1, <1>2, <1>3
<1>5. r \in Queues
  BY <1>1, <1>2, <1>4, PlatformAssumption DEF Queues
<1>6. Entries(r) = Entries(q) \union {item}
  BY <1>1, <1>2 DEF Entries
<1> QED
  BY <1>5, <1>6 DEF r

\* A file that waits is given its new version.
Replaced(q, a, gen, priority) ==
    [i \in DOMAIN q |->
        IF q[i].of = a THEN [of |-> a, gen |-> gen, priority |-> priority \/ q[i].priority] ELSE q[i]]

\* queue.set of a file that waits keeps its place and the entries of the others.
LEMMA ReplacedIs ==
    ASSUME NEW q \in Queues, NEW a \in Artifacts, NEW gen \in Nat, NEW priority \in BOOLEAN, Waits(q, a)
    PROVE  /\ Replaced(q, a, gen, priority) \in Queues
           /\ \A e \in Entries(q) : e.of # a => e \in Entries(Replaced(q, a, gen, priority))
           /\ \E e \in Entries(Replaced(q, a, gen, priority)) : e.of = a /\ e.gen = gen
<1> DEFINE r == Replaced(q, a, gen, priority)
<1>0. r = [i \in DOMAIN q |-> IF q[i].of = a
              THEN [of |-> a, gen |-> gen, priority |-> priority \/ q[i].priority] ELSE q[i]]
  BY DEF Replaced
<1> HIDE DEF r
<1>1. /\ q \in Seq(Items) /\ Len(q) \in Nat /\ DOMAIN q = 1..Len(q) /\ Len(q) <= QueueLimit
      /\ \A i \in 1..Len(q) : q[i] \in Items
      /\ \A i, j \in 1..Len(q) : q[i].of = q[j].of => i = j
  BY QueueFacts
<1>2. \A i \in 1..Len(q) : r[i] \in Items /\ r[i].of = q[i].of
  BY <1>0, <1>1 DEF Items
<1>3. r \in [1..Len(q) -> Items]
  BY <1>0, <1>1, <1>2
<1>4. r \in Seq(Items) /\ Len(r) = Len(q) /\ DOMAIN r = 1..Len(q)
  BY <1>1, <1>3
<1>5. r \in Queues
  BY <1>1, <1>2, <1>4 DEF Queues
<1>6. \A e \in Entries(q) : e.of # a => e \in Entries(r)
  BY <1>0, <1>1, <1>4 DEF Entries
<1>7. PICK i \in 1..Len(q) : q[i].of = a
  BY <1>1 DEF Waits
<1>8. r[i] = [of |-> a, gen |-> gen, priority |-> priority \/ q[i].priority]
  BY <1>0, <1>1, <1>7
<1>9. r[i] \in Entries(r) /\ r[i].of = a /\ r[i].gen = gen
  BY <1>4, <1>7, <1>8 DEF Entries
<1> QED
  BY <1>5, <1>6, <1>9 DEF r

\* The place a request takes is one of the queue.
LEMMA DisplacedIs ==
    ASSUME NEW q \in Queues, Len(q) >= QueueLimit
    PROVE  Displaced(q) \in 1..Len(q)
<1> DEFINE plain == {i \in DOMAIN q : ~ q[i].priority}
<1>1. Len(q) \in Nat /\ DOMAIN q = 1..Len(q) /\ Len(q) >= 1
  BY QueueFacts, PlatformAssumption
<1>2. CASE plain = {}
  BY <1>1, <1>2 DEF Displaced
<1>3. CASE plain # {}
  <2> DEFINE rest == {n \in Nat : \E i \in plain : n = Len(q) - i}
  <2>1. rest # {} /\ rest \subseteq Nat
    BY <1>1, <1>3
  <2>2. PICK n \in rest : \A m \in rest : n <= m
    BY <2>1, Least
  <2>3. PICK i \in plain : n = Len(q) - i
    BY <2>2
  <2>4. \A j \in plain : i >= j
    BY <1>1, <2>2, <2>3
  <2>5. Max(plain) \in plain
    BY <2>3, <2>4 DEF Max
  <2> QED
    BY <1>1, <1>3, <2>5 DEF Displaced
<1> QED
  BY <1>2, <1>3

-----------------------------------------------------------------------------
(* What one observation does. *)

Observations == [gen : Nat, status : Statuses]

Deferrals == [why : {"none", "again", "model_capacity"}, gen : Nat]

Works == [latest : [Artifacts -> Observations], queue : Queues,
          deferred : [Artifacts -> Deferrals], parsed : [Artifacts -> Nat]]

\* The version of a file that is known is parsed, waits, is being parsed or is put off.
Covered(c, known, q, putOff, done, p) ==
    known[c].status = "present" =>
        \/ done[c] = known[c].gen
        \/ \E e \in Entries(q) : e.of = c /\ e.gen = known[c].gen
        \/ p.of = {c} /\ p.epoch /\ p.gen = known[c].gen
        \/ putOff[c].why # "none"

CoveredIn(c, w) == Covered(c, w.latest, w.queue, w.deferred, w.parsed, processing)

\* The fields of what observeArtifacts works on.
LEMMA WorkFields ==
    ASSUME NEW w \in Works
    PROVE  /\ w.latest \in [Artifacts -> Observations] /\ w.queue \in Queues
           /\ w.deferred \in [Artifacts -> Deferrals] /\ w.parsed \in [Artifacts -> Nat]
           /\ w = [latest |-> w.latest, queue |-> w.queue, deferred |-> w.deferred, parsed |-> w.parsed]
BY DEF Works

\* The changes an observation makes, and the fields they leave.
Put(f, a, x) == [f EXCEPT ![a] = x]

Sees(w, a, x) == [w EXCEPT !.latest[a] = x]

PutsOff(w, a, x) == [w EXCEPT !.deferred[a] = x]

Requeues(w, a, x, q) == [w EXCEPT !.queue = q, !.deferred[a] = x]

Enqueues(w, a, x, q) == [w EXCEPT !.deferred[a] = x, !.queue = q]

Drops(w, a, x, q, n) == [w EXCEPT !.queue = q, !.deferred[a] = x, !.parsed[a] = n]

\* What each single update does to the fields.
LEMMA Updated ==
    ASSUME NEW w \in Works, NEW a, NEW x, NEW y, NEW z
    PROVE  /\ Sees(w, a, x) = [latest |-> Put(w.latest, a, x), queue |-> w.queue,
                               deferred |-> w.deferred, parsed |-> w.parsed]
           /\ PutsOff(w, a, x) = [latest |-> w.latest, queue |-> w.queue,
                                  deferred |-> Put(w.deferred, a, x), parsed |-> w.parsed]
           /\ Requeues(w, a, x, y) = [latest |-> w.latest, queue |-> y,
                                      deferred |-> Put(w.deferred, a, x), parsed |-> w.parsed]
           /\ Enqueues(w, a, x, y) = Requeues(w, a, x, y)
           /\ Drops(w, a, x, y, z) = [latest |-> w.latest, queue |-> y,
                                      deferred |-> Put(w.deferred, a, x),
                                      parsed |-> Put(w.parsed, a, z)]
<1> DEFINE l == w.latest  q == w.queue  d == w.deferred  p == w.parsed
<1>0. w = [latest |-> l, queue |-> q, deferred |-> d, parsed |-> p]
  BY WorkFields
<1> HIDE DEF l, q, d, p
<1>1. Sees(w, a, x) = [latest |-> Put(l, a, x), queue |-> q, deferred |-> d, parsed |-> p]
  BY <1>0 DEF Sees, Put
<1>2. PutsOff(w, a, x) = [latest |-> l, queue |-> q, deferred |-> Put(d, a, x), parsed |-> p]
  BY <1>0 DEF PutsOff, Put
<1> DEFINE u == [w EXCEPT !.queue = y]  v == [u EXCEPT !.deferred[a] = x]  s == PutsOff(w, a, x)
<1>3. /\ Requeues(w, a, x, y) = v
      /\ Enqueues(w, a, x, y) = [s EXCEPT !.queue = y]
      /\ Drops(w, a, x, y, z) = [v EXCEPT !.parsed[a] = z]
  BY DEF Requeues, Enqueues, Drops, PutsOff
<1>4. u = [latest |-> l, queue |-> y, deferred |-> d, parsed |-> p]
  BY <1>0
<1> HIDE DEF u
<1>5. v = [latest |-> l, queue |-> y, deferred |-> Put(d, a, x), parsed |-> p]
  BY <1>4 DEF Put
<1> HIDE DEF v, s
<1>6. [v EXCEPT !.parsed[a] = z] = [latest |-> l, queue |-> y, deferred |-> Put(d, a, x), parsed |-> Put(p, a, z)]
  BY <1>5 DEF Put
<1>7. s = [latest |-> l, queue |-> q, deferred |-> Put(d, a, x), parsed |-> p]
  BY <1>2 DEF s
<1>8. [s EXCEPT !.queue = y] = [latest |-> l, queue |-> y, deferred |-> Put(d, a, x), parsed |-> p]
  BY <1>7
<1> QED
  BY <1>1, <1>2, <1>3, <1>5, <1>6, <1>8 DEF l, q, d, p

\* The two deferrals that name no capacity.
LEMMA DeferralsAre == NotDeferred \in Deferrals /\ Later \in Deferrals /\ NotDeferred.why = "none" /\ Later.why = "again"
BY DEF Deferrals, NotDeferred, Later

\* r is w with another knowledge of a: what is known of the other files is kept, or put off.
Keeps(w, r, a) ==
    /\ r \in Works
    /\ \A c \in Artifacts \ {a} :
        /\ r.latest[c] = w.latest[c] /\ r.parsed[c] = w.parsed[c]
        /\ \/ r.deferred[c].why # "none"
           \/ /\ r.deferred[c] = w.deferred[c]
              /\ \A e \in Entries(w.queue) : e.of = c => e \in Entries(r.queue)

\* An observation is put for one file.
LEMMA PutSeen ==
    ASSUME NEW f \in [Artifacts -> Observations], NEW a \in Artifacts, NEW x \in Observations
    PROVE  /\ Put(f, a, x) \in [Artifacts -> Observations] /\ Put(f, a, x)[a] = x
           /\ \A c \in Artifacts \ {a} : Put(f, a, x)[c] = f[c]
BY DEF Put

\* A deferral is put for one file.
LEMMA PutAside ==
    ASSUME NEW f \in [Artifacts -> Deferrals], NEW a \in Artifacts, NEW x \in Deferrals
    PROVE  /\ Put(f, a, x) \in [Artifacts -> Deferrals] /\ Put(f, a, x)[a] = x
           /\ \A c \in Artifacts \ {a} : Put(f, a, x)[c] = f[c]
BY DEF Put

\* A parsed generation is put for one file.
LEMMA PutGeneration ==
    ASSUME NEW f \in [Artifacts -> Nat], NEW a \in Artifacts, NEW x \in Nat
    PROVE  /\ Put(f, a, x) \in [Artifacts -> Nat] /\ Put(f, a, x)[a] = x
           /\ \A c \in Artifacts \ {a} : Put(f, a, x)[c] = f[c]
BY DEF Put

\* The entry that is displaced from a full queue is put off, not lost.
LEMMA MadeRoom ==
    ASSUME NEW w \in Works, NEW a \in Artifacts, Len(w.queue) >= QueueLimit, ~ Waits(w.queue, a)
    PROVE  /\ Keeps(w, MakeRoom(w), a) /\ MakeRoom(w).latest = w.latest /\ MakeRoom(w).parsed = w.parsed
           /\ Len(MakeRoom(w).queue) < QueueLimit /\ ~ Waits(MakeRoom(w).queue, a)
<1> DEFINE i == Displaced(w.queue)  d == w.queue[i].of  r == MakeRoom(w)
<1>0. w.queue \in Queues /\ w.deferred \in [Artifacts -> Deferrals]
  BY WorkFields
<1>1. i \in 1..Len(w.queue) /\ w.queue[i] \in Items /\ d \in Artifacts /\ d # a
  <2>1. i \in 1..Len(w.queue)
    BY <1>0, DisplacedIs
  <2>2. w.queue[i] \in Items
    BY <2>1, <1>0, QueueFacts
  <2>3. d \in Artifacts
    BY <2>2 DEF Items
  <2>4. d # a
    BY <2>1, <1>0, QueueFacts DEF Waits
  <2> QED
    BY <2>1, <2>2, <2>3, <2>4
<1>2. r = [latest |-> w.latest, queue |-> RemoveAt(w.queue, i), deferred |-> Put(w.deferred, d, Later),
           parsed |-> w.parsed]
  <2>1. r = Requeues(w, d, Later, RemoveAt(w.queue, i))
    BY DEF MakeRoom, Requeues
  <2> HIDE DEF i, d, r
  <2> QED
    BY <2>1, Updated
<1>3. /\ RemoveAt(w.queue, i) \in Queues /\ Len(RemoveAt(w.queue, i)) = Len(w.queue) - 1
      /\ Entries(RemoveAt(w.queue, i)) = {e \in Entries(w.queue) : e.of # d}
  BY <1>0, <1>1, RemovedAt
<1> DEFINE later == Put(w.deferred, d, Later)
<1>4. later \in [Artifacts -> Deferrals] /\ later[d] = Later /\ \A c \in Artifacts \ {d} : later[c] = w.deferred[c]
  <2>1. Later \in Deferrals /\ d \in Artifacts
    BY <1>1, DeferralsAre
  <2> HIDE DEF d
  <2> QED
    BY <1>0, <2>1, PutAside
<1> HIDE DEF i, d, r, later
<1>5. r.latest = w.latest /\ r.queue = RemoveAt(w.queue, i) /\ r.deferred = later /\ r.parsed = w.parsed
  BY <1>2 DEF later
<1>6. r \in Works
  BY <1>2, <1>3, <1>4, WorkFields DEF Works, later
<1>7. Keeps(w, r, a)
  BY <1>3, <1>4, <1>5, <1>6, DeferralsAre DEF Keeps
<1>8. Len(r.queue) < QueueLimit
  BY <1>0, <1>1, <1>3, <1>5, QueueFacts, PlatformAssumption
<1>9. ~ Waits(r.queue, a)
  <2>1. \A e \in Entries(w.queue) : e.of # a
    BY <1>0, QueueFacts DEF Waits, Entries
  <2>2. \A e \in Entries(r.queue) : e.of # a
    BY <2>1, <1>3, <1>5
  <2> QED
    BY <2>2 DEF Waits, Entries
<1> QED
  BY <1>5, <1>7, <1>8, <1>9 DEF r

\* A present file that is enqueued is covered, and no other file is lost.
LEMMA Enqueued ==
    ASSUME NEW w \in Works, NEW a \in Artifacts, NEW priority \in BOOLEAN,
           w.latest[a].status = "present"
    PROVE  LET r == Enqueue(w, a, w.latest[a].gen, priority)
           IN  Keeps(w, r, a) /\ r.latest = w.latest /\ r.parsed = w.parsed /\ CoveredIn(a, r)
<1> DEFINE gen == w.latest[a].gen  r == Enqueue(w, a, gen, priority)
           full == Len(w.queue) >= QueueLimit /\ ~ Waits(w.queue, a)
<1>0. gen \in Nat
  BY WorkFields DEF Observations
<1>1. CASE full /\ ~ priority
  <2> DEFINE later == Put(w.deferred, a, Later)
  <2>1. r = [latest |-> w.latest, queue |-> w.queue, deferred |-> later, parsed |-> w.parsed]
    <3>1. r = PutsOff(w, a, Later)
      BY <1>1 DEF Enqueue, PutsOff
    <3> HIDE DEF r, later
    <3> QED
      BY <3>1, Updated DEF later
  <2>2. later \in [Artifacts -> Deferrals] /\ later[a] = Later /\ \A c \in Artifacts \ {a} : later[c] = w.deferred[c]
    <3>1. w.deferred \in [Artifacts -> Deferrals] /\ Later \in Deferrals
      BY WorkFields, DeferralsAre
    <3> QED
      BY <3>1, PutAside
  <2> HIDE DEF r, later
  <2>3. r \in Works
    BY <2>1, <2>2, WorkFields DEF Works
  <2>4. r.latest = w.latest /\ r.queue = w.queue /\ r.deferred = later /\ r.parsed = w.parsed
    BY <2>1
  <2>5. Keeps(w, r, a)
    BY <2>2, <2>3, <2>4 DEF Keeps
  <2>6. CoveredIn(a, r)
    BY <2>2, <2>4, DeferralsAre DEF CoveredIn, Covered
  <2> QED
    BY <2>4, <2>5, <2>6 DEF r
<1>2. CASE ~ (full /\ ~ priority)
  <2> DEFINE m == IF full /\ priority THEN MakeRoom(w) ELSE w
  <2>1. /\ Keeps(w, m, a) /\ m \in Works /\ m.latest = w.latest /\ m.parsed = w.parsed
        /\ Len(m.queue) < QueueLimit \/ Waits(m.queue, a)
    <3>1. CASE full
      BY <3>1, <1>2, MadeRoom DEF Keeps
    <3>2. CASE ~ full
      <4>1. Len(w.queue) \in Nat /\ QueueLimit \in Nat
        BY WorkFields, QueueFacts, PlatformAssumption
      <4>2. m = w
        BY <3>2
      <4> QED
        BY <4>1, <4>2, <3>2 DEF Keeps
    <3> QED
      BY <3>1, <3>2
  <2> DEFINE none == Put(m.deferred, a, NotDeferred)
             item(old) == [of |-> a, gen |-> gen, priority |-> priority \/ old]
             q == IF Waits(m.queue, a)
                  THEN [i \in DOMAIN m.queue |-> IF m.queue[i].of = a THEN item(m.queue[i].priority)
                                                 ELSE m.queue[i]]
                  ELSE Append(m.queue, item(FALSE))
  <2>2. r = Enqueues(m, a, NotDeferred, q)
    BY <1>2 DEF Enqueue, Enqueues
  <2> HIDE DEF m
  <2>3. r = [latest |-> m.latest, queue |-> q, deferred |-> none, parsed |-> m.parsed]
    <3> HIDE DEF q, r, none
    <3> QED
      BY <2>1, <2>2, Updated DEF none
  <2>4. m.queue \in Queues
    BY <2>1, WorkFields
  <2>5. /\ q \in Queues
        /\ \A e \in Entries(m.queue) : e.of # a => e \in Entries(q)
        /\ \E e \in Entries(q) : e.of = a /\ e.gen = gen
    <3>1. CASE Waits(m.queue, a)
      <4>1. q = Replaced(m.queue, a, gen, priority)
        BY <3>1 DEF Replaced
      <4> HIDE DEF q, item
      <4>2. q \in Queues /\ \E e \in Entries(q) : e.of = a /\ e.gen = gen
        BY <3>1, <4>1, <2>4, <1>0, ReplacedIs
      <4>3. \A e \in Entries(m.queue) : e.of # a => e \in Entries(q)
        BY <3>1, <4>1, <2>4, <1>0, ReplacedIs
      <4> QED
        BY <4>2, <4>3
    <3>2. CASE ~ Waits(m.queue, a)
      <4> DEFINE new == [of |-> a, gen |-> gen, priority |-> priority \/ FALSE]
      <4>1. q = Append(m.queue, new) /\ Len(m.queue) < QueueLimit
        BY <3>2, <2>1
      <4>2. new \in Items /\ new.of = a /\ new.gen = gen
        BY <1>0 DEF Items
      <4> HIDE DEF q, gen, new
      <4> QED
        BY <3>2, <4>1, <4>2, <2>4, AppendedIs
    <3> QED
      BY <3>1, <3>2
  <2>6. none \in [Artifacts -> Deferrals] /\ \A c \in Artifacts \ {a} : none[c] = m.deferred[c]
    <3>1. m.deferred \in [Artifacts -> Deferrals] /\ NotDeferred \in Deferrals
      BY <2>1, WorkFields, DeferralsAre
    <3> QED
      BY <3>1, PutAside
  <2> HIDE DEF r, none, q
  <2>7. r.latest = w.latest /\ r.queue = q /\ r.deferred = none /\ r.parsed = w.parsed
    BY <2>1, <2>3
  <2>8. r \in Works
    BY <2>1, <2>3, <2>5, <2>6, WorkFields DEF Works
  <2>9. Keeps(w, r, a)
    BY <2>1, <2>5, <2>6, <2>7, <2>8 DEF Keeps
  <2>10. CoveredIn(a, r)
    BY <2>5, <2>7 DEF CoveredIn, Covered
  <2> QED
    BY <2>7, <2>9, <2>10 DEF r
<1> QED
  BY <1>1, <1>2

\* Two steps that lose no other file make one that loses none.
LEMMA KeepsOn ==
    ASSUME NEW w, NEW v, NEW r, NEW a, Keeps(w, v, a), Keeps(v, r, a)
    PROVE  Keeps(w, r, a)
BY DEF Keeps

\* A file observed in a version of its own is covered in it, the others as they were.
LEMMA ObservedIs ==
    ASSUME NEW w \in Works, NEW a \in Artifacts, NEW seen, seen.gen \in Nat, seen.status \in Statuses,
           NEW priority \in BOOLEAN
    PROVE  LET r == ObserveOne(w, a, seen, priority)
           IN  /\ Keeps(w, r, a)
               /\ Outdated(w.latest[a], seen) => r = w
               /\ ~ Outdated(w.latest[a], seen) =>
                    CoveredIn(a, r) /\ r.latest[a] = [gen |-> seen.gen, status |-> seen.status]
<1> DEFINE x == [gen |-> seen.gen, status |-> seen.status]  v == Sees(w, a, x)
           noRoom == w.deferred[a] = NoRoom(seen.gen)  r == ObserveOne(w, a, seen, priority)
           busy == processing.of = {a} /\ processing.gen = seen.gen /\ processing.epoch
<1>0. x \in Observations /\ x.gen = seen.gen /\ x.status = seen.status
  BY DEF Observations
<1> HIDE DEF x
<1>1. /\ v \in Works /\ v.queue = w.queue /\ v.deferred = w.deferred /\ v.parsed = w.parsed
      /\ v.latest[a] = x /\ \A c \in Artifacts \ {a} : v.latest[c] = w.latest[c]
  <2> DEFINE l == Put(w.latest, a, x)
  <2>1. v = [latest |-> l, queue |-> w.queue, deferred |-> w.deferred, parsed |-> w.parsed]
    BY Updated
  <2>2. w.latest \in [Artifacts -> Observations]
    BY WorkFields
  <2>3. l \in [Artifacts -> Observations] /\ l[a] = x /\ \A c \in Artifacts \ {a} : l[c] = w.latest[c]
    BY <2>2, <1>0, PutSeen
  <2> HIDE DEF l, v
  <2> QED
    BY <2>1, <2>3, WorkFields DEF Works
<1>2. Keeps(w, v, a)
  <2> HIDE DEF v
  <2> QED
    BY <1>1 DEF Keeps
<1>3. /\ Outdated(w.latest[a], seen) => r = w
      /\ ~ Outdated(w.latest[a], seen) =>
            r = IF seen.status # "present" THEN Drops(v, a, NotDeferred, Dequeued(v.queue, a), 0)
                ELSE IF noRoom /\ ~ CapacityImproved THEN v
                ELSE IF w.parsed[a] = seen.gen /\ ~ noRoom THEN PutsOff(v, a, NotDeferred)
                ELSE IF busy THEN v
                ELSE Enqueue(v, a, seen.gen, priority)
  BY DEF ObserveOne, Sees, Drops, PutsOff, x
<1> HIDE DEF v, r, noRoom, busy
<1>4. CASE Outdated(w.latest[a], seen)
  BY <1>3, <1>4 DEF Keeps, r
<1>5. ASSUME ~ Outdated(w.latest[a], seen), seen.status # "present"
      PROVE  Keeps(v, r, a) /\ CoveredIn(a, r) /\ r.latest[a] = x
  <2> DEFINE q == Dequeued(v.queue, a)  d == Put(v.deferred, a, NotDeferred)  p == Put(v.parsed, a, 0)
  <2>1. r = [latest |-> v.latest, queue |-> q, deferred |-> d, parsed |-> p]
    <3> HIDE DEF q
    <3>1. r = Drops(v, a, NotDeferred, q, 0)
      BY <1>3, <1>5 DEF q
    <3> QED
      BY <3>1, <1>1, Updated
  <2>2. q \in Queues /\ Entries(q) = {e \in Entries(v.queue) : e.of # a}
    BY <1>1, WorkFields, DequeuedIs
  <2>3. d \in [Artifacts -> Deferrals] /\ \A c \in Artifacts \ {a} : d[c] = v.deferred[c]
    <3>1. v.deferred \in [Artifacts -> Deferrals] /\ NotDeferred \in Deferrals
      BY <1>1, WorkFields, DeferralsAre
    <3> QED
      BY <3>1, PutAside
  <2>4. p \in [Artifacts -> Nat] /\ \A c \in Artifacts \ {a} : p[c] = v.parsed[c]
    <3>1. v.parsed \in [Artifacts -> Nat] /\ 0 \in Nat
      BY <1>1, WorkFields
    <3> QED
      BY <3>1, PutGeneration
  <2> HIDE DEF q, d, p
  <2>5. r.latest = v.latest /\ r.queue = q /\ r.deferred = d /\ r.parsed = p
    BY <2>1
  <2>6. r \in Works
    BY <2>1, <2>2, <2>3, <2>4, <1>1, WorkFields DEF Works
  <2>7. Keeps(v, r, a)
    BY <2>2, <2>3, <2>4, <2>5, <2>6 DEF Keeps
  <2>8. r.latest[a] = x /\ CoveredIn(a, r)
    BY <2>5, <1>0, <1>1, <1>5 DEF CoveredIn, Covered
  <2> QED
    BY <2>7, <2>8
<1>6. ASSUME ~ Outdated(w.latest[a], seen), seen.status = "present"
      PROVE  Keeps(v, r, a) /\ CoveredIn(a, r) /\ r.latest[a] = x
  <2>0. Keeps(v, v, a)
    BY <1>1 DEF Keeps
  <2>1. CASE noRoom /\ ~ CapacityImproved
    <3>1. r = v
      BY <1>3, <1>6, <2>1
    <3>2. v.deferred[a].why = "model_capacity"
      BY <1>1, <2>1 DEF noRoom, NoRoom
    <3> QED
      BY <2>0, <3>1, <3>2, <1>1 DEF CoveredIn, Covered
  <2>2. CASE ~ (noRoom /\ ~ CapacityImproved) /\ w.parsed[a] = seen.gen /\ ~ noRoom
    <3> DEFINE d == Put(v.deferred, a, NotDeferred)
    <3>1. r = [latest |-> v.latest, queue |-> v.queue, deferred |-> d, parsed |-> v.parsed]
      BY <1>1, <1>3, <1>6, <2>2, Updated
    <3>2. d \in [Artifacts -> Deferrals] /\ \A c \in Artifacts \ {a} : d[c] = v.deferred[c]
      <4>1. v.deferred \in [Artifacts -> Deferrals] /\ NotDeferred \in Deferrals
        BY <1>1, WorkFields, DeferralsAre
      <4> QED
        BY <4>1, PutAside
    <3> HIDE DEF d
    <3>3. r.latest = v.latest /\ r.queue = v.queue /\ r.deferred = d /\ r.parsed = v.parsed
      BY <3>1
    <3>4. r \in Works
      BY <3>1, <3>2, <1>1, WorkFields DEF Works
    <3>5. Keeps(v, r, a)
      BY <3>2, <3>3, <3>4 DEF Keeps
    <3>6. CoveredIn(a, r) /\ r.latest[a] = x
      BY <3>3, <1>0, <1>1, <2>2 DEF CoveredIn, Covered
    <3> QED
      BY <3>5, <3>6
  <2>3. CASE ~ (noRoom /\ ~ CapacityImproved) /\ ~ (w.parsed[a] = seen.gen /\ ~ noRoom) /\ busy
    <3>1. r = v
      BY <1>3, <1>6, <2>3
    <3> QED
      BY <2>0, <3>1, <1>0, <1>1, <2>3 DEF CoveredIn, Covered, busy
  <2>4. CASE ~ (noRoom /\ ~ CapacityImproved) /\ ~ (w.parsed[a] = seen.gen /\ ~ noRoom) /\ ~ busy
    <3>1. r = Enqueue(v, a, v.latest[a].gen, priority) /\ v.latest[a].status = "present"
      BY <1>0, <1>1, <1>3, <1>6, <2>4
    <3>2. Keeps(v, r, a) /\ r.latest = v.latest /\ CoveredIn(a, r)
      BY <1>1, <3>1, Enqueued
    <3> QED
      BY <3>2, <1>1
  <2> QED
    BY <2>1, <2>2, <2>3, <2>4
<1>7. CASE ~ Outdated(w.latest[a], seen)
  <2>1. Keeps(v, r, a) /\ CoveredIn(a, r) /\ r.latest[a] = x
    BY <1>5, <1>6, <1>7
  <2>2. Keeps(w, r, a)
    BY <1>2, <2>1, KeepsOn
  <2> QED
    BY <1>7, <2>1, <2>2 DEF x, r
<1> QED
  BY <1>4, <1>7 DEF r

\* A file that is covered stays so over an observation of any file.
LEMMA StaysCovered ==
    ASSUME NEW w, NEW r, NEW a \in Artifacts, NEW c \in Artifacts, Keeps(w, r, a),
           r = w \/ CoveredIn(a, r), CoveredIn(c, w)
    PROVE  CoveredIn(c, r)
<1>1. CASE c = a
  BY <1>1
<1>2. CASE c # a
  BY <1>2 DEF Keeps, CoveredIn, Covered
<1> QED
  BY <1>1, <1>2

IsBatch(w, batch) ==
    /\ DOMAIN batch \subseteq Artifacts
    /\ \A a \in DOMAIN batch :
        batch[a].gen \in Nat /\ batch[a].status \in Statuses /\ w.latest[a].gen <= batch[a].gen

\* A batch that is no older than what is known is what is known afterwards.
LEMMA BatchIs ==
    ASSUME NEW w \in Works, NEW batch, IsBatch(w, batch), NEW priority \in BOOLEAN
    PROVE  LET r == ObserveAll(w, batch, priority)
           IN  /\ r \in Works
               /\ \A c \in Artifacts : CoveredIn(c, w) => CoveredIn(c, r)
               /\ \A c \in Artifacts \ DOMAIN batch : r.latest[c] = w.latest[c]
               /\ \A c \in DOMAIN batch :
                    /\ r.latest[c].gen = batch[c].gen
                    /\ r.latest[c].status = "present" => batch[c].status = "present"
<1> DEFINE r == ObserveAll(w, batch, priority)
<1>0. IsFiniteSet(DOMAIN batch)
  BY FS_Subset, ModelAssumption DEF IsBatch
<1>1. \A v \in Works, a \in DOMAIN batch :
        /\ Keeps(v, ObserveOne(v, a, batch[a], priority), a)
        /\ Outdated(v.latest[a], batch[a]) => ObserveOne(v, a, batch[a], priority) = v
        /\ ~ Outdated(v.latest[a], batch[a]) =>
             ObserveOne(v, a, batch[a], priority).latest[a] = [gen |-> batch[a].gen, status |-> batch[a].status]
        /\ \A c \in Artifacts : CoveredIn(c, v) => CoveredIn(c, ObserveOne(v, a, batch[a], priority))
  <2> TAKE v \in Works, a \in DOMAIN batch
  <2>0. PICK u : u = ObserveOne(v, a, batch[a], priority)
    OBVIOUS
  <2>1. /\ Keeps(v, u, a) /\ a \in Artifacts
        /\ Outdated(v.latest[a], batch[a]) => u = v
        /\ ~ Outdated(v.latest[a], batch[a]) =>
             CoveredIn(a, u) /\ u.latest[a] = [gen |-> batch[a].gen, status |-> batch[a].status]
    BY <2>0, ObservedIs DEF IsBatch
  <2>2. \A c \in Artifacts : CoveredIn(c, v) => CoveredIn(c, u)
    BY <2>1, StaysCovered
  <2> QED
    BY <2>0, <2>1, <2>2
<1>2. r \in Works
  <2>1. \A v \in Works, a \in DOMAIN batch : ObserveOne(v, a, batch[a], priority) \in Works
    BY <1>1 DEF Keeps
  <2> QED
    BY <2>1, <1>0, BatchKeeps
<1>3. ASSUME NEW c \in Artifacts, CoveredIn(c, w) PROVE CoveredIn(c, r)
  <2> DEFINE P == {v \in Works : CoveredIn(c, v)}
  <2>1. w \in P
    BY <1>3
  <2>2. \A v \in P, a \in DOMAIN batch : ObserveOne(v, a, batch[a], priority) \in P
    BY <1>1 DEF Keeps
  <2> HIDE DEF P
  <2>3. r \in P
    BY <2>1, <2>2, <1>0, BatchKeeps
  <2> QED
    BY <2>3 DEF P
<1>4. ASSUME NEW c \in Artifacts \ DOMAIN batch PROVE r.latest[c] = w.latest[c]
  <2> DEFINE P == {v \in Works : v.latest[c] = w.latest[c]}
  <2>1. w \in P
    OBVIOUS
  <2>2. \A v \in P, a \in DOMAIN batch : ObserveOne(v, a, batch[a], priority) \in P
    <3> TAKE v \in P, a \in DOMAIN batch
    <3>1. c \in Artifacts \ {a} /\ v \in Works
      OBVIOUS
    <3>2. Keeps(v, ObserveOne(v, a, batch[a], priority), a)
      BY <3>1, <1>1
    <3> QED
      BY <3>1, <3>2 DEF Keeps
  <2> HIDE DEF P
  <2>3. r \in P
    BY <2>1, <2>2, <1>0, BatchKeeps
  <2> QED
    BY <2>3 DEF P
<1>5. ASSUME NEW c \in DOMAIN batch
      PROVE  r.latest[c].gen = batch[c].gen /\ (r.latest[c].status = "present" => batch[c].status = "present")
  <2> DEFINE P == {v \in Works : v.latest[c].gen <= batch[c].gen}
             Q == {v \in Works : /\ v.latest[c].gen = batch[c].gen
                                 /\ v.latest[c].status = "present" => batch[c].status = "present"}
  <2>0. c \in Artifacts /\ batch[c].gen \in Nat /\ batch[c].status \in Statuses
    BY DEF IsBatch
  <2>1. w \in P
    BY DEF IsBatch
  <2>2. ASSUME NEW v \in P PROVE ObserveOne(v, c, batch[c], priority) \in Q
    <3>0. PICK u : u = ObserveOne(v, c, batch[c], priority)
      OBVIOUS
    <3>1. v \in Works /\ v.latest[c].gen <= batch[c].gen /\ v.latest[c].gen \in Nat
      BY <2>0, WorkFields DEF Observations
    <3>2. u \in Works
      BY <3>0, <3>1, <1>1 DEF Keeps
    <3>3. CASE Outdated(v.latest[c], batch[c])
      <4>1. u = v
        BY <3>0, <3>1, <3>3, <1>1
      <4>2. v.latest[c].gen = batch[c].gen /\ batch[c].status = "present"
        BY <3>1, <3>3, <2>0 DEF Outdated
      <4>3. u \in Q
        BY <3>1, <4>1, <4>2
      <4> QED
        BY <3>0, <4>3
    <3>4. CASE ~ Outdated(v.latest[c], batch[c])
      <4>1. u.latest[c] = [gen |-> batch[c].gen, status |-> batch[c].status]
        BY <3>0, <3>1, <3>4, <1>1
      <4>2. u \in Q
        BY <3>2, <4>1
      <4> QED
        BY <3>0, <4>2
    <3> HIDE DEF Q
    <3> QED
      BY <3>3, <3>4
  <2>3. ASSUME NEW v \in Works, NEW a \in DOMAIN batch, a # c
        PROVE  ObserveOne(v, a, batch[a], priority) \in Works /\ ObserveOne(v, a, batch[a], priority).latest[c] = v.latest[c]
    <3>1. Keeps(v, ObserveOne(v, a, batch[a], priority), a)
      BY <1>1
    <3> QED
      BY <3>1, <2>0, <2>3 DEF Keeps
  <2>4. \A v \in Q : v \in P /\ v \in Works
    BY <2>0
  <2>5. \A v \in P : v \in Works
    OBVIOUS
  <2>6. \A v \in P, a \in DOMAIN batch : ObserveOne(v, a, batch[a], priority) \in P
    <3> TAKE v \in P, a \in DOMAIN batch
    <3>1. CASE a = c
      <4>1. ObserveOne(v, c, batch[c], priority) \in Q
        BY <2>2
      <4> HIDE DEF P, Q
      <4> QED
        BY <3>1, <4>1, <2>4
    <3>2. CASE a # c
      BY <3>2, <2>3
    <3> QED
      BY <3>1, <3>2
  <2>7. \A v \in Q, a \in DOMAIN batch : ObserveOne(v, a, batch[a], priority) \in Q
    <3> TAKE v \in Q, a \in DOMAIN batch
    <3>1. CASE a = c
      <4>1. v \in P
        BY <2>4
      <4> HIDE DEF P, Q
      <4> QED
        BY <3>1, <4>1, <2>2
    <3>2. CASE a # c
      BY <3>2, <2>3
    <3> QED
      BY <3>1, <3>2
  <2> HIDE DEF P, Q
  <2>8. r \in Q
    BY <2>1, <2>2, <2>6, <2>7, <1>0, BatchReaches
  <2> QED
    BY <2>8 DEF Q
<1> HIDE DEF r
<1> QED
  BY <1>2, <1>3, <1>4, <1>5 DEF r

-----------------------------------------------------------------------------
(* The invariants. *)

\* The versions that the platform and the model know are those that are registered.
Registered ==
    \A a \in Artifacts :
        /\ latest[a].gen = records[a].gen /\ artifacts[a].gen = records[a].gen
        /\ artifacts[a].hash = HashOf(a, records[a].seen.status, records[a].seen.stamp)
        /\ latest[a].status = "present" => artifacts[a].status = "present" /\ latest[a].gen # 0
        /\ artifacts[a].status = "missing" => artifacts[a].hash = {}

\* The parser is idle or works on one file, and is stopped with the coordinator.
ParserHolds ==
    /\ processing = Idle \/ (processing.stage # "idle" /\ \E a \in Artifacts : processing.of = {a})
    /\ processing.epoch => available /\ ~ closed

\* A file that is fresh has its summary, and an import is one of the version known.
FactsSupported ==
    \A a \in Artifacts :
        /\ artifacts[a].fresh => artifacts[a].status = "present" /\ entities[<<a, Root>>] = "current"
        /\ imports[a] = "current" => FreshFile(a) /\ Import \in artifacts[a].hash

\* What a complete enumeration found is held, as long as it is certified.
CertificatesHold ==
    /\ \A a \in Artifacts : artifacts[a].cert.complete =>
          \A s \in (artifacts[a].cert.hash \cap Symbols) \union {Root} : <<a, s>> \in Held
    /\ \A base \in checkpoints : base.cert.complete =>
          (base.cert.hash \cap Symbols) \union {Root} \subseteq base.held

\* Every file that was observed has a place.
AllCovered == ~ closed => \A c \in Artifacts : Covered(c, latest, queue, deferred, parsed, processing)

FactsInv == Registered /\ FactsSupported /\ CertificatesHold /\ FactsFollowSource

DiscoveryInv == TypeOK /\ ParserHolds /\ FactsInv /\ AllCovered

Processings == [of : SUBSET Artifacts, gen : Nat, stage : Stages, epoch : BOOLEAN]

PlatformTypeOK ==
    /\ latest \in [Artifacts -> Observations] /\ queue \in Queues
    /\ deferred \in [Artifacts -> Deferrals] /\ parsed \in [Artifacts -> Nat]
    /\ processing \in Processings /\ available \in BOOLEAN /\ closed \in BOOLEAN

SpentTypeOK == spent \in [Kinds -> Nat] /\ \A kind \in Kinds : spent[kind] <= Bound[kind]

\* The type invariant by what its parts are about.
LEMMA TypeParts == TypeOK <=> StoreTypeOK /\ ModelTypeOK /\ PlatformTypeOK /\ SpentTypeOK
BY DEF TypeOK, PlatformTypeOK, SpentTypeOK, Observations, Deferrals, Processings, Queues

\* The same of the next state.
LEMMA TypePartsNext == TypeOK' <=> StoreTypeOK' /\ ModelTypeOK' /\ PlatformTypeOK' /\ SpentTypeOK'
BY TypeParts, PTL

\* What observeArtifacts works on is what the platform knows.
LEMMA WorkIs ==
    ASSUME PlatformTypeOK
    PROVE  /\ Work \in Works /\ Work.latest = latest /\ Work.queue = queue /\ Work.deferred = deferred
           /\ Work.parsed = parsed
BY DEF PlatformTypeOK, Work, Works

\* A base that certifies everything it found knows everything it certifies.
LEMMA NothingInvented ==
    ASSUME TypeOK, CertificatesHold
    PROVE  TrueCreations
<1> SUFFICES ASSUME NEW base \in checkpoints, NEW s \in Creations(base), s \in base.cert.hash
             PROVE  FALSE
  BY DEF TrueCreations
<1>1. base.cert.complete /\ s \in Names \ base.held
  BY DEF Creations, PriorAbsence
<1>2. s \in (base.cert.hash \cap Symbols) \union {Root}
  BY <1>1 DEF Names
<1> QED
  BY <1>1, <1>2 DEF CertificatesHold

-----------------------------------------------------------------------------
(* The parser takes up what waits. *)

\* The parser stays as it is or takes one entry from the queue.
LEMMA Pumps ==
    ASSUME NEW q \in Queues, NEW p \in Processings, NEW usable, Pump(q, p, usable)
    PROVE  /\ queue' \in Queues /\ processing' \in Processings
           /\ \/ processing' = p /\ queue' = q
              \/ /\ p = Idle /\ usable /\ processing'.stage = "extract"
                 /\ \E a \in Artifacts : processing'.of = {a}
           /\ \A c \in Artifacts, gen \in Nat :
                (\E e \in Entries(q) : e.of = c /\ e.gen = gen) =>
                    \/ \E e \in Entries(queue') : e.of = c /\ e.gen = gen
                    \/ processing'.of = {c} /\ processing'.epoch /\ processing'.gen = gen
<1>1. CASE p = Idle /\ usable /\ q # <<>>
  <2>1. PICK i \in DOMAIN q : processing' = Begun(q[i]) /\ queue' = RemoveAt(q, i)
    BY <1>1 DEF Pump
  <2>2. i \in 1..Len(q) /\ q[i] \in Items /\ \A j \in 1..Len(q) : q[j].of = q[i].of => j = i
    BY <2>1, QueueFacts
  <2>3. queue' \in Queues /\ Entries(queue') = {e \in Entries(q) : e.of # q[i].of}
    BY <2>1, <2>2, RemovedAt
  <2>4. /\ processing' = [of |-> {q[i].of}, gen |-> q[i].gen, stage |-> "extract", epoch |-> TRUE]
        /\ q[i].of \in Artifacts /\ q[i].gen \in Nat
    BY <2>1, <2>2 DEF Begun, Items
  <2>5. processing' \in Processings
    BY <2>4 DEF Processings, Stages
  <2>6. processing'.of = {q[i].of} /\ processing'.epoch /\ processing'.gen = q[i].gen /\ processing'.stage = "extract"
    BY <2>4
  <2>7. ASSUME NEW c \in Artifacts, NEW gen \in Nat, NEW e \in Entries(q), e.of = c, e.gen = gen
        PROVE  \/ e \in Entries(queue')
               \/ processing'.of = {c} /\ processing'.epoch /\ processing'.gen = gen
    <3>1. CASE e.of # q[i].of
      BY <3>1, <2>3
    <3>2. CASE e.of = q[i].of
      <4>1. PICK j \in 1..Len(q) : e = q[j]
        BY QueueFacts DEF Entries
      <4>2. e = q[i]
        BY <4>1, <3>2, <2>2
      <4> QED
        BY <4>2, <2>6, <2>7
    <3> QED
      BY <3>1, <3>2
  <2> QED
    BY <1>1, <2>3, <2>4, <2>5, <2>6, <2>7
<1>2. CASE ~ (p = Idle /\ usable /\ q # <<>>)
  BY <1>2 DEF Pump
<1> QED
  BY <1>1, <1>2

-----------------------------------------------------------------------------
(* Captures keep what the model says of the files true. *)

\* Only a present file has declarations.
LEMMA HashIs ==
    ASSUME NEW a \in Artifacts, NEW status, NEW stamp \in 0..MaxStamp
    PROVE  HashOf(a, status, stamp) \in Hashes /\ (status # "present" => HashOf(a, status, stamp) = {})
BY ModelAssumption DEF HashOf, Hashes

\* A capture gives a file the version on disk, under a generation that does not go back.
LEMMA VersionIs ==
    ASSUME StoreTypeOK, NEW a \in Artifacts
    PROVE  /\ Inspect(a) \in Versions /\ Inspect(a).status = disk[a].status
           /\ NextGeneration(a) \in Nat /\ NextGeneration(a) # 0 /\ records[a].gen <= NextGeneration(a)
           /\ NextGeneration(a) = records[a].gen => records[a].seen = Inspect(a)
           /\ Capture(a).gen = NextGeneration(a) /\ Capture(a).status = disk[a].status
           /\ Capture(a).status \in Statuses /\ Capture(a).hash \in Hashes
           /\ Capture(a).hash = HashOf(a, Inspect(a).status, Inspect(a).stamp)
           /\ Capture(a).status # "present" => Capture(a).hash = {}
<1>1. /\ disk[a].status \in Statuses /\ disk[a].stamp \in 0..MaxStamp
      /\ records[a].gen \in Nat /\ records[a].seen \in Versions /\ lineageId \in AnyLineage
  BY DEF StoreTypeOK
<1>2. MaxStamp \in Nat /\ GenerationFloor \in Nat
  BY StoreAssumption
<1>3. Inspect(a) \in Versions
  BY <1>1, <1>2 DEF Inspect, Versions
<1>4. /\ Inspect(a).status = disk[a].status
      /\ disk[a].status # "missing" => Inspect(a).stamp = disk[a].stamp
  BY DEF Inspect
<1>5. /\ NextGeneration(a) \in Nat /\ NextGeneration(a) # 0 /\ records[a].gen <= NextGeneration(a)
      /\ NextGeneration(a) = records[a].gen => records[a].seen = Inspect(a)
  BY <1>1, <1>2 DEF NextGeneration
<1>6. /\ Capture(a).gen = NextGeneration(a) /\ Capture(a).status = disk[a].status
      /\ Capture(a).hash = HashOf(a, disk[a].status, disk[a].stamp)
  BY DEF Capture
<1>7. HashOf(a, disk[a].status, disk[a].stamp) = HashOf(a, Inspect(a).status, Inspect(a).stamp)
  BY <1>4 DEF HashOf
<1> QED
  BY <1>1, <1>3, <1>4, <1>5, <1>6, <1>7, HashIs

\* What a capture says of the files it loses and of the others.
IsInvalidated(files, lost, batch) ==
    /\ lost \subseteq files
    /\ \A a \in files : /\ artifacts'[a].gen = batch[a].gen /\ artifacts'[a].status = batch[a].status
                        /\ artifacts'[a].hash = batch[a].hash
                        /\ artifacts'[a].cert = artifacts[a].cert
    /\ \A a \in Artifacts \ files : artifacts'[a] = artifacts[a]
    /\ \A a \in lost : ~ artifacts'[a].fresh
    /\ \A a \in files \ lost :
        /\ artifacts'[a].status = "present" /\ artifacts'[a].hash = artifacts[a].hash
        /\ artifacts'[a].fresh <=> artifacts[a].fresh
    /\ entities' = [e \in Ids |->
            IF e[1] \in lost THEN IfHeld(entities[e], Freshness(batch[e[1]])) ELSE entities[e]]
    /\ imports' = [a \in Artifacts |-> IF a \in lost THEN Aged(imports[a]) ELSE imports[a]]
    /\ relations' = [a \in Artifacts |->
            IF {a, Target[a]} \cap lost # {} THEN Aged(relations[a]) ELSE relations[a]]

\* An artifact batch ages or withdraws what rested on the files that changed.
LEMMA Invalidated ==
    ASSUME StoreTypeOK, ModelTypeOK, Registered, NEW files \in SUBSET Artifacts,
           NEW batch, batch = Captured(files), InvalidateArtifacts(batch)
    PROVE  /\ artifacts' \in [Artifacts -> Records]
           /\ \E lost \in SUBSET Artifacts : IsInvalidated(files, lost, batch)
<1>1. /\ DOMAIN batch = files
      /\ \A a \in files : batch[a] = Capture(a)
  BY DEF Captured
<1>2. \A a \in files : /\ batch[a].gen \in Nat /\ batch[a].status \in Statuses /\ batch[a].hash \in Hashes
                       /\ Applies(a, batch[a])
  <2> TAKE a \in files
  <2>1. /\ batch[a].gen \in Nat /\ batch[a].status \in Statuses /\ batch[a].hash \in Hashes
        /\ batch[a].gen = NextGeneration(a)
        /\ batch[a].hash = HashOf(a, Inspect(a).status, Inspect(a).stamp)
    BY <1>1, VersionIs
  <2>2. artifacts[a].gen <= batch[a].gen
    BY <2>1, VersionIs DEF Registered
  <2>3. artifacts[a].gen = batch[a].gen => artifacts[a].hash = batch[a].hash
    BY <2>1, VersionIs DEF Registered
  <2>4. artifacts[a].gen \in Nat
    BY DEF ModelTypeOK, Records
  <2> QED
    BY <2>1, <2>2, <2>3, <2>4 DEF Applies
<1> DEFINE lost == {a \in files : Disturbed(a, batch[a])}
<1>3. {a \in DOMAIN batch : Applies(a, batch[a])} = files
  BY <1>1, <1>2
<1>4. /\ artifacts' = [a \in Artifacts |-> IF a \in files THEN Renewed(a, batch[a]) ELSE artifacts[a]]
      /\ entities' = [e \in Ids |->
            IF e[1] \in lost THEN IfHeld(entities[e], Freshness(batch[e[1]])) ELSE entities[e]]
      /\ imports' = [a \in Artifacts |-> IF a \in lost THEN Aged(imports[a]) ELSE imports[a]]
      /\ relations' = [a \in Artifacts |->
            IF {a, Target[a]} \cap lost # {} THEN Aged(relations[a]) ELSE relations[a]]
  BY <1>3 DEF InvalidateArtifacts
<1>5. ASSUME NEW a \in files
      PROVE  /\ artifacts'[a] \in Records
             /\ artifacts'[a].gen = batch[a].gen /\ artifacts'[a].status = batch[a].status
             /\ artifacts'[a].hash = batch[a].hash /\ artifacts'[a].cert = artifacts[a].cert
             /\ a \in lost => ~ artifacts'[a].fresh
             /\ a \notin lost => /\ artifacts'[a].status = "present" /\ artifacts'[a].hash = artifacts[a].hash
                                 /\ artifacts'[a].fresh <=> artifacts[a].fresh
  <2>1. artifacts[a] \in Records /\ artifacts[a].cert \in Certificates /\ artifacts[a].fresh \in BOOLEAN
    BY DEF ModelTypeOK, Records
  <2>2. artifacts'[a] = Renewed(a, batch[a])
    BY <1>4
  <2>3. /\ artifacts'[a].gen = batch[a].gen /\ artifacts'[a].status = batch[a].status
        /\ artifacts'[a].hash = batch[a].hash /\ artifacts'[a].cert = artifacts[a].cert
        /\ artifacts'[a].fresh <=> batch[a].status = "present" /\ SameVersion(artifacts[a], batch[a]) /\ artifacts[a].fresh
    <3> DEFINE fresh == batch[a].status = "present" /\ SameVersion(artifacts[a], batch[a]) /\ artifacts[a].fresh
    <3>1. artifacts'[a] = [gen |-> batch[a].gen, status |-> batch[a].status, hash |-> batch[a].hash,
                           fresh |-> fresh, cert |-> artifacts[a].cert]
      BY <2>2 DEF Renewed
    <3>2. fresh \in BOOLEAN
      BY <2>1
    <3> HIDE DEF fresh
    <3>3. artifacts'[a].fresh = fresh
      BY <3>1
    <3>4. artifacts'[a].fresh <=> fresh
      BY <3>3, Zenon
    <3> QED
      BY <3>1, <3>4 DEF fresh
  <2>4. artifacts'[a] \in Records
    BY <1>2, <2>1, <2>2 DEF Renewed, Records
  <2>5. a \notin lost => batch[a].status = "present" /\ SameVersion(artifacts[a], batch[a])
    BY DEF Disturbed
  <2>6. a \in lost => batch[a].status # "present" \/ ~ SameVersion(artifacts[a], batch[a])
    BY DEF Disturbed
  <2>7. SameVersion(artifacts[a], batch[a]) => artifacts[a].hash = batch[a].hash
    BY DEF SameVersion
  <2> HIDE DEF lost
  <2> QED
    BY <2>3, <2>4, <2>5, <2>6, <2>7
<1>6. \A a \in Artifacts \ files : artifacts'[a] = artifacts[a]
  BY <1>4
<1>7. artifacts' \in [Artifacts -> Records]
  <2>1. \A a \in Artifacts : artifacts'[a] \in Records
    BY <1>5, <1>6 DEF ModelTypeOK
  <2>2. \E f : artifacts' = [a \in Artifacts |-> f[a]]
    <3> DEFINE f == [a \in Artifacts |-> IF a \in files THEN Renewed(a, batch[a]) ELSE artifacts[a]]
    <3>1. f = [a \in Artifacts |-> f[a]]
      OBVIOUS
    <3> QED
      BY <3>1, <1>4
  <2> QED
    BY <2>1, <2>2
<1>8. lost \subseteq files
  OBVIOUS
<1> HIDE DEF lost
<1> QED
  BY <1>4, <1>5, <1>6, <1>7, <1>8 DEF IsInvalidated

\* Ageing and withdrawing keep what is not held unheld.
LEMMA ValiditiesAre ==
    ASSUME NEW v \in Validities
    PROVE  /\ IfHeld(v, "stale") \in Validities /\ IfHeld(v, "retracted") \in Validities
           /\ IfHeld(v, "stale") # "current" /\ IfHeld(v, "stale") # "retracted"
           /\ IfHeld(v, "retracted") # "current"
           /\ (IfHeld(v, "stale") = "none" <=> v = "none") /\ (IfHeld(v, "retracted") = "none" <=> v = "none")
           /\ Aged(v) \in Validities /\ Aged(v) # "current" /\ (v # "retracted" => Aged(v) # "retracted")
           /\ (Aged(v) = "none" <=> v = "none") /\ (Aged(v) = "retracted" => v = "retracted")
BY DEF Validities, IfHeld, Aged

\* Declarations by file and name.
LEMMA IdsAre ==
    /\ \A a \in Artifacts, s \in Names : <<a, s>> \in Ids /\ <<a, s>>[1] = a /\ <<a, s>>[2] = s
    /\ \A e \in Ids : e[1] \in Artifacts /\ e[2] \in Names /\ e = <<e[1], e[2]>>
    /\ Root \in Names /\ Symbols \subseteq Names
BY DEF Ids, Names

\* A batch keeps the model true: what it no longer knows is not current.
LEMMA CapturedFacts ==
    ASSUME StoreTypeOK, ModelTypeOK, FactsInv, NEW files \in SUBSET Artifacts,
           NEW batch, batch = Captured(files), InvalidateArtifacts(batch), CaptureAll(files),
           \A a \in files : /\ latest'[a].gen = batch[a].gen
                            /\ latest'[a].status = "present" => batch[a].status = "present",
           \A a \in Artifacts \ files : latest'[a] = latest[a],
           UNCHANGED <<disk, lineageId, checkpoints>>
    PROVE  StoreTypeOK' /\ ModelTypeOK' /\ FactsInv'
<1>1. /\ \A a \in files : batch[a] = Capture(a)
      /\ Registered /\ FactsSupported /\ CertificatesHold /\ FactsFollowSource
  BY DEF Captured, FactsInv
<1>2. PICK lost \in SUBSET Artifacts : IsInvalidated(files, lost, batch)
  BY <1>1, Invalidated
<1>3. artifacts' \in [Artifacts -> Records]
  BY <1>1, Invalidated
<1>4. /\ lost \subseteq files
      /\ \A a \in files : /\ artifacts'[a].gen = batch[a].gen /\ artifacts'[a].status = batch[a].status
                          /\ artifacts'[a].hash = batch[a].hash /\ artifacts'[a].cert = artifacts[a].cert
      /\ \A a \in Artifacts \ files : artifacts'[a] = artifacts[a]
      /\ \A a \in lost : ~ artifacts'[a].fresh
      /\ \A a \in files \ lost :
          /\ artifacts'[a].status = "present" /\ artifacts'[a].hash = artifacts[a].hash
          /\ artifacts'[a].fresh <=> artifacts[a].fresh
  BY <1>2 DEF IsInvalidated
<1>5. entities' = [e \in Ids |->
          IF e[1] \in lost THEN IfHeld(entities[e], Freshness(batch[e[1]])) ELSE entities[e]]
  BY <1>2 DEF IsInvalidated
<1>6. /\ \A e \in Ids : entities[e] \in Validities
      /\ \A a \in Artifacts : imports[a] \in Validities /\ imports[a] # "retracted"
                              /\ relations[a] \in Validities /\ relations[a] # "retracted"
      /\ checkpoints \in SUBSET Baselines
  BY DEF ModelTypeOK
<1>7. \A e \in Ids :
        /\ entities'[e] \in Validities
        /\ entities'[e] = "none" <=> entities[e] = "none"
        /\ e[1] \in lost => /\ entities'[e] # "current"
                            /\ entities'[e] = "retracted" => batch[e[1]].status = "missing"
        /\ e[1] \notin lost => entities'[e] = entities[e]
  <2> TAKE e \in Ids
  <2>1. CASE e[1] \in lost
    <3>1. entities'[e] = IfHeld(entities[e], Freshness(batch[e[1]]))
      BY <1>5, <2>1
    <3>2. CASE batch[e[1]].status = "missing"
      BY <3>1, <3>2, <1>6, <2>1, ValiditiesAre DEF Freshness
    <3>3. CASE batch[e[1]].status # "missing"
      BY <3>1, <3>3, <1>6, <2>1, ValiditiesAre DEF Freshness
    <3> QED
      BY <3>2, <3>3
  <2>2. CASE e[1] \notin lost
    BY <1>5, <1>6, <2>2
  <2> QED
    BY <2>1, <2>2
<1>8. \A a \in Artifacts :
        /\ imports'[a] \in Validities /\ imports'[a] # "retracted"
        /\ imports'[a] = "current" => a \notin lost /\ imports[a] = "current"
        /\ relations'[a] \in Validities /\ relations'[a] # "retracted"
        /\ relations'[a] = "current" => a \notin lost /\ Target[a] \notin lost /\ relations[a] = "current"
  BY <1>2, <1>6, ValiditiesAre DEF IsInvalidated
<1>9. \A a \in Artifacts : FreshFile(a) /\ a \notin lost => FreshFile(a)' /\ artifacts'[a].hash = artifacts[a].hash
  BY <1>4 DEF FreshFile
<1>10. StoreTypeOK'
  <2>1. \A a \in Artifacts : NextGeneration(a) \in Nat /\ Inspect(a) \in Versions
    BY VersionIs
  <2>2. records' \in [Artifacts -> [gen : Nat, seen : Versions]]
    BY <2>1 DEF CaptureAll, StoreTypeOK
  <2> QED
    BY <2>2 DEF StoreTypeOK
<1>11. ModelTypeOK'
  <2>1. entities' \in [Ids -> Validities]
    BY <1>5, <1>7
  <2>2. imports' \in [Artifacts -> Validities \ {"retracted"}] /\ relations' \in [Artifacts -> Validities \ {"retracted"}]
    BY <1>2, <1>8 DEF IsInvalidated
  <2> QED
    BY <1>3, <1>6, <2>1, <2>2 DEF ModelTypeOK
<1>12. Registered'
  <2>1. ASSUME NEW a \in files
        PROVE  /\ latest'[a].gen = records'[a].gen /\ artifacts'[a].gen = records'[a].gen
               /\ artifacts'[a].hash = HashOf(a, records'[a].seen.status, records'[a].seen.stamp)
               /\ latest'[a].status = "present" => artifacts'[a].status = "present" /\ latest'[a].gen # 0
               /\ artifacts'[a].status = "missing" => artifacts'[a].hash = {}
    <3>1. records'[a] = [gen |-> NextGeneration(a), seen |-> Inspect(a)]
      BY <2>1 DEF CaptureAll
    <3>2. /\ batch[a].gen = NextGeneration(a) /\ NextGeneration(a) # 0
          /\ batch[a].hash = HashOf(a, Inspect(a).status, Inspect(a).stamp)
          /\ batch[a].status # "present" => batch[a].hash = {}
      BY <1>1, VersionIs
    <3>3. records'[a].gen = NextGeneration(a) /\ records'[a].seen = Inspect(a)
      BY <3>1
    <3> QED
      BY <3>2, <3>3, <1>4
  <2>2. ASSUME NEW a \in Artifacts \ files
        PROVE  /\ latest'[a].gen = records'[a].gen /\ artifacts'[a].gen = records'[a].gen
               /\ artifacts'[a].hash = HashOf(a, records'[a].seen.status, records'[a].seen.stamp)
               /\ latest'[a].status = "present" => artifacts'[a].status = "present" /\ latest'[a].gen # 0
               /\ artifacts'[a].status = "missing" => artifacts'[a].hash = {}
    <3>1. records'[a] = records[a] /\ latest'[a] = latest[a] /\ artifacts'[a] = artifacts[a]
      BY <2>2, <1>4 DEF CaptureAll
    <3> QED
      BY <3>1, <1>1 DEF Registered
  <2>3. \A a \in Artifacts : HashOf(a, records[a].seen.status, records[a].seen.stamp)'
                              = HashOf(a, records'[a].seen.status, records'[a].seen.stamp)
    BY DEF HashOf
  <2> QED
    BY <2>1, <2>2, <2>3 DEF Registered
<1>13. FactsSupported'
  <2>1. ASSUME NEW a \in Artifacts, artifacts'[a].fresh
        PROVE  artifacts'[a].status = "present" /\ entities'[<<a, Root>>] = "current"
    <3>1. a \notin lost /\ artifacts[a].fresh
      BY <2>1, <1>4
    <3>2. artifacts[a].status = "present" /\ entities[<<a, Root>>] = "current"
      BY <3>1, <1>1 DEF FactsSupported
    <3>3. entities'[<<a, Root>>] = entities[<<a, Root>>]
      BY <3>1, <1>7, IdsAre
    <3> QED
      BY <3>1, <3>2, <3>3, <1>4
  <2>2. ASSUME NEW a \in Artifacts, imports'[a] = "current"
        PROVE  FreshFile(a)' /\ Import \in artifacts'[a].hash
    BY <2>2, <1>1, <1>8, <1>9 DEF FactsSupported
  <2> QED
    BY <2>1, <2>2 DEF FactsSupported
<1>14. CertificatesHold'
  <2>1. \A a \in Artifacts : artifacts'[a].cert = artifacts[a].cert
    BY <1>4
  <2>2. Held' = Held
    BY <1>7 DEF Held
  <2> QED
    BY <2>1, <2>2, <1>1 DEF CertificatesHold
<1>15. FactsFollowSource'
  <2>1. ASSUME NEW a \in Artifacts, NEW s \in Names, entities'[<<a, s>>] = "current"
        PROVE  FreshFile(a)' /\ s \in artifacts'[a].hash \union {Root}
    <3>1. a \notin lost /\ entities[<<a, s>>] = "current"
      BY <2>1, <1>7, IdsAre
    <3>2. FreshFile(a) /\ s \in artifacts[a].hash \union {Root}
      BY <3>1, <1>1 DEF FactsFollowSource
    <3> QED
      BY <3>1, <3>2, <1>9
  <2>2. ASSUME NEW a \in Artifacts, NEW s \in Names, entities'[<<a, s>>] = "retracted"
        PROVE  artifacts'[a].status = "missing" \/ (artifacts'[a].status = "present" /\ s \notin artifacts'[a].hash)
    <3>1. CASE a \in lost
      BY <2>2, <3>1, <1>4, <1>7, IdsAre
    <3>2. CASE a \notin lost
      <4>1. entities[<<a, s>>] = "retracted"
        BY <2>2, <3>2, <1>7, IdsAre
      <4>2. artifacts[a].status = "missing" \/ (artifacts[a].status = "present" /\ s \notin artifacts[a].hash)
        BY <4>1, <1>1 DEF FactsFollowSource
      <4>3. artifacts[a].status = "missing" => artifacts[a].hash = {}
        BY <1>1 DEF Registered
      <4> QED
        BY <3>2, <4>2, <4>3, <1>4
    <3> QED
      BY <3>1, <3>2
  <2>3. ASSUME NEW a \in Artifacts, relations'[a] = "current"
        PROVE  /\ FreshFile(a)' /\ Import \in artifacts'[a].hash
               /\ \A end \in {a, Target[a]} : entities'[<<end, Root>>] = "current"
    <3>1. a \notin lost /\ Target[a] \notin lost /\ relations[a] = "current" /\ Target[a] \in Artifacts
      BY <2>3, <1>8, ModelAssumption
    <3>2. /\ FreshFile(a) /\ Import \in artifacts[a].hash
          /\ entities[<<a, Root>>] = "current" /\ entities[<<Target[a], Root>>] = "current"
      BY <3>1, <1>1 DEF FactsFollowSource
    <3>3. /\ entities'[<<a, Root>>] = entities[<<a, Root>>]
          /\ entities'[<<Target[a], Root>>] = entities[<<Target[a], Root>>]
      BY <3>1, <1>7, IdsAre
    <3> QED
      BY <3>1, <3>2, <3>3, <1>9
  <2> QED
    BY <2>1, <2>2, <2>3 DEF FactsFollowSource
<1> QED
  BY <1>10, <1>11, <1>12, <1>13, <1>14, <1>15 DEF FactsInv

-----------------------------------------------------------------------------
(* So does the structure of the version that is known, whatever had to go for it. *)

Certifies(record, fresh, cert) == [record EXCEPT !.fresh = fresh, !.cert = cert]

\* A certificate is renewed and the rest of the record kept.
LEMMA CertifiesIs ==
    ASSUME NEW record \in Records, NEW fresh, NEW cert
    PROVE  Certifies(record, fresh, cert)
             = [gen |-> record.gen, status |-> record.status, hash |-> record.hash, fresh |-> fresh, cert |-> cert]
<1> DEFINE r == [record EXCEPT !.fresh = fresh]
<1>1. Certifies(record, fresh, cert) = [r EXCEPT !.cert = cert]
  BY DEF Certifies
<1>2. r = [gen |-> record.gen, status |-> record.status, hash |-> record.hash, fresh |-> fresh,
           cert |-> record.cert]
  BY DEF Records
<1> HIDE DEF r
<1> QED
  BY <1>1, <1>2

\* An accepted parse keeps the model true, whatever it found and whatever was evicted for it.
LEMMA StructureFacts ==
    ASSUME ModelTypeOK, FactsInv, NEW a \in Artifacts, artifacts[a].status = "present",
           NEW found \in SUBSET artifacts[a].hash, NEW complete, complete => found = artifacts[a].hash,
           NEW evicted \in Evictions(a),
           NEW admitted \in Admissions(Wanted(a, found) \ Kept(a, evicted), Kept(a, evicted)),
           ObserveStructure(a, found, complete, evicted, admitted), UNCHANGED <<records, latest>>
    PROVE  ModelTypeOK' /\ FactsInv'
<1> DEFINE wanted == Wanted(a, found)  kept == Kept(a, evicted)
           certain == complete /\ ~ Omits(wanted \ kept, admitted)
           scheduled == {c \in Artifacts : Target[c] = a}
                        \union {c \in {a} : Import \in found /\ imports[c] # "current"}
<1>1. /\ Registered /\ FactsSupported /\ CertificatesHold /\ FactsFollowSource
      /\ artifacts \in [Artifacts -> Records] /\ entities \in [Ids -> Validities]
      /\ \A c \in Artifacts : /\ imports[c] \in Validities /\ imports[c] # "retracted"
                              /\ relations[c] \in Validities /\ relations[c] # "retracted"
      /\ checkpoints \in SUBSET Baselines
  BY DEF FactsInv, ModelTypeOK
<1>2. evicted \subseteq Held /\ Held \subseteq Ids /\ \A e \in evicted : e[2] # Root
  BY DEF Evictions, Held
<1>3. admitted \subseteq wanted \ kept
  BY DEF Admissions
<1>4. /\ \A e \in wanted : e \in Ids /\ e[1] = a /\ e[2] \in (found \cap Symbols) \union {Root}
      /\ \A s \in (found \cap Symbols) \union {Root} : <<a, s>> \in wanted
      /\ <<a, Root>> \in wanted /\ <<a, Root>> \in kept
      /\ \A e \in kept : e \in Held \/ e = <<a, Root>>
      /\ \A e \in Held : e \notin evicted => e \in kept
      /\ kept \subseteq Ids
  BY <1>2, IdsAre DEF Wanted, Kept
<1>5. certain => complete /\ wanted \subseteq kept \union admitted /\ found = artifacts[a].hash
  BY DEF Omits
<1>6. /\ artifacts' = [c \in Artifacts |->
            IF c = a THEN Enumerated(a, certain)
            ELSE IF \E e \in evicted : e[1] = c THEN Decertified(artifacts[c])
            ELSE artifacts[c]]
      /\ entities' = [e \in Ids |->
            IF e \in wanted /\ e \in kept \union admitted THEN "current"
            ELSE IF e \notin kept THEN "none"
            ELSE IF e[1] # a THEN entities[e]
            ELSE IF certain THEN "retracted" ELSE "stale"]
      /\ imports' = [imports EXCEPT ![a] =
            IF Import \in found THEN "current" ELSE IF certain THEN "none" ELSE Aged(@)]
      /\ relations' = [c \in Artifacts |->
            IF c \in scheduled /\ Resolves(c, artifacts', entities', imports') THEN "current"
            ELSE IF c = a /\ Import \notin found THEN Aged(relations[c])
            ELSE relations[c]]
      /\ checkpoints' = checkpoints
  BY DEF ObserveStructure
<1> HIDE DEF wanted, kept, scheduled, certain
<1>7. /\ artifacts'[a].gen = artifacts[a].gen /\ artifacts'[a].status = "present"
      /\ artifacts'[a].hash = artifacts[a].hash /\ artifacts'[a].fresh
      /\ artifacts'[a].cert.hash = artifacts[a].hash
      /\ artifacts'[a].cert.complete => certain
      /\ artifacts'[a] \in Records
  <2> DEFINE cert == [gen |-> artifacts[a].gen, hash |-> artifacts[a].hash, complete |-> certain]
  <2>1. artifacts[a] \in Records /\ certain \in BOOLEAN
    BY <1>1 DEF certain
  <2>2. artifacts'[a] = [gen |-> artifacts[a].gen, status |-> artifacts[a].status, hash |-> artifacts[a].hash,
                         fresh |-> TRUE, cert |-> cert]
    <3>1. artifacts'[a] = Enumerated(a, certain)
      BY <1>6
    <3> HIDE DEF certain
    <3>2. Enumerated(a, certain) = Certifies(artifacts[a], TRUE, cert)
      BY DEF Enumerated, Certifies
    <3> HIDE DEF cert
    <3>3. Certifies(artifacts[a], TRUE, cert)
            = [gen |-> artifacts[a].gen, status |-> artifacts[a].status, hash |-> artifacts[a].hash,
               fresh |-> TRUE, cert |-> cert]
      BY <2>1, CertifiesIs, Zenon
    <3> QED
      BY <3>1, <3>2, <3>3
  <2>3. cert \in Certificates
    BY <2>1 DEF Records, Certificates
  <2>4. cert.hash = artifacts[a].hash /\ cert.complete = certain
    OBVIOUS
  <2> HIDE DEF cert, certain
  <2>5. artifacts'[a] \in Records
    BY <2>1, <2>2, <2>3 DEF Records
  <2>6. /\ artifacts'[a].gen = artifacts[a].gen /\ artifacts'[a].status = artifacts[a].status
        /\ artifacts'[a].hash = artifacts[a].hash /\ artifacts'[a].fresh = TRUE /\ artifacts'[a].cert = cert
    BY <2>2
  <2>7. artifacts'[a].cert.complete => certain
    BY <2>4, <2>6, Zenon
  <2> QED
    BY <2>4, <2>5, <2>6, <2>7
<1>8. \A c \in Artifacts \ {a} :
        /\ artifacts'[c].gen = artifacts[c].gen /\ artifacts'[c].status = artifacts[c].status
        /\ artifacts'[c].hash = artifacts[c].hash /\ artifacts'[c].fresh = artifacts[c].fresh
        /\ artifacts'[c].cert.complete => artifacts'[c] = artifacts[c] /\ \A e \in evicted : e[1] # c
        /\ artifacts'[c] \in Records
  <2> TAKE c \in Artifacts \ {a}
  <2>0. artifacts[c] \in Records
    BY <1>1
  <2>1. CASE \E e \in evicted : e[1] = c
    <3> DEFINE cert == [artifacts[c].cert EXCEPT !.complete = FALSE]
    <3>1. artifacts'[c] = Decertified(artifacts[c])
      BY <1>6, <2>1
    <3>2. Decertified(artifacts[c]) = [artifacts[c] EXCEPT !.cert = cert]
      BY DEF Decertified
    <3>3. cert \in Certificates /\ ~ cert.complete
      BY <2>0 DEF Records, Certificates
    <3> HIDE DEF cert
    <3>4. [artifacts[c] EXCEPT !.cert = cert]
            = [gen |-> artifacts[c].gen, status |-> artifacts[c].status, hash |-> artifacts[c].hash,
               fresh |-> artifacts[c].fresh, cert |-> cert]
      BY <2>0 DEF Records
    <3>5. artifacts'[c] = [gen |-> artifacts[c].gen, status |-> artifacts[c].status, hash |-> artifacts[c].hash,
                           fresh |-> artifacts[c].fresh, cert |-> cert]
      BY <3>1, <3>2, <3>4
    <3>6. artifacts'[c] \in Records
      BY <2>0, <3>3, <3>5 DEF Records
    <3>7. /\ artifacts'[c].gen = artifacts[c].gen /\ artifacts'[c].status = artifacts[c].status
          /\ artifacts'[c].hash = artifacts[c].hash /\ artifacts'[c].fresh = artifacts[c].fresh
          /\ artifacts'[c].cert = cert
      BY <3>5
    <3> QED
      BY <3>3, <3>6, <3>7
  <2>2. CASE ~ \E e \in evicted : e[1] = c
    BY <1>6, <2>0, <2>2
  <2> QED
    BY <2>1, <2>2
<1>9. \A e \in Ids :
        /\ entities'[e] \in Validities
        /\ e \in wanted /\ e \in kept \union admitted => entities'[e] = "current"
        /\ e \notin wanted /\ e[1] = a => /\ entities'[e] # "current"
                                          /\ entities'[e] = "retracted" => certain
        /\ e[1] = a /\ entities'[e] = "current" => e \in wanted
        /\ e[1] # a => /\ entities'[e] # "none" => entities'[e] = entities[e]
                       /\ e \in kept => entities'[e] = entities[e]
        /\ e \in wanted => entities'[e] # "retracted"
  <2> TAKE e \in Ids
  <2>1. entities[e] \in Validities
    BY <1>1
  <2>2. entities'[e] = IF e \in wanted /\ e \in kept \union admitted THEN "current"
                       ELSE IF e \notin kept THEN "none"
                       ELSE IF e[1] # a THEN entities[e]
                       ELSE IF certain THEN "retracted" ELSE "stale"
    BY <1>6
  <2>3. e \in wanted => e[1] = a
    BY <1>4
  <2>4. CASE e \in wanted /\ e \in kept \union admitted
    BY <2>2, <2>3, <2>4 DEF Validities
  <2>5. CASE ~ (e \in wanted /\ e \in kept \union admitted) /\ e \notin kept
    BY <2>2, <2>3, <2>5 DEF Validities
  <2>6. CASE ~ (e \in wanted /\ e \in kept \union admitted) /\ e \in kept /\ e[1] # a
    BY <2>1, <2>2, <2>3, <2>6
  <2>7. CASE ~ (e \in wanted /\ e \in kept \union admitted) /\ e \in kept /\ e[1] = a
    BY <2>2, <2>3, <2>7 DEF Validities
  <2> QED
    BY <2>4, <2>5, <2>6, <2>7
<1>10. /\ entities'[<<a, Root>>] = "current"
       /\ \A c \in Artifacts : entities[<<c, Root>>] = "current" => entities'[<<c, Root>>] = "current"
  <2>1. entities'[<<a, Root>>] = "current"
    BY <1>4, <1>9
  <2>2. ASSUME NEW c \in Artifacts, c # a, entities[<<c, Root>>] = "current"
        PROVE  entities'[<<c, Root>>] = "current"
    <3>1. <<c, Root>> \in Ids /\ <<c, Root>>[1] = c /\ <<c, Root>>[2] = Root
      BY IdsAre
    <3>2. <<c, Root>> \in Held /\ <<c, Root>> \notin evicted
      BY <3>1, <2>2, <1>2 DEF Held
    <3>3. <<c, Root>> \in kept
      BY <3>2, <1>4
    <3> QED
      BY <3>1, <3>3, <2>2, <1>9
  <2> QED
    BY <2>1, <2>2
<1>11. \A c \in Artifacts :
         /\ FreshFile(c) => FreshFile(c)'
         /\ artifacts'[c].hash = artifacts[c].hash
  BY <1>7, <1>8 DEF FreshFile
<1>12. /\ imports'[a] = "current" => Import \in found
       /\ imports'[a] \in Validities /\ imports'[a] # "retracted"
       /\ \A c \in Artifacts \ {a} : imports'[c] = imports[c]
  <2>1. imports'[a] = IF Import \in found THEN "current" ELSE IF certain THEN "none" ELSE Aged(imports[a])
    BY <1>6 DEF ModelTypeOK
  <2>2. \A c \in Artifacts \ {a} : imports'[c] = imports[c]
    BY <1>6 DEF ModelTypeOK
  <2> QED
    BY <2>1, <2>2, <1>1, ValiditiesAre DEF Validities
<1>13. ModelTypeOK'
  <2>1. artifacts' \in [Artifacts -> Records]
    <3>1. \A c \in Artifacts : artifacts'[c] \in Records
      BY <1>7, <1>8
    <3> QED
      BY <3>1, <1>6
  <2>2. entities' \in [Ids -> Validities]
    BY <1>6, <1>9
  <2>3. imports' \in [Artifacts -> Validities \ {"retracted"}]
    BY <1>6, <1>12, <1>1 DEF ModelTypeOK
  <2>4. relations' \in [Artifacts -> Validities \ {"retracted"}]
    <3>1. \A c \in Artifacts : relations'[c] \in Validities \ {"retracted"}
      BY <1>6, <1>1, ValiditiesAre DEF Validities
    <3> QED
      BY <3>1, <1>6
  <2> QED
    BY <2>1, <2>2, <2>3, <2>4, <1>1, <1>6 DEF ModelTypeOK
<1>14. Registered'
  <2>1. \A c \in Artifacts : artifacts'[c].gen = artifacts[c].gen /\ artifacts'[c].status = artifacts[c].status
                             /\ artifacts'[c].hash = artifacts[c].hash
    BY <1>7, <1>8
  <2>2. \A c \in Artifacts : HashOf(c, records[c].seen.status, records[c].seen.stamp)'
                              = HashOf(c, records[c].seen.status, records[c].seen.stamp)
    BY DEF HashOf
  <2> QED
    BY <2>1, <2>2, <1>1 DEF Registered
<1>15. FactsSupported'
  <2>1. ASSUME NEW c \in Artifacts, artifacts'[c].fresh
        PROVE  artifacts'[c].status = "present" /\ entities'[<<c, Root>>] = "current"
    BY <2>1, <1>1, <1>7, <1>8, <1>10 DEF FactsSupported
  <2>2. ASSUME NEW c \in Artifacts, imports'[c] = "current"
        PROVE  FreshFile(c)' /\ Import \in artifacts'[c].hash
    <3>1. CASE c = a
      BY <2>2, <3>1, <1>7, <1>12 DEF FreshFile
    <3>2. CASE c # a
      BY <2>2, <3>2, <1>1, <1>11, <1>12 DEF FactsSupported
    <3> QED
      BY <3>1, <3>2
  <2> QED
    BY <2>1, <2>2 DEF FactsSupported
<1>16. CertificatesHold'
  <2>1. ASSUME NEW c \in Artifacts, artifacts'[c].cert.complete,
               NEW s \in (artifacts'[c].cert.hash \cap Symbols) \union {Root}
        PROVE  <<c, s>> \in Held'
    <3>0. <<c, s>> \in Ids /\ <<c, s>>[1] = c
      BY IdsAre
    <3>1. CASE c = a
      <4>1. certain /\ s \in (found \cap Symbols) \union {Root}
        BY <2>1, <3>1, <1>5, <1>7
      <4>2. <<a, s>> \in wanted /\ <<a, s>> \in kept \union admitted
        BY <4>1, <1>4, <1>5
      <4> QED
        BY <3>0, <3>1, <4>2, <1>9 DEF Held
    <3>2. CASE c # a
      <4>1. artifacts'[c] = artifacts[c] /\ \A e \in evicted : e[1] # c
        BY <2>1, <3>2, <1>8
      <4>2. <<c, s>> \in Held
        BY <2>1, <4>1, <1>1 DEF CertificatesHold
      <4>3. <<c, s>> \in kept
        BY <3>0, <4>1, <4>2, <1>4
      <4> QED
        BY <3>0, <3>2, <4>2, <4>3, <1>9 DEF Held
    <3> QED
      BY <3>1, <3>2
  <2> QED
    BY <2>1, <1>1, <1>6 DEF CertificatesHold
<1>17. FactsFollowSource'
  <2>1. ASSUME NEW c \in Artifacts, NEW s \in Names, entities'[<<c, s>>] = "current"
        PROVE  FreshFile(c)' /\ s \in artifacts'[c].hash \union {Root}
    <3>0. <<c, s>> \in Ids /\ <<c, s>>[1] = c /\ <<c, s>>[2] = s
      BY IdsAre
    <3>1. CASE c = a
      <4>1. <<c, s>> \in wanted
        BY <3>0, <3>1, <2>1, <1>9
      <4>2. s \in (found \cap Symbols) \union {Root}
        BY <3>0, <4>1, <1>4
      <4> QED
        BY <3>1, <4>2, <1>7 DEF FreshFile
    <3>2. CASE c # a
      <4>1. entities[<<c, s>>] = "current"
        BY <3>0, <3>2, <2>1, <1>9
      <4>2. FreshFile(c) /\ s \in artifacts[c].hash \union {Root}
        BY <4>1, <1>1 DEF FactsFollowSource
      <4> QED
        BY <4>2, <1>11
    <3> QED
      BY <3>1, <3>2
  <2>2. ASSUME NEW c \in Artifacts, NEW s \in Names, entities'[<<c, s>>] = "retracted"
        PROVE  artifacts'[c].status = "missing" \/ (artifacts'[c].status = "present" /\ s \notin artifacts'[c].hash)
    <3>0. <<c, s>> \in Ids /\ <<c, s>>[1] = c /\ <<c, s>>[2] = s
      BY IdsAre
    <3>1. CASE c = a
      <4>1. <<c, s>> \notin wanted /\ certain
        BY <3>0, <3>1, <2>2, <1>9
      <4>2. s \notin (artifacts[a].hash \cap Symbols) \union {Root}
        BY <3>1, <4>1, <1>4, <1>5
      <4>3. s \notin artifacts[a].hash
        BY <4>2 DEF Names
      <4> QED
        BY <3>1, <4>3, <1>7
    <3>2. CASE c # a
      <4>1. entities[<<c, s>>] = "retracted"
        BY <3>0, <3>2, <2>2, <1>9
      <4> QED
        BY <4>1, <3>2, <1>1, <1>8 DEF FactsFollowSource
    <3> QED
      BY <3>1, <3>2
  <2>3. ASSUME NEW c \in Artifacts, relations'[c] = "current"
        PROVE  /\ FreshFile(c)' /\ Import \in artifacts'[c].hash
               /\ \A end \in {c, Target[c]} : entities'[<<end, Root>>] = "current"
    <3>0. Target[c] \in Artifacts
      BY ModelAssumption
    <3>1. CASE c \in scheduled /\ Resolves(c, artifacts', entities', imports')
      <4>1. imports'[c] = "current" /\ entities'[<<Target[c], Root>>] = "current"
        BY <3>1 DEF Resolves
      <4>2. FreshFile(c)' /\ Import \in artifacts'[c].hash
        BY <4>1, <1>15 DEF FactsSupported
      <4>3. artifacts'[c].fresh
        BY <4>2 DEF FreshFile
      <4>4. entities'[<<c, Root>>] = "current"
        BY <4>3, <1>15 DEF FactsSupported
      <4> QED
        BY <4>1, <4>2, <4>4
    <3>2. CASE ~ (c \in scheduled /\ Resolves(c, artifacts', entities', imports'))
      <4>1. relations[c] = "current"
        BY <2>3, <3>2, <1>1, <1>6, ValiditiesAre
      <4>2. /\ FreshFile(c) /\ Import \in artifacts[c].hash
            /\ entities[<<c, Root>>] = "current" /\ entities[<<Target[c], Root>>] = "current"
        BY <4>1, <1>1 DEF FactsFollowSource
      <4> QED
        BY <4>2, <3>0, <1>10, <1>11
    <3> QED
      BY <3>1, <3>2
  <2> QED
    BY <2>1, <2>2, <2>3 DEF FactsFollowSource
<1> QED
  BY <1>13, <1>14, <1>15, <1>16, <1>17 DEF FactsInv

-----------------------------------------------------------------------------
(* A change of checkout leaves nothing current, and a checkpoint repeats what is certified. *)

Withdraws(record, fresh, cert, status) ==
    [record EXCEPT !.fresh = fresh, !.cert = cert, !.status = status]

\* A record is withdrawn under the generation it has.
LEMMA WithdrawsIs ==
    ASSUME NEW record \in Records, NEW fresh, NEW cert, NEW status
    PROVE  Withdraws(record, fresh, cert, status)
             = [gen |-> record.gen, status |-> status, hash |-> record.hash, fresh |-> fresh, cert |-> cert]
<1> DEFINE r == Certifies(record, fresh, cert)
<1>1. Withdraws(record, fresh, cert, status) = [r EXCEPT !.status = status]
  BY DEF Withdraws, Certifies
<1>2. r = [gen |-> record.gen, status |-> record.status, hash |-> record.hash, fresh |-> fresh, cert |-> cert]
  BY CertifiesIs
<1> HIDE DEF r
<1> QED
  BY <1>1, <1>2

\* A change of checkout keeps the model true: nothing stays current.
LEMMA WithdrawnFacts ==
    ASSUME StoreTypeOK, ModelTypeOK, FactsInv, lineageId' \in Lineages, WithdrawAll(Tracked),
           UNCHANGED <<disk, records, checkpoints>>,
           \A a \in Artifacts : latest'[a].gen = latest[a].gen /\ latest'[a].status # "present"
    PROVE  StoreTypeOK' /\ ModelTypeOK' /\ FactsInv'
<1>1. /\ Registered /\ FactsSupported /\ CertificatesHold /\ FactsFollowSource
      /\ artifacts \in [Artifacts -> Records] /\ entities \in [Ids -> Validities]
      /\ \A a \in Artifacts : /\ imports[a] \in Validities /\ imports[a] # "retracted"
                              /\ relations[a] \in Validities /\ relations[a] # "retracted"
      /\ checkpoints \in SUBSET Baselines
  BY DEF FactsInv, ModelTypeOK
<1>2. /\ entities' = [e \in Ids |->
            IF e[1] \in Tracked THEN IfHeld(entities[e], "stale") ELSE Aged(entities[e])]
      /\ imports' = [a \in Artifacts |-> Aged(imports[a])]
      /\ relations' = [a \in Artifacts |-> Aged(relations[a])]
  BY DEF WithdrawAll
<1>3. \A a \in Artifacts :
        /\ artifacts'[a] \in Records
        /\ artifacts'[a].gen = artifacts[a].gen /\ artifacts'[a].hash = artifacts[a].hash
        /\ ~ artifacts'[a].fresh /\ ~ artifacts'[a].cert.complete
        /\ artifacts'[a].status = IF a \in Tracked THEN "unavailable" ELSE artifacts[a].status
  <2> TAKE a \in Artifacts
  <2> DEFINE cert == [artifacts[a].cert EXCEPT !.complete = FALSE]
             status == IF a \in Tracked THEN "unavailable" ELSE artifacts[a].status
  <2>1. artifacts[a] \in Records
    BY <1>1
  <2>2. cert \in Certificates /\ ~ cert.complete
    BY <2>1 DEF Records, Certificates
  <2>3. status \in Statuses
    BY <2>1 DEF Records, Statuses
  <2>4. artifacts'[a] = [gen |-> artifacts[a].gen, status |-> status, hash |-> artifacts[a].hash,
                         fresh |-> FALSE, cert |-> cert]
    <3>1. artifacts'[a] = Withdraws(artifacts[a], FALSE, cert, status)
      BY DEF WithdrawAll, Withdraws
    <3> HIDE DEF cert, status
    <3>2. Withdraws(artifacts[a], FALSE, cert, status)
            = [gen |-> artifacts[a].gen, status |-> status, hash |-> artifacts[a].hash, fresh |-> FALSE, cert |-> cert]
      BY <2>1, WithdrawsIs, Zenon
    <3> QED
      BY <3>1, <3>2
  <2> HIDE DEF cert, status
  <2>6. artifacts'[a] \in Records
    BY <2>1, <2>2, <2>3, <2>4 DEF Records
  <2>7. /\ artifacts'[a].gen = artifacts[a].gen /\ artifacts'[a].hash = artifacts[a].hash
        /\ artifacts'[a].fresh = FALSE /\ artifacts'[a].cert = cert /\ artifacts'[a].status = status
    BY <2>4
  <2> QED
    BY <2>2, <2>6, <2>7 DEF status
<1>4. \A e \in Ids : /\ entities'[e] \in Validities /\ entities'[e] # "current"
                     /\ entities'[e] = "retracted" => e[1] \notin Tracked /\ entities[e] = "retracted"
  <2> TAKE e \in Ids
  <2>1. entities[e] \in Validities
    BY <1>1
  <2> QED
    BY <2>1, <1>2, ValiditiesAre
<1>5. \A a \in Artifacts : /\ imports'[a] \in Validities \ {"retracted"} /\ imports'[a] # "current"
                           /\ relations'[a] \in Validities \ {"retracted"} /\ relations'[a] # "current"
  BY <1>1, <1>2, ValiditiesAre
<1>6. StoreTypeOK'
  BY DEF StoreTypeOK, AnyLineage
<1>7. ModelTypeOK'
  <2>1. artifacts' \in [Artifacts -> Records]
    <3>1. \E f : artifacts' = [a \in Artifacts |-> f[a]]
      <4>1. artifacts' = [a \in Artifacts |-> artifacts'[a]]
        BY DEF WithdrawAll
      <4> QED
        BY <4>1
    <3> QED
      BY <3>1, <1>3
  <2>2. entities' \in [Ids -> Validities]
    BY <1>2, <1>4
  <2>3. imports' \in [Artifacts -> Validities \ {"retracted"}] /\ relations' \in [Artifacts -> Validities \ {"retracted"}]
    BY <1>2, <1>5
  <2> QED
    BY <2>1, <2>2, <2>3, <1>1 DEF ModelTypeOK
<1>8. Registered'
  <2>1. \A a \in Artifacts : HashOf(a, records[a].seen.status, records[a].seen.stamp)'
                              = HashOf(a, records[a].seen.status, records[a].seen.stamp)
    BY DEF HashOf
  <2>2. \A a \in Artifacts : artifacts'[a].status = "missing" => artifacts[a].status = "missing"
    BY <1>3
  <2> QED
    BY <2>1, <2>2, <1>1, <1>3 DEF Registered
<1>9. FactsSupported'
  BY <1>3, <1>5 DEF FactsSupported
<1>10. CertificatesHold'
  BY <1>1, <1>3 DEF CertificatesHold
<1>11. FactsFollowSource'
  <2>1. ASSUME NEW a \in Artifacts, NEW s \in Names
        PROVE  /\ entities'[<<a, s>>] # "current"
               /\ entities'[<<a, s>>] = "retracted" =>
                    artifacts'[a].status = "missing" \/ (artifacts'[a].status = "present" /\ s \notin artifacts'[a].hash)
    <3>1. <<a, s>> \in Ids /\ <<a, s>>[1] = a
      BY IdsAre
    <3>2. entities'[<<a, s>>] = "retracted" => a \notin Tracked /\ entities[<<a, s>>] = "retracted"
      BY <3>1, <1>4
    <3>3. entities[<<a, s>>] = "retracted" =>
            artifacts[a].status = "missing" \/ (artifacts[a].status = "present" /\ s \notin artifacts[a].hash)
      BY <1>1 DEF FactsFollowSource
    <3> QED
      BY <3>1, <3>2, <3>3, <1>3, <1>4
  <2> QED
    BY <2>1, <1>5 DEF FactsFollowSource
<1> QED
  BY <1>6, <1>7, <1>8, <1>9, <1>10, <1>11 DEF FactsInv

\* A checkpoint certifies only what the model certified when it was made.
LEMMA CheckpointFacts ==
    ASSUME StoreTypeOK, ModelTypeOK, FactsInv, NEW a \in Artifacts, Checkpoint(a), UNCHANGED <<storeVars, latest>>
    PROVE  ModelTypeOK' /\ FactsInv'
<1> DEFINE base == Baseline(a)
<1>1. /\ checkpoints' = checkpoints \union {base}
      /\ UNCHANGED <<artifacts, entities, imports, relations, records, latest, lineageId, disk>>
  BY DEF Checkpoint, storeVars
<1>2. base \in Baselines
  BY DEF Baseline, Baselines, ModelTypeOK, StoreTypeOK, Records
<1>3. base.cert.complete => (base.cert.hash \cap Symbols) \union {Root} \subseteq base.held
  <2>1. base.cert = artifacts[a].cert /\ base.held = {s \in Names : <<a, s>> \in Held}
    BY DEF Baseline
  <2>2. artifacts[a].cert.complete => \A s \in (artifacts[a].cert.hash \cap Symbols) \union {Root} : <<a, s>> \in Held
    BY DEF FactsInv, CertificatesHold
  <2> HIDE DEF base
  <2> QED
    BY <2>1, <2>2, IdsAre
<1> HIDE DEF base
<1>4. Held' = Held
  BY <1>1 DEF Held
<1>5. ModelTypeOK'
  BY <1>1, <1>2 DEF ModelTypeOK
<1>6. CertificatesHold'
  BY <1>1, <1>3, <1>4 DEF FactsInv, CertificatesHold
<1>7. Registered' /\ FactsSupported' /\ FactsFollowSource'
  BY <1>1 DEF FactsInv, Registered, FactsSupported, FactsFollowSource, FreshFile, HashOf
<1> QED
  BY <1>5, <1>6, <1>7 DEF FactsInv

-----------------------------------------------------------------------------
(* The steps. *)

\* The invariant from its parts.
LEMMA InvParts ==
    ASSUME StoreTypeOK', ModelTypeOK', PlatformTypeOK', SpentTypeOK', ParserHolds', FactsInv', AllCovered'
    PROVE  DiscoveryInv'
BY TypePartsNext DEF DiscoveryInv

\* The parts of the invariant.
LEMMA InvHas ==
    ASSUME DiscoveryInv
    PROVE  /\ StoreTypeOK /\ ModelTypeOK /\ PlatformTypeOK /\ SpentTypeOK
           /\ ParserHolds /\ FactsInv /\ AllCovered
BY TypeParts DEF DiscoveryInv

\* The facts hold on while model and registry are as they were.
LEMMA FactsSame ==
    ASSUME ModelTypeOK, FactsInv, UNCHANGED <<modelVars, records, latest>>
    PROVE  ModelTypeOK' /\ FactsInv'
<1>1. UNCHANGED <<artifacts, entities, imports, relations, checkpoints, records, latest>>
  BY DEF modelVars
<1>2. ModelTypeOK'
  BY <1>1 DEF ModelTypeOK
<1>3. Held' = Held
  BY <1>1 DEF Held
<1>4. CertificatesHold'
  BY <1>1, <1>3 DEF FactsInv, CertificatesHold
<1>5. Registered' /\ FactsSupported' /\ FactsFollowSource'
  BY <1>1 DEF FactsInv, Registered, FactsSupported, FactsFollowSource, FreshFile, HashOf
<1> QED
  BY <1>2, <1>4, <1>5 DEF FactsInv

\* The store keeps its type while it is as it was.
LEMMA StoreSame ==
    ASSUME StoreTypeOK, UNCHANGED storeVars
    PROVE  StoreTypeOK'
BY DEF StoreTypeOK, storeVars

\* The budget keeps its type while nothing is spent.
LEMMA SpentSame ==
    ASSUME SpentTypeOK, UNCHANGED spent
    PROVE  SpentTypeOK'
BY DEF SpentTypeOK

\* The budget keeps its type when one thing is spent.
LEMMA SpentMore ==
    ASSUME SpentTypeOK, NEW kind \in Kinds, Spend(kind)
    PROVE  SpentTypeOK'
<1>1. /\ spent[kind] < Bound[kind] /\ spent' = [spent EXCEPT ![kind] = @ + 1]
      /\ spent \in [Kinds -> Nat] /\ \A k \in Kinds : spent[k] <= Bound[k]
  BY DEF Spend, SpentTypeOK
<1>2. \A k \in Kinds : Bound[k] \in Nat
  BY PlatformAssumption
<1>3. spent' \in [Kinds -> Nat]
  BY <1>1
<1>4. \A k \in Kinds : spent'[k] <= Bound[k]
  <2> TAKE k \in Kinds
  <2>1. CASE k = kind
    BY <1>1, <1>2, <2>1
  <2>2. CASE k # kind
    BY <1>1, <2>2
  <2> QED
    BY <2>1, <2>2
<1> QED
  BY <1>3, <1>4 DEF SpentTypeOK

\* The kinds of steps that are bounded.
LEMMA KindsAre == {"edit", "failure", "outage", "checkout", "request"} \subseteq Kinds
BY DEF Kinds

\* The idle parser works on no file.
LEMMA IdleIs == Idle \in Processings /\ \A c : Idle.of # {c}
BY DEF Idle, Processings, Stages

\* What is covered stays so when the parser takes up something.
LEMMA CoveredOn ==
    ASSUME NEW q \in Queues, NEW p \in Processings, NEW usable, Pump(q, p, usable),
           NEW known \in [Artifacts -> Observations], NEW putOff, NEW done, NEW c \in Artifacts,
           Covered(c, known, q, putOff, done, p)
    PROVE  Covered(c, known, queue', putOff, done, processing')
<1>1. /\ \/ processing' = p /\ queue' = q
         \/ p = Idle
      /\ \A gen \in Nat : (\E e \in Entries(q) : e.of = c /\ e.gen = gen) =>
            \/ \E e \in Entries(queue') : e.of = c /\ e.gen = gen
            \/ processing'.of = {c} /\ processing'.epoch /\ processing'.gen = gen
  BY Pumps
<1>2. known[c].gen \in Nat
  BY DEF Observations
<1>3. CASE processing' = p /\ queue' = q
  BY <1>3
<1>4. CASE p = Idle
  <2>1. p.of # {c}
    BY <1>4, IdleIs
  <2> QED
    BY <1>1, <1>2, <2>1 DEF Covered
<1> QED
  BY <1>1, <1>3, <1>4

\* The parser that is stopped covers nothing.
LEMMA CurrentCovers ==
    ASSUME NEW p, NEW known, NEW c, p.of = {c}, p.epoch, p.gen = known[c].gen, known[c].status = "present",
           ~ closed, available
    PROVE  Current(p, known)
BY DEF Current

\* A parse that ends with its file put off loses nothing.
LEMMA PutOffCovers ==
    ASSUME NEW c \in Artifacts, NEW known, NEW q, NEW putOff, NEW done, ParserHolds,
           Covered(c, known, q, putOff, done, processing),
           NEW put, NEW after, after[c] = (IF c \in put THEN Later ELSE putOff[c]),
           Current(processing, known) => put = processing.of
    PROVE  Covered(c, known, q, after, done, Idle)
<1>1. processing.epoch => available /\ ~ closed
  BY DEF ParserHolds
<1>2. CASE /\ processing.of = {c} /\ processing.epoch /\ processing.gen = known[c].gen
           /\ known[c].status = "present"
  <2>1. Current(processing, known)
    BY <1>1, <1>2, CurrentCovers
  <2>2. after[c] = Later
    BY <1>2, <2>1
  <2> QED
    BY <2>2, DeferralsAre DEF Covered
<1>3. CASE ~ (/\ processing.of = {c} /\ processing.epoch /\ processing.gen = known[c].gen
              /\ known[c].status = "present")
  BY <1>3, DeferralsAre DEF Covered
<1> QED
  BY <1>2, <1>3

\* What the parser works on is one file, of this checkout while it may.
LEMMA ParserKept ==
    ASSUME NEW q \in Queues, NEW p \in Processings, NEW usable, Pump(q, p, usable),
           p = Idle \/ (p.stage # "idle" /\ \E a \in Artifacts : p.of = {a}),
           p.epoch => available' /\ ~ closed', usable => available' /\ ~ closed'
    PROVE  ParserHolds'
<1>1. \/ processing' = p
      \/ usable /\ processing'.stage = "extract" /\ \E a \in Artifacts : processing'.of = {a}
  BY Pumps
<1>2. Idle' = Idle
  BY DEF Idle
<1> QED
  BY <1>1, <1>2 DEF ParserHolds

\* A batch that is captured, and what is known after it.
LEMMA ObservedBatch ==
    ASSUME DiscoveryInv, NEW files \in SUBSET Artifacts, NEW priority \in BOOLEAN, CaptureAll(files),
           NEW batch, batch = Captured(files), InvalidateArtifacts(batch),
           NEW w, w = ObserveAll(Work, batch, priority), latest' = w.latest,
           UNCHANGED <<disk, lineageId, checkpoints>>
    PROVE  /\ w \in Works /\ StoreTypeOK' /\ ModelTypeOK' /\ FactsInv'
           /\ w.latest \in [Artifacts -> Observations] /\ w.queue \in Queues
           /\ w.deferred \in [Artifacts -> Deferrals] /\ w.parsed \in [Artifacts -> Nat]
           /\ ~ closed => \A c \in Artifacts : Covered(c, w.latest, w.queue, w.deferred, w.parsed, processing)
<1>1. /\ StoreTypeOK /\ ModelTypeOK /\ PlatformTypeOK /\ FactsInv /\ AllCovered
  BY InvHas
<1>3. /\ Work \in Works /\ Work.latest = latest /\ Work.queue = queue /\ Work.deferred = deferred
      /\ Work.parsed = parsed
  BY <1>1, WorkIs
<1>4. DOMAIN batch = files /\ \A a \in files : batch[a] = Capture(a)
  BY DEF Captured
<1>5. IsBatch(Work, batch)
  <2>1. \A a \in Artifacts : latest[a].gen = records[a].gen
    BY <1>1 DEF FactsInv, Registered
  <2>2. \A a \in files : batch[a].gen \in Nat /\ batch[a].status \in Statuses /\ latest[a].gen <= batch[a].gen
    BY <1>1, <1>4, <2>1, VersionIs
  <2> QED
    BY <1>3, <1>4, <2>2 DEF IsBatch
<1>6. /\ w \in Works
      /\ \A c \in Artifacts : CoveredIn(c, Work) => CoveredIn(c, w)
      /\ \A c \in Artifacts \ files : w.latest[c] = latest[c]
      /\ \A c \in files : /\ w.latest[c].gen = batch[c].gen
                          /\ w.latest[c].status = "present" => batch[c].status = "present"
  BY <1>3, <1>4, <1>5, BatchIs
<1>7. StoreTypeOK' /\ ModelTypeOK' /\ FactsInv'
  BY <1>1, <1>6, CapturedFacts
<1>8. ASSUME ~ closed, NEW c \in Artifacts
      PROVE  Covered(c, w.latest, w.queue, w.deferred, w.parsed, processing)
  <2>1. CoveredIn(c, Work)
    BY <1>1, <1>3, <1>8 DEF AllCovered, CoveredIn
  <2> QED
    BY <2>1, <1>6 DEF CoveredIn
<1> QED
  BY <1>6, <1>7, <1>8, WorkFields

\* Capturing and observing a batch keeps the invariant, inside and outside the queue.
LEMMA ObservesKeep ==
    ASSUME DiscoveryInv, NEW files \in SUBSET Artifacts, NEW priority \in BOOLEAN, ~ closed, CaptureAll(files),
           NEW batch, batch = Captured(files), ObserveArtifacts(batch, priority, processing), SpentTypeOK',
           UNCHANGED <<disk, lineageId, checkpoints, available, closed>>
    PROVE  DiscoveryInv'
<1>1. PlatformTypeOK /\ ParserHolds
  BY InvHas
<1>2. PICK w : /\ w = ObserveAll(Work, batch, priority)
               /\ Becomes(w) /\ Pump(w.queue, processing, available /\ ~ closed)
               /\ InvalidateArtifacts(batch)
  BY DEF ObserveArtifacts
<1>3. latest' = w.latest /\ deferred' = w.deferred /\ parsed' = w.parsed /\ processing \in Processings
  BY <1>1, <1>2 DEF Becomes, PlatformTypeOK
<1>4. /\ StoreTypeOK' /\ ModelTypeOK' /\ FactsInv'
      /\ w.latest \in [Artifacts -> Observations] /\ w.queue \in Queues
      /\ w.deferred \in [Artifacts -> Deferrals] /\ w.parsed \in [Artifacts -> Nat]
      /\ \A c \in Artifacts : Covered(c, w.latest, w.queue, w.deferred, w.parsed, processing)
  BY <1>2, <1>3, ObservedBatch
<1>5. PlatformTypeOK'
  <2>1. queue' \in Queues /\ processing' \in Processings
    BY <1>2, <1>3, <1>4, Pumps
  <2> QED
    BY <2>1, <1>1, <1>3, <1>4 DEF PlatformTypeOK
<1>6. ParserHolds'
  BY <1>1, <1>2, <1>3, <1>4, ParserKept DEF ParserHolds
<1>7. AllCovered'
  <2>1. \A c \in Artifacts : Covered(c, w.latest, queue', w.deferred, w.parsed, processing')
    BY <1>2, <1>3, <1>4, CoveredOn
  <2> QED
    BY <2>1, <1>3 DEF AllCovered, Covered
<1> QED
  BY <1>4, <1>5, <1>6, <1>7, InvParts

\* A request of the agent or the watcher.
LEMMA IngestKeeps ==
    ASSUME DiscoveryInv, NEW files \in SUBSET Artifacts, NEW priority \in BOOLEAN, Ingest(files, priority)
    PROVE  DiscoveryInv'
<1>1. SpentTypeOK'
  BY InvHas, KindsAre, SpentMore DEF Ingest
<1> QED
  BY <1>1, ObservesKeep DEF Ingest

\* The inventory.
LEMMA ReconcileKeeps ==
    ASSUME DiscoveryInv, Reconcile
    PROVE  DiscoveryInv'
<1>1. SpentTypeOK'
  BY InvHas, SpentSame DEF Reconcile
<1> QED
  BY <1>1, ObservesKeep DEF Reconcile

\* What becomes of the parser when the checkout changes or cannot be read.
Stopped(p, r) ==
    /\ r \in Processings /\ ~ r.epoch
    /\ r.of = p.of /\ r.gen = p.gen /\ r.stage = p.stage
    /\ p = Idle => r = Idle

WithEpoch(p, epoch) == [p EXCEPT !.epoch = epoch]

\* A parse that is aborted keeps its file and its version.
LEMMA EpochIs ==
    ASSUME NEW p \in Processings, NEW epoch
    PROVE  WithEpoch(p, epoch) = [of |-> p.of, gen |-> p.gen, stage |-> p.stage, epoch |-> epoch]
BY DEF Processings, WithEpoch

\* An aborted parse is stopped.
LEMMA StoppedIs ==
    ASSUME NEW p \in Processings
    PROVE  Stopped(p, [p EXCEPT !.epoch = FALSE])
<1> DEFINE r == [p EXCEPT !.epoch = FALSE]
<1>1. r = [of |-> p.of, gen |-> p.gen, stage |-> p.stage, epoch |-> FALSE]
  <2>1. r = WithEpoch(p, FALSE)
    BY DEF WithEpoch
  <2> HIDE DEF r
  <2>2. WithEpoch(p, FALSE) = [of |-> p.of, gen |-> p.gen, stage |-> p.stage, epoch |-> FALSE]
    BY EpochIs, Zenon
  <2> QED
    BY <2>1, <2>2
<1>2. r \in Processings
  BY <1>1 DEF Processings
<1>3. r.of = p.of /\ r.gen = p.gen /\ r.stage = p.stage /\ r.epoch = FALSE
  BY <1>1
<1>4. p = Idle => r = Idle
  BY <1>1 DEF Idle
<1> QED
  BY <1>2, <1>3, <1>4 DEF Stopped

\* What the parser works on holds when it is stopped.
LEMMA ParserStopped ==
    ASSUME ParserHolds, Stopped(processing, processing')
    PROVE  ParserHolds'
<1>1. Idle' = Idle
  BY DEF Idle
<1> QED
  BY <1>1 DEF ParserHolds, Stopped

\* After a change of checkout no file is known to be present.
LEMMA ChangeCheckoutKeeps ==
    ASSUME DiscoveryInv, NEW id \in Lineages, ChangeCheckout(id)
    PROVE  DiscoveryInv'
<1> DEFINE batch == [a \in Tracked |-> Withdrawal(a)]
           known == {a \in Artifacts : latest[a].gen # 0}
           putOff == [a \in Artifacts |-> IF a \in known THEN Later ELSE NotDeferred]
           none == [a \in Artifacts |-> 0]
           start == [Work EXCEPT !.queue = <<>>, !.deferred = putOff, !.parsed = none]
<1>1. /\ StoreTypeOK /\ ModelTypeOK /\ PlatformTypeOK /\ ParserHolds /\ FactsInv /\ Registered
  BY InvHas DEF FactsInv
<1>2. PICK w : /\ w = ObserveAll(start, batch, FALSE)
               /\ Becomes(w) /\ queue' = w.queue
  BY DEF ChangeCheckout
<1>3. start = [latest |-> latest, queue |-> <<>>, deferred |-> putOff, parsed |-> none]
  <2> DEFINE u == [Work EXCEPT !.queue = <<>>]  v == [u EXCEPT !.deferred = putOff]
  <2>1. start = [v EXCEPT !.parsed = none]
    OBVIOUS
  <2>2. u = [latest |-> latest, queue |-> <<>>, deferred |-> deferred, parsed |-> parsed]
    BY DEF Work
  <2> HIDE DEF u, putOff, none
  <2>3. v = [latest |-> latest, queue |-> <<>>, deferred |-> putOff, parsed |-> parsed]
    BY <2>2
  <2> HIDE DEF v
  <2>4. [v EXCEPT !.parsed = none] = [latest |-> latest, queue |-> <<>>, deferred |-> putOff, parsed |-> none]
    BY <2>3
  <2> QED
    BY <2>1, <2>4
<1>4. putOff \in [Artifacts -> Deferrals] /\ none \in [Artifacts -> Nat]
  BY DeferralsAre
<1> HIDE DEF start, putOff, none, known
<1>5. start \in Works /\ start.latest = latest
  <2>1. start.latest = latest
    BY <1>3
  <2>2. latest \in [Artifacts -> Observations] /\ <<>> \in Queues
    BY <1>1, EmptyQueue DEF PlatformTypeOK
  <2> QED
    BY <1>3, <1>4, <2>1, <2>2 DEF Works
<1>6. DOMAIN batch = Tracked /\ Tracked \subseteq Artifacts
  BY DEF Tracked
<1>7. \A a \in Tracked : batch[a].gen = latest[a].gen /\ batch[a].gen \in Nat /\ batch[a].status = "unavailable"
  <2> TAKE a \in Tracked
  <2>1. batch[a].gen = records[a].gen /\ batch[a].status = "unavailable"
    BY DEF Withdrawal, Withdrawn
  <2>2. records[a].gen \in Nat
    BY <1>1, <1>6 DEF StoreTypeOK
  <2> QED
    BY <2>1, <2>2, <1>1, <1>6 DEF Registered
<1> HIDE DEF batch
<1>8. IsBatch(start, batch)
  BY <1>5, <1>6, <1>7 DEF IsBatch, Statuses
<1>9. /\ w \in Works
      /\ \A c \in Artifacts \ Tracked : w.latest[c] = latest[c]
      /\ \A c \in Tracked : /\ w.latest[c].gen = latest[c].gen
                            /\ w.latest[c].status = "present" => batch[c].status = "present"
  <2>1. PICK no \in BOOLEAN : no = FALSE
    OBVIOUS
  <2>2. w = ObserveAll(start, batch, no)
    BY <1>2, <2>1
  <2>3. /\ w \in Works
        /\ \A c \in Artifacts \ DOMAIN batch : w.latest[c] = start.latest[c]
        /\ \A c \in DOMAIN batch : /\ w.latest[c].gen = batch[c].gen
                                   /\ w.latest[c].status = "present" => batch[c].status = "present"
    BY <1>5, <1>8, <2>2, BatchIs
  <2> QED
    BY <1>5, <1>6, <1>7, <2>3
<1>10. /\ latest' = w.latest /\ deferred' = w.deferred /\ parsed' = w.parsed
       /\ w.latest \in [Artifacts -> Observations] /\ w.queue \in Queues
       /\ w.deferred \in [Artifacts -> Deferrals] /\ w.parsed \in [Artifacts -> Nat]
  BY <1>2, <1>9, WorkFields DEF Becomes
<1>11. \A a \in Artifacts : latest'[a].gen = latest[a].gen /\ latest'[a].status # "present"
  <2> TAKE a \in Artifacts
  <2>1. CASE a \in Tracked
    BY <2>1, <1>7, <1>9, <1>10
  <2>2. CASE a \notin Tracked
    <3>1. latest'[a] = latest[a] /\ latest[a].gen = 0
      BY <2>2, <1>1, <1>9, <1>10 DEF Tracked, Registered
    <3>2. latest[a].status = "present" => latest[a].gen # 0
      BY <1>1 DEF Registered
    <3> QED
      BY <3>1, <3>2
  <2> QED
    BY <2>1, <2>2
<1>12. StoreTypeOK' /\ ModelTypeOK' /\ FactsInv'
  <2>1. lineageId' \in Lineages /\ WithdrawAll(Tracked) /\ UNCHANGED <<disk, records, checkpoints>>
    BY DEF ChangeCheckout
  <2> QED
    BY <1>1, <1>11, <2>1, WithdrawnFacts
<1>13. /\ processing' = [processing EXCEPT !.epoch = FALSE]
       /\ available' = TRUE /\ closed' = closed
  BY DEF ChangeCheckout
<1>14. PlatformTypeOK' /\ ParserHolds'
  <2>1. Stopped(processing, processing')
    BY <1>1, <1>13, StoppedIs DEF PlatformTypeOK
  <2> QED
    BY <2>1, <1>1, <1>2, <1>10, <1>13, ParserStopped DEF PlatformTypeOK, Stopped
<1>15. AllCovered'
  BY <1>11 DEF AllCovered, Covered
<1>16. SpentTypeOK'
  BY InvHas, KindsAre, SpentMore DEF ChangeCheckout
<1> QED
  BY <1>12, <1>14, <1>15, <1>16, InvParts

\* The parser's process ends.
LEMMA OutageKeeps ==
    ASSUME DiscoveryInv, Outage
    PROVE  DiscoveryInv'
<1>1. /\ StoreTypeOK /\ ModelTypeOK /\ PlatformTypeOK /\ SpentTypeOK /\ ParserHolds /\ FactsInv /\ AllCovered
  BY InvHas
<1>2. /\ processing' = [processing EXCEPT !.epoch = FALSE] /\ available' = FALSE
      /\ deferred' = [a \in Artifacts |-> IF a \in processing.of THEN Later ELSE deferred[a]]
      /\ UNCHANGED <<storeVars, modelVars, records, latest, queue, parsed, closed>>
  BY DEF Outage, storeVars
<1>3. Stopped(processing, processing')
  BY <1>1, <1>2, StoppedIs DEF PlatformTypeOK
<1>4. deferred' \in [Artifacts -> Deferrals]
  BY <1>1, <1>2, DeferralsAre DEF PlatformTypeOK
<1>5. PlatformTypeOK' /\ ParserHolds'
  BY <1>1, <1>2, <1>3, <1>4, ParserStopped DEF PlatformTypeOK, Stopped
<1>6. AllCovered'
  <2>1. ASSUME ~ closed, NEW c \in Artifacts PROVE Covered(c, latest', queue', deferred', parsed', processing')
    <3>1. Covered(c, latest, queue, deferred, parsed, processing)
      BY <1>1, <2>1 DEF AllCovered
    <3>2. deferred'[c] = IF c \in processing.of THEN Later ELSE deferred[c]
      BY <1>2
    <3>3. CASE processing.of = {c}
      BY <3>2, <3>3, DeferralsAre DEF Covered
    <3>4. CASE processing.of # {c}
      BY <3>1, <3>2, <3>4, <1>2, DeferralsAre DEF Covered
    <3> QED
      BY <3>3, <3>4
  <2> QED
    BY <2>1, <1>2 DEF AllCovered, Covered
<1>7. StoreTypeOK' /\ ModelTypeOK' /\ FactsInv'
  BY <1>1, <1>2, StoreSame, FactsSame
<1>8. SpentTypeOK'
  BY <1>1, KindsAre, SpentMore DEF Outage
<1> QED
  BY <1>5, <1>6, <1>7, <1>8, InvParts

\* The parser's process is back.
LEMMA ReturnKeeps ==
    ASSUME DiscoveryInv, Return
    PROVE  DiscoveryInv'
<1>1. /\ StoreTypeOK /\ ModelTypeOK /\ PlatformTypeOK /\ SpentTypeOK /\ ParserHolds /\ FactsInv /\ AllCovered
  BY InvHas
<1>2. /\ ~ closed /\ available' = TRUE /\ Pump(queue, processing, TRUE)
      /\ UNCHANGED <<storeVars, modelVars, records, latest, deferred, parsed, closed, spent>>
  BY DEF Return, storeVars
<1>3. queue \in Queues /\ processing \in Processings /\ latest \in [Artifacts -> Observations]
  BY <1>1 DEF PlatformTypeOK
<1>4. PlatformTypeOK'
  <2>1. queue' \in Queues /\ processing' \in Processings
    BY <1>2, <1>3, Pumps
  <2> QED
    BY <2>1, <1>1, <1>2 DEF PlatformTypeOK
<1>5. ParserHolds'
  BY <1>1, <1>2, <1>3, ParserKept DEF ParserHolds
<1>6. AllCovered'
  <2>1. \A c \in Artifacts : Covered(c, latest, queue', deferred, parsed, processing')
    BY <1>1, <1>2, <1>3, CoveredOn DEF AllCovered
  <2> QED
    BY <2>1, <1>2 DEF AllCovered, Covered
<1>7. StoreTypeOK' /\ ModelTypeOK' /\ FactsInv' /\ SpentTypeOK'
  BY <1>1, <1>2, StoreSame, FactsSame, SpentSame
<1> QED
  BY <1>4, <1>5, <1>6, <1>7, InvParts

\* What waited for capacity is queued again.
LEMMA RetryCapacityKeeps ==
    ASSUME DiscoveryInv, RetryCapacity
    PROVE  DiscoveryInv'
<1> DEFINE again == {a \in Artifacts : deferred[a].why = "model_capacity"}
<1>1. /\ StoreTypeOK /\ ModelTypeOK /\ PlatformTypeOK /\ SpentTypeOK /\ ParserHolds /\ FactsInv /\ AllCovered
  BY InvHas
<1>2. /\ deferred' = [a \in Artifacts |-> IF a \in again THEN Later ELSE deferred[a]]
      /\ parsed' = [a \in Artifacts |-> IF a \in again THEN 0 ELSE parsed[a]]
      /\ UNCHANGED <<storeVars, modelVars, records, latest, queue, processing, available, closed>>
  BY DEF RetryCapacity, storeVars
<1> HIDE DEF again
<1>3. PlatformTypeOK'
  <2>1. deferred' \in [Artifacts -> Deferrals]
    BY <1>1, <1>2, DeferralsAre DEF PlatformTypeOK
  <2>2. parsed' \in [Artifacts -> Nat]
    BY <1>1, <1>2 DEF PlatformTypeOK
  <2> QED
    BY <1>1, <1>2, <2>1, <2>2 DEF PlatformTypeOK
<1>4. ParserHolds'
  <2>1. Idle' = Idle
    BY DEF Idle
  <2> QED
    BY <2>1, <1>1, <1>2 DEF ParserHolds
<1>5. AllCovered'
  <2>1. ASSUME ~ closed, NEW c \in Artifacts PROVE Covered(c, latest', queue', deferred', parsed', processing')
    <3>1. Covered(c, latest, queue, deferred, parsed, processing)
      BY <1>1, <2>1 DEF AllCovered
    <3>2. CASE c \in again
      BY <3>2, <1>2, DeferralsAre DEF Covered
    <3>3. CASE c \notin again
      BY <3>1, <3>3, <1>2 DEF Covered
    <3> QED
      BY <3>2, <3>3
  <2> QED
    BY <2>1, <1>2 DEF AllCovered, Covered
<1>6. StoreTypeOK' /\ ModelTypeOK' /\ FactsInv'
  BY <1>1, <1>2, StoreSame, FactsSame
<1>7. SpentTypeOK'
  BY <1>1, KindsAre, SpentMore DEF RetryCapacity
<1> QED
  BY <1>3, <1>4, <1>5, <1>6, <1>7, InvParts

\* The platform keeps its invariant while it is as it was.
LEMMA PlatformSame ==
    ASSUME PlatformTypeOK, ParserHolds, AllCovered, UNCHANGED platformVars
    PROVE  PlatformTypeOK' /\ ParserHolds' /\ AllCovered'
<1>1. UNCHANGED <<latest, queue, deferred, parsed, processing, available, closed>>
  BY DEF platformVars
<1>2. PlatformTypeOK'
  BY <1>1 DEF PlatformTypeOK
<1>3. ParserHolds'
  <2>1. Idle' = Idle
    BY DEF Idle
  <2> QED
    BY <1>1, <2>1 DEF ParserHolds
<1>4. AllCovered'
  BY <1>1 DEF AllCovered, Covered
<1> QED
  BY <1>2, <1>3, <1>4

\* A checkpoint is made.
LEMMA CreateCheckpointKeeps ==
    ASSUME DiscoveryInv, CreateCheckpoint
    PROVE  DiscoveryInv'
<1>1. /\ StoreTypeOK /\ ModelTypeOK /\ PlatformTypeOK /\ SpentTypeOK /\ ParserHolds /\ FactsInv /\ AllCovered
  BY InvHas
<1>2. PICK a \in Artifacts : Checkpoint(a)
  BY DEF CreateCheckpoint
<1>3. UNCHANGED <<storeVars, platformVars, latest>>
  BY DEF CreateCheckpoint, platformVars
<1>4. ModelTypeOK' /\ FactsInv'
  BY <1>1, <1>2, <1>3, CheckpointFacts
<1>5. StoreTypeOK' /\ PlatformTypeOK' /\ ParserHolds' /\ AllCovered'
  BY <1>1, <1>3, StoreSame, PlatformSame
<1>6. SpentTypeOK'
  BY <1>1, KindsAre, SpentMore DEF CreateCheckpoint
<1> QED
  BY <1>4, <1>5, <1>6, InvParts

\* The platform is closed.
LEMMA CloseKeeps ==
    ASSUME DiscoveryInv, Close
    PROVE  DiscoveryInv'
<1>1. /\ StoreTypeOK /\ ModelTypeOK /\ PlatformTypeOK /\ SpentTypeOK /\ ParserHolds /\ FactsInv
  BY InvHas
<1>2. /\ closed' = TRUE /\ queue' = <<>> /\ deferred' = [a \in Artifacts |-> NotDeferred]
      /\ processing' = [processing EXCEPT !.epoch = FALSE]
      /\ UNCHANGED <<storeVars, modelVars, records, latest, parsed, available, spent>>
  BY DEF Close, storeVars
<1>3. Stopped(processing, processing')
  BY <1>1, <1>2, StoppedIs DEF PlatformTypeOK
<1>4. deferred' \in [Artifacts -> Deferrals] /\ queue' \in Queues
  BY <1>2, DeferralsAre, EmptyQueue
<1>5. PlatformTypeOK' /\ ParserHolds'
  BY <1>1, <1>2, <1>3, <1>4, ParserStopped DEF PlatformTypeOK, Stopped
<1>6. AllCovered'
  BY <1>2 DEF AllCovered
<1>7. StoreTypeOK' /\ ModelTypeOK' /\ FactsInv' /\ SpentTypeOK'
  BY <1>1, <1>2, StoreSame, FactsSame, SpentSame
<1> QED
  BY <1>5, <1>6, <1>7, InvParts

\* A file changes on disk.
LEMMA EditKeeps ==
    ASSUME DiscoveryInv, Edit
    PROVE  DiscoveryInv'
<1>1. /\ StoreTypeOK /\ ModelTypeOK /\ PlatformTypeOK /\ SpentTypeOK /\ ParserHolds /\ FactsInv /\ AllCovered
  BY InvHas
<1>2. PICK a \in Artifacts : EditFile(a)
  BY DEF Edit
<1>3. UNCHANGED <<modelVars, platformVars, records, lineageId, latest>>
  BY <1>2 DEF Edit, EditFile, platformVars
<1>4. StoreTypeOK'
  <2>1. PICK status \in Statuses : disk' = [disk EXCEPT ![a] = [status |-> status, stamp |-> @.stamp + 1]]
    BY <1>2 DEF EditFile
  <2>2. disk[a].stamp < MaxStamp /\ disk[a].stamp \in 0..MaxStamp /\ MaxStamp \in Nat
    BY <1>1, <1>2, StoreAssumption DEF EditFile, StoreTypeOK
  <2>3. disk[a].stamp + 1 \in 0..MaxStamp
    BY <2>2
  <2>4. disk' \in [Artifacts -> [status : Statuses, stamp : 0..MaxStamp]]
    BY <1>1, <2>1, <2>3 DEF StoreTypeOK
  <2> QED
    BY <2>4, <1>1, <1>3 DEF StoreTypeOK
<1>5. PlatformTypeOK' /\ ParserHolds' /\ AllCovered' /\ ModelTypeOK' /\ FactsInv'
  BY <1>1, <1>3, PlatformSame, FactsSame
<1>6. SpentTypeOK'
  BY <1>1, KindsAre, SpentMore DEF Edit
<1> QED
  BY <1>4, <1>5, <1>6, InvParts

\* The end of a parse: what it was about is put off if it is still the version known.
LEMMA DoneKeeps ==
    ASSUME DiscoveryInv, NEW putOff, Done(putOff), Current(processing, latest) => putOff = processing.of,
           SpentTypeOK', UNCHANGED <<storeVars, modelVars, latest, parsed, available, closed>>
    PROVE  DiscoveryInv'
<1>1. /\ StoreTypeOK /\ ModelTypeOK /\ PlatformTypeOK /\ ParserHolds /\ FactsInv /\ AllCovered
  BY InvHas
<1>2. /\ deferred' = [a \in Artifacts |-> IF a \in putOff THEN Later ELSE deferred[a]]
      /\ Pump(queue, Idle, available /\ ~ closed)
  BY DEF Done
<1>3. /\ queue \in Queues /\ latest \in [Artifacts -> Observations] /\ Idle \in Processings
  BY <1>1, IdleIs DEF PlatformTypeOK
<1>4. PlatformTypeOK'
  <2>1. queue' \in Queues /\ processing' \in Processings
    BY <1>2, <1>3, Pumps
  <2>2. deferred' \in [Artifacts -> Deferrals]
    BY <1>1, <1>2, DeferralsAre DEF PlatformTypeOK
  <2> QED
    BY <2>1, <2>2, <1>1 DEF PlatformTypeOK
<1>5. ParserHolds'
  <2>1. ~ Idle.epoch
    BY DEF Idle
  <2> QED
    BY <2>1, <1>2, <1>3, ParserKept
<1>6. AllCovered'
  <2>1. ASSUME ~ closed, NEW c \in Artifacts PROVE Covered(c, latest', queue', deferred', parsed', processing')
    <3>1. Covered(c, latest, queue, deferred, parsed, processing)
      BY <1>1, <2>1 DEF AllCovered
    <3>2. PICK after : after = deferred'
      OBVIOUS
    <3>3. after[c] = IF c \in putOff THEN Later ELSE deferred[c]
      BY <1>2, <3>2
    <3>4. Covered(c, latest, queue, after, parsed, Idle)
      BY <1>1, <3>1, <3>3, PutOffCovers
    <3>5. Covered(c, latest, queue', after, parsed, processing')
      BY <1>2, <1>3, <3>4, CoveredOn
    <3> QED
      BY <3>2, <3>5
  <2> QED
    BY <2>1 DEF AllCovered, Covered
<1>7. StoreTypeOK' /\ ModelTypeOK' /\ FactsInv'
  <2>1. UNCHANGED records
    BY DEF storeVars
  <2> QED
    BY <1>1, <2>1, StoreSame, FactsSame
<1> QED
  BY <1>4, <1>5, <1>6, <1>7, InvParts

\* A parse of an earlier version ends.
LEMMA SupersededKeeps ==
    ASSUME DiscoveryInv, Superseded
    PROVE  DiscoveryInv'
<1>1. SpentTypeOK'
  BY InvHas, SpentSame DEF Superseded
<1> QED
  BY <1>1, DoneKeeps DEF Superseded

\* A parse fails.
LEMMA ParseFailsKeeps ==
    ASSUME DiscoveryInv, ParseFails
    PROVE  DiscoveryInv'
<1>1. SpentTypeOK'
  BY InvHas, KindsAre, SpentMore DEF ParseFails
<1>2. Current(processing, latest) => IfCurrent = processing.of
  BY DEF IfCurrent
<1> QED
  BY <1>1, <1>2, DoneKeeps DEF ParseFails

\* The reread finds another version.
LEMMA RevalidateRefusedKeeps ==
    ASSUME DiscoveryInv, RevalidateRefused
    PROVE  DiscoveryInv'
<1>1. SpentTypeOK'
  BY InvHas, SpentSame DEF RevalidateRefused
<1>2. ~ Current(processing, latest)
  BY DEF RevalidateRefused, Current
<1> QED
  BY <1>1, <1>2, DoneKeeps DEF RevalidateRefused

\* The parser goes to its next stage with the same file.
LEMMA StageIs ==
    ASSUME NEW p \in Processings, NEW stage \in Stages
    PROVE  /\ [p EXCEPT !.stage = stage] \in Processings
           /\ [p EXCEPT !.stage = stage].of = p.of /\ [p EXCEPT !.stage = stage].gen = p.gen
           /\ [p EXCEPT !.stage = stage].epoch = p.epoch /\ [p EXCEPT !.stage = stage].stage = stage
<1> DEFINE r == [p EXCEPT !.stage = stage]
<1>1. r = [of |-> p.of, gen |-> p.gen, stage |-> stage, epoch |-> p.epoch]
  BY DEF Processings
<1>2. r \in Processings
  BY <1>1 DEF Processings
<1>3. r.of = p.of /\ r.gen = p.gen /\ r.epoch = p.epoch /\ r.stage = stage
  BY <1>1
<1> QED
  BY <1>2, <1>3

\* The parser that goes on with the file it works on.
LEMMA GoesOn ==
    ASSUME PlatformTypeOK, ParserHolds, NEW stage \in Stages, stage # "idle", processing.stage # "idle",
           processing' = [processing EXCEPT !.stage = stage], UNCHANGED <<available, closed>>
    PROVE  /\ processing' \in Processings /\ ParserHolds'
           /\ \A c, known, q, putOff, done :
                Covered(c, known, q, putOff, done, processing) => Covered(c, known, q, putOff, done, processing')
<1>1. /\ processing' \in Processings /\ processing'.of = processing.of /\ processing'.gen = processing.gen
      /\ processing'.epoch = processing.epoch /\ processing'.stage = stage
  BY StageIs DEF PlatformTypeOK
<1>2. processing'.epoch <=> processing.epoch
  BY <1>1, Zenon
<1>3. Idle.stage = "idle"
  BY DEF Idle
<1>4. \E a \in Artifacts : processing'.of = {a}
  BY <1>1, <1>3 DEF ParserHolds
<1>5. ParserHolds'
  BY <1>1, <1>2, <1>4 DEF ParserHolds
<1>6. \A c, known, q, putOff, done :
        Covered(c, known, q, putOff, done, processing) => Covered(c, known, q, putOff, done, processing')
  BY <1>1, <1>2 DEF Covered
<1> QED
  BY <1>1, <1>5, <1>6

\* The parser has extracted the declarations.
LEMMA ExtractedKeeps ==
    ASSUME DiscoveryInv, Extracted
    PROVE  DiscoveryInv'
<1>1. /\ StoreTypeOK /\ ModelTypeOK /\ PlatformTypeOK /\ SpentTypeOK /\ ParserHolds /\ FactsInv /\ AllCovered
  BY InvHas
<1>2. /\ processing' = [processing EXCEPT !.stage = "revalidate"] /\ processing.stage = "extract"
      /\ UNCHANGED <<storeVars, modelVars, records, latest, queue, deferred, parsed, available, closed, spent>>
  BY DEF Extracted, storeVars
<1>3. "revalidate" \in Stages
  BY DEF Stages
<1>4. /\ processing' \in Processings /\ ParserHolds'
      /\ \A c, known, q, putOff, done :
            Covered(c, known, q, putOff, done, processing) => Covered(c, known, q, putOff, done, processing')
  BY <1>1, <1>2, <1>3, GoesOn
<1>5. PlatformTypeOK'
  BY <1>1, <1>2, <1>4 DEF PlatformTypeOK
<1>6. AllCovered'
  <2>1. ~ closed => \A c \in Artifacts : Covered(c, latest, queue, deferred, parsed, processing')
    BY <1>1, <1>4 DEF AllCovered
  <2> QED
    BY <2>1, <1>2 DEF AllCovered, Covered
<1>7. StoreTypeOK' /\ ModelTypeOK' /\ FactsInv' /\ SpentTypeOK'
  BY <1>1, <1>2, StoreSame, FactsSame, SpentSame
<1> QED
  BY <1>4, <1>5, <1>6, <1>7, InvParts

WithDeferred(w, d) == [w EXCEPT !.deferred = d]

\* Only what is put off is another.
LEMMA WithDeferredIs ==
    ASSUME NEW w \in Works, NEW d
    PROVE  /\ WithDeferred(w, d).latest = w.latest /\ WithDeferred(w, d).deferred = d
           /\ WithDeferred(w, d).parsed = w.parsed
BY WorkFields DEF WithDeferred

\* The reread before acceptance observes the file again.
LEMMA RevalidateKeeps ==
    ASSUME DiscoveryInv, Revalidate
    PROVE  DiscoveryInv'
<1>1. /\ StoreTypeOK /\ ModelTypeOK /\ PlatformTypeOK /\ SpentTypeOK /\ ParserHolds /\ FactsInv
  BY InvHas
<1>2. /\ processing.stage = "revalidate" /\ ~ closed /\ available /\ CaptureAll(processing.of)
      /\ UNCHANGED <<disk, lineageId, checkpoints, available, closed, spent>>
  BY DEF Revalidate
<1>3. PICK batch : batch = Captured(processing.of)
  OBVIOUS
<1>4. PICK w : w = ObserveAll(Work, batch, FALSE)
  OBVIOUS
<1> DEFINE same == \A a \in processing.of : batch[a].gen = processing.gen /\ batch[a].status = "present"
           put == IF ~ same /\ Current(processing, w.latest) THEN processing.of ELSE {}
           after == [a \in Artifacts |-> IF a \in put THEN Later ELSE w.deferred[a]]
<1>5. /\ InvalidateArtifacts(batch)
      /\ Becomes(WithDeferred(w, after))
      /\ IF same /\ Current(processing, w.latest)
         THEN processing' = [processing EXCEPT !.stage = "accept"] /\ queue' = w.queue
         ELSE Pump(w.queue, Idle, TRUE)
  BY <1>3, <1>4 DEF Revalidate, WithDeferred
<1>6. processing.of \in SUBSET Artifacts /\ processing \in Processings
  BY <1>1 DEF PlatformTypeOK, Processings
<1>7. w \in Works
  <2>1. PICK no \in BOOLEAN : no = FALSE
    OBVIOUS
  <2>2. IsBatch(Work, batch) /\ Work \in Works /\ w = ObserveAll(Work, batch, no)
    <3>1. DOMAIN batch = processing.of /\ \A a \in processing.of : batch[a] = Capture(a)
      BY <1>3 DEF Captured
    <3>2. \A a \in Artifacts : latest[a].gen = records[a].gen
      BY <1>1 DEF FactsInv, Registered
    <3>3. \A a \in processing.of :
            batch[a].gen \in Nat /\ batch[a].status \in Statuses /\ latest[a].gen <= batch[a].gen
      BY <1>1, <1>6, <3>1, <3>2, VersionIs
    <3>4. Work \in Works /\ Work.latest = latest
      BY <1>1, WorkIs
    <3>5. IsBatch(Work, batch)
      BY <1>6, <3>1, <3>3, <3>4 DEF IsBatch
    <3>6. w = ObserveAll(Work, batch, no)
      BY <1>4, <2>1
    <3> QED
      BY <3>4, <3>5, <3>6
  <2> QED
    BY <2>2, BatchIs
<1> HIDE DEF put, after, same
<1>8. latest' = w.latest /\ deferred' = after /\ parsed' = w.parsed
  BY <1>5, <1>7, WithDeferredIs DEF Becomes
<1>9. /\ StoreTypeOK' /\ ModelTypeOK' /\ FactsInv'
      /\ w.latest \in [Artifacts -> Observations] /\ w.queue \in Queues
      /\ w.deferred \in [Artifacts -> Deferrals] /\ w.parsed \in [Artifacts -> Nat]
      /\ \A c \in Artifacts : Covered(c, w.latest, w.queue, w.deferred, w.parsed, processing)
  <2>1. PICK no \in BOOLEAN : no = FALSE
    OBVIOUS
  <2>2. w = ObserveAll(Work, batch, no)
    BY <1>4, <2>1
  <2> QED
    BY <2>2, <1>2, <1>3, <1>5, <1>6, <1>8, ObservedBatch
<1>10. after \in [Artifacts -> Deferrals]
  BY <1>9, DeferralsAre DEF after
<1>11. \A c \in Artifacts : after[c] = IF c \in put THEN Later ELSE w.deferred[c]
  BY DEF after
<1>12. SpentTypeOK'
  BY <1>1, <1>2, SpentSame
<1>13. CASE same /\ Current(processing, w.latest)
  <2>1. processing' = [processing EXCEPT !.stage = "accept"] /\ queue' = w.queue
    BY <1>5, <1>13
  <2>2. "accept" \in Stages
    BY DEF Stages
  <2>3. /\ processing' \in Processings /\ ParserHolds'
        /\ \A c, known, q, putOff, done :
              Covered(c, known, q, putOff, done, processing) => Covered(c, known, q, putOff, done, processing')
    BY <1>1, <1>2, <2>1, <2>2, GoesOn
  <2>4. PlatformTypeOK'
    BY <1>1, <1>2, <1>8, <1>9, <1>10, <2>1, <2>3 DEF PlatformTypeOK
  <2>5. \A c \in Artifacts : after[c] = w.deferred[c]
    BY <1>11, <1>13 DEF put
  <2>6. \A c \in Artifacts : Covered(c, w.latest, w.queue, after, w.parsed, processing')
    <3> TAKE c \in Artifacts
    <3>1. Covered(c, w.latest, w.queue, w.deferred, w.parsed, processing')
      BY <1>9, <2>3
    <3> QED
      BY <3>1, <2>5 DEF Covered
  <2>7. AllCovered'
    BY <1>8, <2>1, <2>6 DEF AllCovered, Covered
  <2> QED
    BY <1>9, <1>12, <2>3, <2>4, <2>7, InvParts
<1>14. CASE ~ (same /\ Current(processing, w.latest))
  <2>1. Pump(w.queue, Idle, TRUE) /\ Idle \in Processings
    BY <1>5, <1>14, IdleIs
  <2>2. PlatformTypeOK'
    <3>1. queue' \in Queues /\ processing' \in Processings
      BY <1>9, <2>1, Pumps
    <3> QED
      BY <3>1, <1>1, <1>2, <1>8, <1>9, <1>10 DEF PlatformTypeOK
  <2>3. ParserHolds'
    <3>1. ~ Idle.epoch
      BY DEF Idle
    <3> QED
      BY <3>1, <2>1, <1>2, <1>9, ParserKept
  <2>4. Current(processing, w.latest) => put = processing.of
    BY <1>14 DEF put
  <2>5. \A c \in Artifacts : Covered(c, w.latest, queue', after, w.parsed, processing')
    <3> TAKE c \in Artifacts
    <3>1. Covered(c, w.latest, w.queue, after, w.parsed, Idle)
      BY <1>1, <1>9, <1>11, <2>4, PutOffCovers
    <3> QED
      BY <3>1, <1>9, <2>1, CoveredOn
  <2>6. AllCovered'
    BY <1>8, <2>5 DEF AllCovered, Covered
  <2> QED
    BY <1>9, <1>12, <2>2, <2>3, <2>6, InvParts
<1> QED
  BY <1>13, <1>14

\* A parse is accepted in whole, or in part with its file put off for capacity.
LEMMA AcceptKeeps ==
    ASSUME DiscoveryInv, processing.stage = "accept", Current(processing, latest),
           UNCHANGED <<storeVars, latest, available, closed>>, Pump(queue, Idle, TRUE),
           NEW a \in processing.of, NEW found \in SUBSET artifacts[a].hash, NEW complete \in BOOLEAN,
           NEW usable \in BOOLEAN, complete => found = artifacts[a].hash, Accept(a, found, complete, usable)
    PROVE  DiscoveryInv'
<1>1. /\ StoreTypeOK /\ ModelTypeOK /\ PlatformTypeOK /\ SpentTypeOK /\ ParserHolds /\ FactsInv /\ AllCovered
  BY InvHas
<1>2. /\ latest \in [Artifacts -> Observations] /\ queue \in Queues /\ deferred \in [Artifacts -> Deferrals]
      /\ parsed \in [Artifacts -> Nat] /\ processing \in Processings /\ Idle \in Processings
  BY <1>1, IdleIs DEF PlatformTypeOK
<1>3. processing.of = {a} /\ a \in Artifacts /\ processing.gen \in Nat
  <2>1. processing # Idle
    BY DEF Idle
  <2> QED
    BY <2>1, <1>1, <1>2 DEF ParserHolds, Processings
<1>4. ~ closed /\ available /\ latest[a].status = "present" /\ latest[a].gen = processing.gen
  BY <1>3 DEF Current
<1>5. artifacts[a].status = "present"
  BY <1>1, <1>3, <1>4 DEF FactsInv, Registered
<1>6. PICK evicted \in Evictions(a) :
         \E admitted \in Admissions(Wanted(a, found) \ Kept(a, evicted), Kept(a, evicted)) :
            /\ deferred' = [deferred EXCEPT ![a] =
                    IF ~ usable THEN Later
                    ELSE IF Displaces(a, found, evicted, admitted) THEN NoRoom(processing.gen)
                    ELSE NotDeferred]
            /\ ObserveStructure(a, found, complete, evicted, admitted)
  BY DEF Accept
<1>7. PICK admitted \in Admissions(Wanted(a, found) \ Kept(a, evicted), Kept(a, evicted)) :
            /\ deferred' = [deferred EXCEPT ![a] =
                    IF ~ usable THEN Later
                    ELSE IF Displaces(a, found, evicted, admitted) THEN NoRoom(processing.gen)
                    ELSE NotDeferred]
            /\ ObserveStructure(a, found, complete, evicted, admitted)
  BY <1>6
<1>8. /\ parsed' = IF usable THEN [parsed EXCEPT ![a] = processing.gen] ELSE parsed
      /\ IF complete THEN spent' = spent ELSE Spend("failure")
  BY DEF Accept
<1>9. ModelTypeOK' /\ FactsInv'
  <2>1. UNCHANGED <<records, latest>>
    BY DEF storeVars
  <2> QED
    BY <1>1, <1>3, <1>5, <1>7, <2>1, StructureFacts
<1>10. /\ deferred' \in [Artifacts -> Deferrals]
       /\ ~ usable => deferred'[a] = Later
       /\ \A c \in Artifacts \ {a} : deferred'[c] = deferred[c]
  <2> DEFINE new == IF ~ usable THEN Later
                    ELSE IF Displaces(a, found, evicted, admitted) THEN NoRoom(processing.gen)
                    ELSE NotDeferred
  <2>1. new \in Deferrals /\ (~ usable => new = Later)
    BY <1>3, DeferralsAre DEF NoRoom, Deferrals
  <2>2. deferred' = [deferred EXCEPT ![a] = new]
    BY <1>7
  <2> HIDE DEF new
  <2> QED
    BY <2>1, <2>2, <1>2, <1>3
<1>11. /\ parsed' \in [Artifacts -> Nat]
       /\ usable => parsed'[a] = processing.gen
       /\ \A c \in Artifacts \ {a} : parsed'[c] = parsed[c]
  BY <1>2, <1>3, <1>8
<1>12. PlatformTypeOK'
  <2>1. queue' \in Queues /\ processing' \in Processings
    BY <1>2, Pumps
  <2> QED
    BY <2>1, <1>1, <1>10, <1>11 DEF PlatformTypeOK
<1>13. ParserHolds'
  <2>1. ~ Idle.epoch
    BY DEF Idle
  <2> QED
    BY <2>1, <1>2, <1>4, ParserKept
<1>14. AllCovered'
  <2>1. PICK after, done : after = deferred' /\ done = parsed'
    OBVIOUS
  <2>2. ASSUME NEW c \in Artifacts PROVE Covered(c, latest, queue, after, done, Idle)
    <3>1. CASE c = a
      BY <3>1, <2>1, <1>4, <1>10, <1>11, DeferralsAre DEF Covered
    <3>2. CASE c # a
      <4>1. Covered(c, latest, queue, deferred, parsed, processing) /\ processing.of # {c}
        BY <3>2, <1>1, <1>3, <1>4 DEF AllCovered
      <4> QED
        BY <3>2, <4>1, <2>1, <1>10, <1>11 DEF Covered
    <3> QED
      BY <3>1, <3>2
  <2>3. \A c \in Artifacts : Covered(c, latest, queue', after, done, processing')
    BY <2>2, <1>2, CoveredOn
  <2> QED
    BY <2>1, <2>3 DEF AllCovered, Covered
<1>15. SpentTypeOK'
  BY <1>1, <1>8, KindsAre, SpentSame, SpentMore
<1> QED
  BY <1>1, <1>9, <1>12, <1>13, <1>14, <1>15, StoreSame, InvParts

\* The parse of the version known is offered to the model.
LEMMA AcceptStructureKeeps ==
    ASSUME DiscoveryInv, AcceptStructure
    PROVE  DiscoveryInv'
<1>1. /\ processing.stage = "accept" /\ Current(processing, latest)
      /\ UNCHANGED <<storeVars, latest, available, closed>> /\ Pump(queue, Idle, TRUE)
  BY DEF AcceptStructure
<1>2. PICK a \in processing.of :
         \/ Accept(a, artifacts[a].hash, TRUE, TRUE)
         \/ \E found \in SUBSET artifacts[a].hash, usable \in BOOLEAN : Accept(a, found, FALSE, usable)
  BY DEF AcceptStructure
<1>3. PICK yes \in BOOLEAN : yes = TRUE
  OBVIOUS
<1>4. PICK no \in BOOLEAN : no = FALSE
  OBVIOUS
<1>5. CASE Accept(a, artifacts[a].hash, TRUE, TRUE)
  <2>1. Accept(a, artifacts[a].hash, yes, yes)
    BY <1>3, <1>5
  <2>2. artifacts[a].hash \in SUBSET artifacts[a].hash
    OBVIOUS
  <2> QED
    BY <2>1, <2>2, <1>1, AcceptKeeps
<1>6. CASE \E found \in SUBSET artifacts[a].hash, usable \in BOOLEAN : Accept(a, found, FALSE, usable)
  <2>1. PICK found \in SUBSET artifacts[a].hash, usable \in BOOLEAN : Accept(a, found, FALSE, usable)
    BY <1>6
  <2>2. Accept(a, found, no, usable) /\ ~ no
    BY <1>4, <2>1
  <2> QED
    BY <2>2, <1>1, AcceptKeeps
<1> QED
  BY <1>2, <1>5, <1>6

-----------------------------------------------------------------------------
(* The theorems. *)

\* Init establishes the invariant.
LEMMA DiscoveryStarts ==
    ASSUME Init
    PROVE  DiscoveryInv
<1>0. /\ FirstLineage \in Lineages /\ Bound \in [Kinds -> Nat] /\ MaxStamp \in Nat
  BY PlatformAssumption, StoreAssumption
<1>1. StoreTypeOK
  BY <1>0 DEF Init, StoreInit, StoreTypeOK, Statuses, Versions, Unseen, AnyLineage
<1>2. ModelTypeOK
  <2>1. NoRecord \in Records
    BY DEF NoRecord, Records, NoCertificate, Certificates, Statuses, Hashes
  <2> QED
    BY <2>1 DEF Init, ModelInit, ModelTypeOK, Validities
<1>3. PlatformTypeOK
  BY EmptyQueue, IdleIs, DeferralsAre DEF Init, PlatformTypeOK, Observations, Statuses
<1>4. SpentTypeOK
  BY <1>0 DEF Init, SpentTypeOK
<1>5. ParserHolds
  BY DEF Init, ParserHolds, Idle
<1>6. FactsInv
  <2>1. \A a \in Artifacts : /\ artifacts[a].gen = 0 /\ artifacts[a].status = "missing" /\ artifacts[a].hash = {}
                             /\ ~ artifacts[a].fresh /\ ~ artifacts[a].cert.complete
    BY DEF Init, ModelInit, NoRecord, NoCertificate
  <2>2. Registered
    BY <2>1 DEF Registered, Init, StoreInit, Unseen, HashOf
  <2>3. FactsSupported
    BY <2>1 DEF FactsSupported, Init, ModelInit
  <2>4. CertificatesHold
    BY <2>1 DEF CertificatesHold, Init, ModelInit
  <2>5. FactsFollowSource
    BY IdsAre DEF FactsFollowSource, Init, ModelInit
  <2> QED
    BY <2>2, <2>3, <2>4, <2>5 DEF FactsInv
<1>7. AllCovered
  BY DEF Init, AllCovered, Covered
<1> QED
  BY <1>1, <1>2, <1>3, <1>4, <1>5, <1>6, <1>7, TypeParts DEF DiscoveryInv

\* Every step keeps the invariant.
LEMMA DiscoveryGoesOn ==
    ASSUME DiscoveryInv, [Next]_vars
    PROVE  DiscoveryInv'
<1>1. CASE Parser
  BY <1>1, SupersededKeeps, ExtractedKeeps, RevalidateRefusedKeeps, RevalidateKeeps, AcceptStructureKeeps
     DEF Parser
<1>2. CASE Reconcile
  BY <1>2, ReconcileKeeps
<1>3. CASE Environment
  <2>1. ASSUME NEW files \in SUBSET Artifacts \ {{}}, NEW priority \in BOOLEAN, Ingest(files, priority)
        PROVE  DiscoveryInv'
    BY <2>1, IngestKeeps
  <2>2. ASSUME NEW id \in Lineages, ChangeCheckout(id) PROVE DiscoveryInv'
    BY <2>2, ChangeCheckoutKeeps
  <2> QED
    BY <1>3, <2>1, <2>2, OutageKeeps, ReturnKeeps, RetryCapacityKeeps, CreateCheckpointKeeps, CloseKeeps,
       EditKeeps, ParseFailsKeeps DEF Environment
<1>4. CASE UNCHANGED vars
  <2>1. UNCHANGED <<storeVars, modelVars, platformVars, spent, records, latest>>
    BY <1>4 DEF vars, storeVars, platformVars
  <2>2. StoreTypeOK' /\ ModelTypeOK' /\ FactsInv' /\ SpentTypeOK'
    BY <2>1, InvHas, StoreSame, FactsSame, SpentSame
  <2>3. PlatformTypeOK' /\ ParserHolds' /\ AllCovered'
    BY <2>1, InvHas, PlatformSame
  <2> QED
    BY <2>2, <2>3, InvParts
<1> QED
  BY <1>1, <1>2, <1>3, <1>4 DEF Next

(***************************************************************************)
(* The invariant of discovery: what the platform and the model know is what *)
(* is registered, the parser works on one file at most and never after the  *)
(* coordinator has closed or lost the checkout, facts have the support of   *)
(* the version known, certificates are kept, and every file has a place.    *)
(***************************************************************************)
THEOREM DiscoveryCorrect == Spec => []DiscoveryInv
<1>1. Init => DiscoveryInv
  BY DiscoveryStarts
<1>2. DiscoveryInv /\ [Next]_vars => DiscoveryInv'
  BY DiscoveryGoesOn
<1> QED
  BY <1>1, <1>2, PTL DEF Spec

(***************************************************************************)
(* Whatever the limit of the queue, the number of files and the order of    *)
(* observations, a file that was observed is parsed, waits, is being parsed *)
(* or is put off (observeArtifacts of runtime/platform.mjs and all that     *)
(* takes a file from one of these places).                                  *)
(***************************************************************************)
THEOREM NoWorkIsForgotten == Spec => []NoWorkForgotten
<1>1. DiscoveryInv => NoWorkForgotten
  <2> SUFFICES ASSUME DiscoveryInv, NEW a \in Artifacts, ~ closed, latest[a].status = "present"
               PROVE  \/ parsed[a] = latest[a].gen
                      \/ \E i \in DOMAIN queue : queue[i].of = a /\ queue[i].gen = latest[a].gen
                      \/ processing.of = {a} /\ Current(processing, latest)
                      \/ deferred[a].why # "none"
    BY DEF NoWorkForgotten
  <2>1. Covered(a, latest, queue, deferred, parsed, processing) /\ ParserHolds
    BY InvHas DEF AllCovered
  <2>2. CASE parsed[a] = latest[a].gen \/ deferred[a].why # "none"
    BY <2>2
  <2>3. CASE \E e \in Entries(queue) : e.of = a /\ e.gen = latest[a].gen
    BY <2>3 DEF Entries
  <2>4. CASE processing.of = {a} /\ processing.epoch /\ processing.gen = latest[a].gen
    BY <2>1, <2>4, CurrentCovers DEF ParserHolds
  <2> QED
    BY <2>1, <2>2, <2>3, <2>4 DEF Covered
<1> QED
  BY <1>1, DiscoveryCorrect, PTL

(***************************************************************************)
(* Whatever the files declare and however little room there is, the model   *)
(* says of a file only what the version it knows says, and a comparison     *)
(* calls nothing created that the checkpoint knew of                        *)
(* (runtime/model/project-model.mjs, runtime/model/changes.mjs).            *)
(***************************************************************************)
THEOREM FactsAreHeld == Spec => []FactsHold
<1>1. DiscoveryInv => FactsHold
  BY InvHas, NothingInvented DEF DiscoveryInv, FactsInv, FactsHold
<1> QED
  BY <1>1, DiscoveryCorrect, PTL
====
