---- MODULE DecisionProofs ----
(***************************************************************************)
(* The pool of the decision service keeps its bounds and forgets no job,    *)
(* settles a job once and in time, and its shared evaluations give no       *)
(* answer from before an invalidation, for any number of jobs, requests,    *)
(* slots and places.                                                        *)
(***************************************************************************)
EXTENDS EvaluationCache, FiniteSetTheorems, SequenceTheorems, TLAPS

(***************************************************************************)
(* The inductive invariant of the scheduler.                                *)
(***************************************************************************)

Stages == {"new", "queued", "done"} \union Awaiting

ServiceTypes ==
    /\ at \in [Jobs -> Stages] /\ result \in [Jobs -> Statuses]
    /\ queue \subseteq Jobs /\ late \subseteq Jobs /\ active \in Nat
    /\ until \in Nat /\ past \in Nat /\ past <= until /\ wake \in Nat
    /\ closed \in BOOLEAN

\* A job nobody has asked for has no status, nor has one that is queued; a deadline is one of
\* a job that is not settled.
JobsHold ==
    /\ \A j \in Jobs : at[j] \in {"new", "queued"} => result[j] = "none"
    /\ \A j \in late : at[j] # "new" /\ result[j] = "none"

\* The slots in use are those of the jobs at work, and the queue is what is queued.
PoolHolds ==
    /\ IsFiniteSet(Running) /\ active = Cardinality(Running) /\ active <= Concurrency
    /\ IsFiniteSet(queue) /\ Cardinality(queue) <= MaxQueue
    /\ queue = {j \in Jobs : at[j] = "queued"}
    /\ queue # {} => ~closed /\ (active = Concurrency \/ wake # 0)

ServiceInv == ServiceTypes /\ JobsHold /\ PoolHolds

(***************************************************************************)
(* The inductive invariant of the shared evaluations.                       *)
(***************************************************************************)

Shared == Evaluations \ Direct

CacheTypes ==
    /\ entry \in [Requests -> Evaluations \union {Nobody}] /\ reply \in [Requests -> Replies]
    /\ since \in [Requests -> Nat] /\ askedIn \in [Evaluations -> Nat] /\ epoch \in Nat
    /\ shared \in [Keys -> Evaluations \union {Nobody}]
    /\ finished \subseteq Evaluations

\* Who waits, waits for an evaluation of its own epoch or a later one.
WaitersHold ==
    /\ \A r \in Requests : entry[r] # Nobody =>
        /\ entry[r] \in Shared /\ at[entry[r]] # "new"
        /\ since[r] <= askedIn[entry[r]] /\ since[r] <= epoch
    /\ \A e \in Evaluations : askedIn[e] <= epoch

\* What can be joined, or found in the cache, was asked in this epoch; an abandoned
\* evaluation cannot be joined.
EpochHolds ==
    /\ \A k \in Keys : shared[k] # Nobody =>
        /\ shared[k] \in Shared /\ at[shared[k]] # "new"
        /\ askedIn[shared[k]] = epoch /\ result[shared[k]] # "cancelled"
    /\ cache \in Seq([key : Keys, askedIn : {epoch}])
    /\ \A e \in finished : at[e] # "new" /\ result[e] # "none"

CacheInv == CacheTypes /\ WaitersHold /\ EpochHolds /\ EvaluationsHold

DecisionInv == ServiceInv /\ CacheInv

(***************************************************************************)
(* pump, over whatever its caller leaves it.                                *)
(***************************************************************************)

\* Taking some jobs of a finite queue into slots moves as many of them.
LEMMA Moving ==
  ASSUME NEW Q, NEW R, NEW S \in SUBSET Q, IsFiniteSet(Q), IsFiniteSet(R), Q \intersect R = {}
  PROVE  /\ IsFiniteSet(S) /\ IsFiniteSet(Q \ S) /\ IsFiniteSet(R \union S)
         /\ Cardinality(S) \in Nat /\ Cardinality(Q) \in Nat /\ Cardinality(R) \in Nat
         /\ Cardinality(Q \ S) = Cardinality(Q) - Cardinality(S)
         /\ Cardinality(R \union S) = Cardinality(R) + Cardinality(S)
         /\ Cardinality(S) = 0 => Q \ S = Q
         /\ Cardinality(S) = Cardinality(Q) => Q \ S = {}
<1>1. IsFiniteSet(S) /\ IsFiniteSet(Q \ S) /\ IsFiniteSet(R \union S)
  BY FS_Subset, FS_Difference, FS_Union
<1>2. Cardinality(S) \in Nat /\ Cardinality(Q) \in Nat /\ Cardinality(R) \in Nat
  BY <1>1, FS_CardinalityType
<1>3. Cardinality(Q \ S) = Cardinality(Q) - Cardinality(Q \intersect S) /\ Q \intersect S = S
  BY <1>1, FS_Difference
<1>4. Cardinality(R \union S) = Cardinality(R) + Cardinality(S) - Cardinality(R \intersect S)
  BY <1>1, FS_Union
<1>5. Cardinality(R \intersect S) = 0
  <2>1. R \intersect S = {}
    OBVIOUS
  <2> QED
    BY <2>1, FS_EmptySet
<1>6. Cardinality(S) = 0 => S = {}
  BY <1>1, FS_EmptySet
<1>7. Cardinality(Q \ S) = 0 => Q \ S = {}
  BY <1>1, FS_EmptySet
<1>8. Cardinality(Q \ S) = Cardinality(Q) - Cardinality(S)
  BY <1>3
<1>9. Cardinality(R \union S) = Cardinality(R) + Cardinality(S)
  BY <1>2, <1>4, <1>5
<1>10. Cardinality(S) = 0 => Q \ S = Q
  BY <1>6
<1>11. Cardinality(S) = Cardinality(Q) => Q \ S = {}
  BY <1>2, <1>7, <1>8
<1> QED
  BY <1>1, <1>2, <1>8, <1>9, <1>10, <1>11

LEMMA PumpEffect ==
  ASSUME NEW q, NEW used, NEW at1, NEW result1, Pump(q, used, at1, result1),
         at1 \in [Jobs -> Stages], result1 \in [Jobs -> Statuses], q \subseteq Jobs
  PROVE  \E starts \in SUBSET q :
           /\ \/ starts = {} /\ ((past < until' /\ q # {}) \/ closed')
              \/ /\ ~ (past < until' /\ q # {}) /\ ~ closed'
                 /\ Cardinality(starts) = IF Concurrency - used < Cardinality(q)
                                          THEN Concurrency - used ELSE Cardinality(q)
           /\ queue' = q \ starts /\ active' = used + Cardinality(starts)
           /\ at' \in [Jobs -> Stages] /\ result' \in [Jobs -> Statuses]
           /\ \A j \in Jobs :
               /\ j \in starts => at'[j] \in {"core", "waitD"}
               /\ j \notin starts => at'[j] = at1[j]
               /\ result'[j] = IF j \in starts \intersect late THEN "declined" ELSE result1[j]
           /\ late' = {j \in late : result'[j] = "none"}
           /\ wake' = IF past < until' /\ q # {} /\ ~ closed' THEN until' ELSE 0
<1>1. PICK starts \in IF (past < until' /\ q # {}) \/ closed' THEN {{}} ELSE Starts(q, Concurrency - used) :
           /\ queue' = q \ starts /\ active' = used + Cardinality(starts)
           /\ at' = [j \in Jobs |-> IF j \notin starts THEN at1[j]
                                    ELSE IF j \in Sources THEN "core" ELSE "waitD"]
           /\ result' = [j \in Jobs |-> IF j \in starts \intersect late THEN "declined" ELSE result1[j]]
           /\ late' = {j \in late : result'[j] = "none"}
           /\ wake' = IF (past < until' /\ q # {}) /\ ~ closed' THEN until' ELSE 0
  BY DEF Pump
<1>2. /\ starts \in SUBSET q
      /\ \/ starts = {} /\ ((past < until' /\ q # {}) \/ closed')
         \/ /\ ~ (past < until' /\ q # {}) /\ ~ closed'
            /\ Cardinality(starts) = IF Concurrency - used < Cardinality(q)
                                     THEN Concurrency - used ELSE Cardinality(q)
  <2>1. CASE (past < until' /\ q # {}) \/ closed'
    BY <2>1
  <2>2. CASE ~ ((past < until' /\ q # {}) \/ closed')
    BY <1>1, <2>2 DEF Starts
  <2> QED
    BY <2>1, <2>2
<1>3. "core" \in Stages /\ "waitD" \in Stages /\ "declined" \in Statuses
  BY DEF Stages, Awaiting, Waiting, Statuses
<1>4. at' \in [Jobs -> Stages] /\ result' \in [Jobs -> Statuses]
  BY <1>1, <1>3
<1>5. \A j \in Jobs :
         /\ j \in starts => at'[j] \in {"core", "waitD"}
         /\ j \notin starts => at'[j] = at1[j]
         /\ result'[j] = IF j \in starts \intersect late THEN "declined" ELSE result1[j]
  BY <1>1
<1> QED
  BY <1>1, <1>2, <1>4, <1>5

\* What a pump starts from: the queue, the slots and the jobs agree, a job is not taken back,
\* and the queue has room unless a slot is free for the newcomer.
Pumps(q, used, at1, result1) ==
    /\ at1 \in [Jobs -> Stages] /\ result1 \in [Jobs -> Statuses]
    /\ q = {j \in Jobs : at1[j] = "queued"} /\ IsFiniteSet(q)
    /\ IsFiniteSet({j \in Jobs : at1[j] \in Awaiting})
    /\ used = Cardinality({j \in Jobs : at1[j] \in Awaiting}) /\ used <= Concurrency
    /\ \A j \in Jobs : at1[j] \in {"new", "queued"} => result1[j] = "none"
    /\ \A j \in late : at1[j] # "new"
    /\ \/ Cardinality(q) <= MaxQueue
       \/ Cardinality(q) <= MaxQueue + 1 /\ used < Concurrency /\ ~ past < until' /\ ~ closed'
    /\ closed' => q = {}
    /\ until' \in Nat /\ past \in Nat /\ past <= until' /\ past' = past /\ closed' \in BOOLEAN

LEMMA PumpKeeps ==
  ASSUME ServiceInv, NEW q, NEW used, NEW at1, NEW result1,
         Pump(q, used, at1, result1), Pumps(q, used, at1, result1)
  PROVE  /\ ServiceInv'
         /\ \A j \in Jobs : /\ at'[j] = at1[j] \/ (j \in q /\ at'[j] \in {"core", "waitD"})
                            /\ result'[j] = result1[j] \/ (j \in late /\ result'[j] = "declined")
<1>1. /\ q \subseteq Jobs /\ at1 \in [Jobs -> Stages] /\ result1 \in [Jobs -> Statuses]
      /\ \A j \in Jobs : j \in q <=> at1[j] = "queued"
      /\ past' = past /\ closed' \in BOOLEAN /\ until' \in Nat /\ past \in Nat /\ past <= until'
      /\ \A j \in late : j \in Jobs /\ at1[j] # "new"
  BY DEF Pumps, ServiceInv, ServiceTypes
<1>2. PICK starts \in SUBSET q :
           /\ \/ starts = {} /\ ((past < until' /\ q # {}) \/ closed')
              \/ /\ ~ (past < until' /\ q # {}) /\ ~ closed'
                 /\ Cardinality(starts) = IF Concurrency - used < Cardinality(q)
                                          THEN Concurrency - used ELSE Cardinality(q)
           /\ queue' = q \ starts /\ active' = used + Cardinality(starts)
           /\ at' \in [Jobs -> Stages] /\ result' \in [Jobs -> Statuses]
           /\ \A j \in Jobs :
               /\ j \in starts => at'[j] \in {"core", "waitD"}
               /\ j \notin starts => at'[j] = at1[j]
               /\ result'[j] = IF j \in starts \intersect late THEN "declined" ELSE result1[j]
           /\ late' = {j \in late : result'[j] = "none"}
           /\ wake' = IF past < until' /\ q # {} /\ ~ closed' THEN until' ELSE 0
  BY <1>1, PumpEffect
<1> DEFINE R == {j \in Jobs : at1[j] \in Awaiting}
<1>3. /\ IsFiniteSet(q) /\ IsFiniteSet(R) /\ used = Cardinality(R) /\ used <= Concurrency
      /\ q \intersect R = {} /\ Concurrency \in Nat \ {0} /\ MaxQueue \in Nat
  <2>1. "queued" \notin Awaiting
    BY DEF Awaiting, Waiting, Asking
  <2> QED
    BY <1>1, <2>1, DecisionAssumption DEF Pumps
<1>4. Running' = R \union starts
  <2>1. "core" \in Awaiting /\ "waitD" \in Awaiting
    BY DEF Awaiting, Waiting
  <2> QED
    BY <1>1, <1>2, <2>1 DEF Running
<1> HIDE DEF R
<1>5. /\ IsFiniteSet(queue') /\ IsFiniteSet(Running')
      /\ Cardinality(starts) \in Nat /\ Cardinality(q) \in Nat /\ used \in Nat
      /\ Cardinality(queue') = Cardinality(q) - Cardinality(starts)
      /\ Cardinality(Running') = used + Cardinality(starts)
      /\ Cardinality(starts) = 0 => queue' = q
      /\ Cardinality(starts) = Cardinality(q) => queue' = {}
  <2>1. /\ IsFiniteSet(starts) /\ IsFiniteSet(q \ starts) /\ IsFiniteSet(R \union starts)
        /\ Cardinality(starts) \in Nat /\ Cardinality(q) \in Nat /\ Cardinality(R) \in Nat
        /\ Cardinality(q \ starts) = Cardinality(q) - Cardinality(starts)
        /\ Cardinality(R \union starts) = Cardinality(R) + Cardinality(starts)
        /\ Cardinality(starts) = 0 => q \ starts = q
        /\ Cardinality(starts) = Cardinality(q) => q \ starts = {}
    BY <1>3, Moving
  <2> QED
    BY <1>2, <1>3, <1>4, <2>1
<1>6. starts = {} => Cardinality(starts) = 0
  BY FS_EmptySet
<1>7. PoolHolds'
  <2>1. IsFiniteSet(Running') /\ active' = Cardinality(Running') /\ IsFiniteSet(queue')
    BY <1>2, <1>5
  <2>2. active' <= Concurrency
    BY <1>2, <1>3, <1>5, <1>6
  <2>3. queue' = {j \in Jobs : at'[j] = "queued"}
    BY <1>1, <1>2
  <2>4. Cardinality(queue') <= MaxQueue
    <3>1. CASE Cardinality(q) <= MaxQueue
      BY <1>3, <1>5, <3>1
    <3>2. CASE Cardinality(q) <= MaxQueue + 1 /\ used < Concurrency /\ ~ past < until' /\ ~ closed'
      <4>1. Cardinality(starts) >= 1 \/ Cardinality(q) = 0
        BY <1>2, <1>3, <1>5, <3>2
      <4> QED
        BY <1>3, <1>5, <3>2, <4>1
    <3> QED
      BY <3>1, <3>2 DEF Pumps
  <2>5. queue' # {} => ~ closed' /\ (active' = Concurrency \/ wake' # 0)
    <3>1. queue' # {} => q # {} /\ ~ closed'
      BY <1>2 DEF Pumps
    <3>2. CASE past < until' /\ q # {} /\ ~ closed'
      BY <1>1, <1>2, <3>2
    <3>3. CASE ~ (past < until' /\ q # {}) /\ ~ closed'
      BY <1>2, <1>3, <1>5, <3>3
    <3> QED
      BY <3>1, <3>2, <3>3
  <2> QED
    BY <2>1, <2>2, <2>3, <2>4, <2>5 DEF PoolHolds
<1>8. JobsHold'
  <2>1. ASSUME NEW j \in Jobs, at'[j] \in {"new", "queued"} PROVE result'[j] = "none"
    <3>1. j \notin starts
      BY <1>2, <2>1
    <3> QED
      BY <1>2, <2>1, <3>1 DEF Pumps
  <2>2. ASSUME NEW j \in late' PROVE at'[j] # "new" /\ result'[j] = "none"
    <3>1. j \in late /\ j \in Jobs /\ result'[j] = "none"
      BY <1>1, <1>2, <2>2
    <3> QED
      BY <1>1, <1>2, <3>1
  <2> QED
    BY <2>1, <2>2 DEF JobsHold
<1>9. ServiceTypes'
  <2>1. queue' \subseteq Jobs /\ late' \subseteq Jobs /\ active' \in Nat /\ wake' \in Nat
    BY <1>1, <1>2, <1>5
  <2> QED
    BY <1>1, <1>2, <2>1 DEF ServiceTypes
<1>10. \A j \in Jobs : /\ at'[j] = at1[j] \/ (j \in q /\ at'[j] \in {"core", "waitD"})
                       /\ result'[j] = result1[j] \/ (j \in late /\ result'[j] = "declined")
  BY <1>2
<1> QED
  BY <1>7, <1>8, <1>9, <1>10 DEF ServiceInv

(***************************************************************************)
(* The steps of the scheduler.                                              *)
(***************************************************************************)

\* What InTime says of one job, and that nobody takes a job back.
TimelyStep(j) ==
    /\ at[j] # "new" => at'[j] # "new"
    /\ at'[j] \in Asking => at[j] \in Asking \/ (~ Cooling /\ j \in Unsettled \ late)
    /\ result[j] # "none" => result'[j] = result[j]
    /\ result'[j] = "accepted" /\ result[j] = "none" => j \notin late

\* A step that neither submits a job nor cancels one.
QuietStep(j) ==
    /\ at'[j] # "new" => at[j] # "new"
    /\ result'[j] = "cancelled" => result[j] = "cancelled"

LEMMA StageNames ==
  /\ "new" \notin Awaiting /\ "queued" \notin Awaiting /\ "done" \notin Awaiting
  /\ Asking \subseteq Awaiting /\ "core" \notin Asking /\ "waitD" \notin Asking
  /\ "new" \notin Asking /\ "queued" \notin Asking /\ "done" \notin Asking
  /\ Waiting \subseteq Awaiting /\ Waiting \intersect Asking = {}
  /\ {"new", "queued", "done"} \subseteq Stages /\ Awaiting \subseteq Stages
  /\ {"none", "declined", "accepted", "cancelled"} \subseteq Statuses
BY DEF Awaiting, Waiting, Asking, Stages, Statuses

LEMMA AbortKeeps ==
  ASSUME ServiceInv, NEW S, NEW status \in {"declined", "cancelled"}, Abort(S, status),
         closed' = closed \/ (closed' = TRUE /\ Jobs \subseteq S)
  PROVE  /\ ServiceInv'
         /\ \A j \in Jobs :
              /\ TimelyStep(j)
              /\ at'[j] # "new" => at[j] # "new"
              /\ result'[j] = "cancelled" => result[j] = "cancelled"
                    \/ (status = "cancelled" /\ j \in S /\ j \in Unsettled)
              /\ j \in S => j \notin Unsettled'
<1> DEFINE X == S \intersect Unsettled
           inQueue == {j \in X : at[j] = "queued"}
           at1 == [j \in Jobs |-> IF j \in inQueue THEN "done" ELSE at[j]]
           result1 == [j \in Jobs |-> IF j \in X THEN status ELSE result[j]]
<1>i. ServiceTypes /\ JobsHold /\ PoolHolds
  BY DEF ServiceInv
<1>1. Pump(queue \ inQueue, active, at1, result1) /\ UNCHANGED <<until, past, waits>>
  BY DEF Abort
<1>2. /\ \A j \in Jobs : /\ at1[j] = IF j \in inQueue THEN "done" ELSE at[j]
                         /\ result1[j] = IF j \in X THEN status ELSE result[j]
      /\ at1 \in [Jobs -> Stages] /\ result1 \in [Jobs -> Statuses]
  BY <1>i, StageNames DEF ServiceTypes
<1>3. {j \in Jobs : at1[j] \in Awaiting} = Running
  BY <1>2, StageNames DEF Running
<1>4. queue \ inQueue = {j \in Jobs : at1[j] = "queued"}
  BY <1>i, <1>2 DEF PoolHolds
<1>5. /\ IsFiniteSet(queue \ inQueue) /\ Cardinality(queue \ inQueue) <= MaxQueue
  <2>1. /\ IsFiniteSet(queue \ inQueue) /\ Cardinality(queue \ inQueue) <= Cardinality(queue)
        /\ Cardinality(queue \ inQueue) \in Nat /\ Cardinality(queue) \in Nat
    BY <1>i, FS_Subset, FS_CardinalityType DEF PoolHolds
  <2> QED
    BY <1>i, <2>1, DecisionAssumption DEF PoolHolds
<1>6. closed' => queue \ inQueue = {}
  <2>1. closed => queue = {}
    BY <1>i DEF PoolHolds
  <2>2. Jobs \subseteq S => queue \subseteq inQueue
    BY <1>i DEF PoolHolds, JobsHold, Unsettled
  <2> QED
    BY <2>1, <2>2
<1>7. \A j \in Jobs : (at1[j] = "new" <=> at[j] = "new")
  BY <1>2
<1>8. \A j \in Jobs : at1[j] \in {"new", "queued"} => result1[j] = "none"
  BY <1>i, <1>2 DEF JobsHold, Unsettled
<1>9. Pumps(queue \ inQueue, active, at1, result1)
  <2>1. \A j \in late : j \in Jobs /\ at1[j] # "new"
    BY <1>i, <1>7 DEF ServiceTypes, JobsHold
  <2>2. closed' \in BOOLEAN
    BY <1>i DEF ServiceTypes
  <2> HIDE DEF at1, result1, inQueue
  <2> QED
    BY <1>i, <1>1, <1>2, <1>3, <1>4, <1>5, <1>6, <1>8, <2>1, <2>2 DEF Pumps, PoolHolds, ServiceTypes
<1>10. /\ ServiceInv'
       /\ \A j \in Jobs : /\ at'[j] = at1[j] \/ (j \in queue /\ at'[j] \in {"core", "waitD"})
                          /\ result'[j] = result1[j] \/ (j \in late /\ result'[j] = "declined")
  <2> HIDE DEF at1, result1, inQueue
  <2> QED
    BY <1>1, <1>9, PumpKeeps
<1>11. ASSUME NEW j \in Jobs
       PROVE  /\ TimelyStep(j)
              /\ at'[j] # "new" => at[j] # "new"
              /\ result'[j] = "cancelled" => result[j] = "cancelled"
                    \/ (status = "cancelled" /\ j \in S /\ j \in Unsettled)
              /\ j \in S => j \notin Unsettled'
  <2>1. j \in late => result[j] = "none"
    BY <1>i DEF JobsHold
  <2>2. j \in queue => at[j] = "queued"
    BY <1>i DEF PoolHolds
  <2>3. j \in X <=> j \in S /\ at[j] # "new" /\ result[j] = "none"
    BY DEF Unsettled
  <2>4. at'[j] # "new" <=> at[j] # "new"
    BY <1>7, <1>10, <2>2
  <2>5. at'[j] \in Asking => at[j] \in Asking
    BY <1>2, <1>10, StageNames
  <2>6. result[j] # "none" => result'[j] = result[j]
    BY <1>2, <1>10, <2>1, <2>3
  <2>7. result'[j] \in {result[j], "declined"} \/ (result'[j] = status /\ j \in X)
    BY <1>2, <1>10
  <2>8. j \in X => result'[j] # "none"
    BY <1>2, <1>10
  <2> HIDE DEF X
  <2>9. TimelyStep(j)
    BY <2>4, <2>5, <2>6, <2>7 DEF TimelyStep
  <2>10. j \in S => j \notin Unsettled'
    BY <2>3, <2>4, <2>6, <2>8 DEF Unsettled
  <2> QED
    BY <2>3, <2>4, <2>7, <2>9, <2>10 DEF Unsettled
<1> QED
  BY <1>10, <1>11

LEMMA EndKeeps ==
  ASSUME ServiceInv, NEW j \in Running, NEW status \in {"declined", "accepted"}, End(j, status),
         until' \in Nat, until' >= until, status = "accepted" => j \notin late
  PROVE  ServiceInv' /\ \A i \in Jobs : TimelyStep(i) /\ QuietStep(i)
<1> DEFINE at1 == [at EXCEPT ![j] = "done"]
           result1 == [result EXCEPT ![j] = IF result[j] = "none" THEN status ELSE result[j]]
           R == {i \in Jobs : at1[i] \in Awaiting}
<1>i. ServiceTypes /\ JobsHold /\ PoolHolds
  BY DEF ServiceInv
<1>1. Pump(queue, active - 1, at1, result1) /\ UNCHANGED <<past, closed>>
  BY DEF End
<1>2. /\ j \in Jobs /\ at[j] \in Awaiting
      /\ at1 \in [Jobs -> Stages] /\ result1 \in [Jobs -> Statuses]
      /\ \A i \in Jobs : /\ at1[i] = IF i = j THEN "done" ELSE at[i]
                         /\ result1[i] = IF i = j /\ result[i] = "none" THEN status ELSE result[i]
  BY <1>i, StageNames DEF ServiceTypes, Running
<1>3. R = Running \ {j}
  BY <1>2, StageNames DEF Running
<1>4. IsFiniteSet(R) /\ active - 1 = Cardinality(R) /\ active - 1 <= Concurrency
  <2>1. IsFiniteSet(Running \ {j}) /\ Cardinality(Running \ {j}) = Cardinality(Running) - 1
    BY <1>i, FS_RemoveElement DEF PoolHolds
  <2>2. active \in Nat /\ Concurrency \in Nat
    BY <1>i, DecisionAssumption DEF ServiceTypes
  <2> HIDE DEF R
  <2> QED
    BY <1>i, <1>3, <2>1, <2>2 DEF PoolHolds
<1>5. queue = {i \in Jobs : at1[i] = "queued"} /\ IsFiniteSet(queue) /\ Cardinality(queue) <= MaxQueue
  BY <1>i, <1>2, StageNames DEF PoolHolds
<1>6. \A i \in Jobs : at1[i] \in {"new", "queued"} => result1[i] = "none"
  BY <1>i, <1>2 DEF JobsHold
<1>7. \A i \in late : i \in Jobs /\ at1[i] # "new"
  BY <1>i, <1>2 DEF ServiceTypes, JobsHold
<1>8. Pumps(queue, active - 1, at1, result1)
  <2>1. (closed' => queue = {}) /\ closed' \in BOOLEAN
    BY <1>i, <1>1 DEF PoolHolds, ServiceTypes
  <2> HIDE DEF at1, result1
  <2> QED
    BY <1>i, <1>1, <1>2, <1>4, <1>5, <1>6, <1>7, <2>1 DEF Pumps, ServiceTypes
<1>9. /\ ServiceInv'
      /\ \A i \in Jobs : /\ at'[i] = at1[i] \/ (i \in queue /\ at'[i] \in {"core", "waitD"})
                         /\ result'[i] = result1[i] \/ (i \in late /\ result'[i] = "declined")
  <2> HIDE DEF at1, result1
  <2> QED
    BY <1>1, <1>8, PumpKeeps
<1>10. ASSUME NEW i \in Jobs
       PROVE  TimelyStep(i) /\ QuietStep(i)
  <2>1. i \in late => result[i] = "none"
    BY <1>i DEF JobsHold
  <2>2. i \in queue => at[i] = "queued"
    BY <1>i DEF PoolHolds
  <2>3. at'[i] # "new" <=> at[i] # "new"
    BY <1>2, <1>9, <2>2, StageNames
  <2>4. at'[i] \in Asking => at[i] \in Asking
    BY <1>2, <1>9, StageNames
  <2> HIDE DEF at1, result1
  <2>5. result[i] # "none" => result'[i] = result[i]
    BY <1>2, <1>9, <2>1
  <2>6. result'[i] # result[i] => result'[i] \in {"declined", "accepted"}
    BY <1>2, <1>9
  <2>7. result'[i] = "accepted" /\ result[i] = "none" => i \notin late
    BY <1>2, <1>9
  <2> QED
    BY <2>3, <2>4, <2>5, <2>6, <2>7 DEF TimelyStep, QuietStep
<1> QED
  BY <1>9, <1>10

LEMMA SubmitKeeps ==
  ASSUME ServiceInv, NEW j \in Jobs, Submit(j)
  PROVE  /\ ServiceInv'
         /\ at[j] = "new" /\ at'[j] # "new" /\ closed' = closed
         /\ \A i \in Jobs : /\ TimelyStep(i)
                            /\ i # j => QuietStep(i)
                            /\ result'[i] = "cancelled" => result[i] = "cancelled"
<1>i. ServiceTypes /\ JobsHold /\ PoolHolds
  BY DEF ServiceInv
<1>1. CASE Reject(j)
  <2>1. /\ at[j] = "new" /\ at' = [at EXCEPT ![j] = "done"] /\ result' = [result EXCEPT ![j] = "declined"]
        /\ UNCHANGED <<queue, active, late, until, past, wake, closed>>
    BY <1>1 DEF Reject
  <2>2. /\ at' \in [Jobs -> Stages] /\ result' \in [Jobs -> Statuses]
        /\ \A i \in Jobs : /\ at'[i] = IF i = j THEN "done" ELSE at[i]
                           /\ result'[i] = IF i = j THEN "declined" ELSE result[i]
    BY <1>i, <2>1, StageNames DEF ServiceTypes
  <2>3. result[j] = "none" /\ j \notin late
    BY <1>i, <2>1 DEF JobsHold
  <2>4. Running' = Running /\ queue' = {i \in Jobs : at'[i] = "queued"}
    BY <1>i, <2>1, <2>2, StageNames DEF Running, PoolHolds
  <2>5. ServiceInv'
    BY <1>i, <2>1, <2>2, <2>3, <2>4 DEF ServiceInv, ServiceTypes, JobsHold, PoolHolds
  <2>6. \A i \in Jobs : TimelyStep(i) /\ (i # j => QuietStep(i))
                          /\ (result'[i] = "cancelled" => result[i] = "cancelled")
    BY <2>2, <2>3, StageNames DEF TimelyStep, QuietStep
  <2> QED
    BY <2>1, <2>2, <2>5, <2>6
<1>2. CASE Admit(j)
  <2> DEFINE q == queue \union {j}  at1 == [at EXCEPT ![j] = "queued"]
  <2>1. /\ at[j] = "new" /\ ~ closed /\ ~ Full /\ UNCHANGED <<until, past, waits, closed>>
        /\ Pump(q, active, at1, result)
    BY <1>2 DEF Admit
  <2>2. /\ at1 \in [Jobs -> Stages]
        /\ \A i \in Jobs : at1[i] = IF i = j THEN "queued" ELSE at[i]
    BY <1>i, StageNames DEF ServiceTypes
  <2>3. {i \in Jobs : at1[i] \in Awaiting} = Running
    BY <2>1, <2>2, StageNames DEF Running
  <2>4. j \notin queue
    BY <1>i, <2>1 DEF PoolHolds
  <2>5. /\ q = {i \in Jobs : at1[i] = "queued"} /\ IsFiniteSet(q)
        /\ Cardinality(q) = Cardinality(queue) + 1 /\ Cardinality(queue) \in Nat
    <3>1. q = {i \in Jobs : at1[i] = "queued"}
      BY <1>i, <2>2 DEF PoolHolds
    <3>2. IsFiniteSet(queue)
      BY <1>i DEF PoolHolds
    <3> QED
      BY <2>4, <3>1, <3>2, FS_AddElement, FS_CardinalityType
  <2>6. \/ Cardinality(q) <= MaxQueue
        \/ Cardinality(q) <= MaxQueue + 1 /\ active < Concurrency /\ ~ past < until' /\ ~ closed'
    <3>1. Cardinality(queue) < MaxQueue \/ (active < Concurrency /\ ~ past < until)
      <4> active \in Nat /\ Concurrency \in Nat /\ MaxQueue \in Nat /\ Cardinality(queue) \in Nat
        BY <1>i, <2>5, DecisionAssumption DEF ServiceTypes
      <4> QED
        BY <2>1 DEF Full, Cooling
    <3>2. Cardinality(queue) <= MaxQueue /\ MaxQueue \in Nat
      BY <1>i, DecisionAssumption DEF PoolHolds
    <3> QED
      BY <2>1, <2>5, <3>1, <3>2
  <2>7. /\ \A i \in Jobs : at1[i] \in {"new", "queued"} => result[i] = "none"
        /\ \A i \in late : i \in Jobs /\ at1[i] # "new"
    BY <1>i, <2>1, <2>2 DEF JobsHold, ServiceTypes
  <2>8. Pumps(q, active, at1, result)
    <3>1. ~ closed' /\ closed' \in BOOLEAN
      BY <1>i, <2>1 DEF ServiceTypes
    <3> HIDE DEF q, at1
    <3> QED
      BY <1>i, <2>1, <2>2, <2>3, <2>5, <2>6, <2>7, <3>1 DEF Pumps, PoolHolds, ServiceTypes
  <2>9. /\ ServiceInv'
        /\ \A i \in Jobs : /\ at'[i] = at1[i] \/ (i \in q /\ at'[i] \in {"core", "waitD"})
                           /\ result'[i] = result[i] \/ (i \in late /\ result'[i] = "declined")
    <3> HIDE DEF q, at1
    <3> QED
      BY <2>1, <2>8, PumpKeeps
  <2>10. ASSUME NEW i \in Jobs
         PROVE  /\ TimelyStep(i) /\ (i # j => QuietStep(i)) /\ (i = j => at'[i] # "new")
                /\ result'[i] = "cancelled" => result[i] = "cancelled"
    <3>1. i \in late => result[i] = "none"
      BY <1>i DEF JobsHold
    <3>2. i \in q /\ i # j => at[i] = "queued"
      BY <1>i DEF PoolHolds
    <3>3. (i # j => (at'[i] # "new" <=> at[i] # "new")) /\ (i = j => at'[i] # "new")
      BY <2>2, <2>9, <3>2, StageNames
    <3>4. at'[i] \in Asking => at[i] \in Asking
      BY <2>2, <2>9, StageNames
    <3>5. result[i] # "none" => result'[i] = result[i]
      BY <2>9, <3>1
    <3>6. result'[i] # result[i] => result'[i] = "declined"
      BY <2>9
    <3> HIDE DEF q, at1
    <3> QED
      BY <2>1, <3>3, <3>4, <3>5, <3>6 DEF TimelyStep, QuietStep
  <2> QED
    BY <2>1, <2>9, <2>10
<1> QED
  BY <1>1, <1>2 DEF Submit

\* A deadline, a caller or a timer settles a job without an answer.
LEMMA DeclinedKeeps ==
  ASSUME ServiceInv, NEW j \in Jobs, Abort({j}, "declined"), UNCHANGED closed
  PROVE  ServiceInv' /\ \A i \in Jobs : TimelyStep(i) /\ QuietStep(i)
BY AbortKeeps DEF QuietStep

\* A job that goes on keeps its slot, and calls the provider only outside a cooldown.
LEMMA GoOnKeeps ==
  ASSUME ServiceInv, NEW j \in Running, NEW place \in Awaiting, GoOn(j, place), result[j] = "none",
         place \in Asking => ~ Cooling
  PROVE  ServiceInv' /\ \A i \in Jobs : TimelyStep(i) /\ QuietStep(i)
<1>i. ServiceTypes /\ JobsHold /\ PoolHolds
  BY DEF ServiceInv
<1>1. /\ j \notin late /\ at' = [at EXCEPT ![j] = place] /\ at[j] \in Awaiting /\ j \in Jobs
      /\ UNCHANGED <<queue, active, result, late, until, past, wake, closed>>
  BY DEF GoOn, Running
<1>2. /\ at' \in [Jobs -> Stages]
      /\ \A i \in Jobs : at'[i] = IF i = j THEN place ELSE at[i]
  BY <1>i, <1>1, StageNames DEF ServiceTypes
<1>3. Running' = Running /\ queue = {i \in Jobs : at'[i] = "queued"}
  BY <1>i, <1>1, <1>2, StageNames DEF Running, PoolHolds
<1>4. ServiceInv'
  BY <1>i, <1>1, <1>2, <1>3, StageNames DEF ServiceInv, ServiceTypes, JobsHold, PoolHolds
<1>5. \A i \in Jobs : TimelyStep(i) /\ QuietStep(i)
  BY <1>1, <1>2, StageNames DEF TimelyStep, QuietStep, Unsettled
<1> QED
  BY <1>4, <1>5

LEMMA FinishKeeps ==
  ASSUME ServiceInv, NEW j \in Running, NEW status \in {"declined", "accepted"}, Finish(j, status)
  PROVE  ServiceInv' /\ \A i \in Jobs : TimelyStep(i) /\ QuietStep(i)
BY EndKeeps DEF Finish, ServiceInv, ServiceTypes

LEMMA RunKeeps ==
  ASSUME ServiceInv, NEW j \in Jobs, RunStep(j)
  PROVE  ServiceInv' /\ \A i \in Jobs : TimelyStep(i) /\ QuietStep(i)
<1> DEFINE Good == ServiceInv' /\ \A i \in Jobs : TimelyStep(i) /\ QuietStep(i)
<1>1. /\ {"core", "materialize", "propose"} \subseteq Awaiting
      /\ {"waitA", "waitB", "waitP"} \subseteq Awaiting \ Asking /\ "materialize" \notin Asking
      /\ "propose" \notin Asking
      /\ \A place \in Waiting : AskOf[place] \in Asking
  BY DEF Awaiting, Waiting, Asking, AskOf
<1>2. TooLate(j) => Good
  BY DeclinedKeeps DEF TooLate, DeadlineTimer
<1>3. Unwind(j) => Good
  <2> SUFFICES ASSUME Unwind(j) PROVE Good
    OBVIOUS
  <2>1. j \in Running /\ End(j, "declined") /\ UNCHANGED until /\ until \in Nat
    BY DEF Unwind, Running, ServiceInv, ServiceTypes
  <2> QED
    BY <2>1, EndKeeps
<1>4. CoreLoaded(j) => Good
  BY <1>1, <1>2, GoOnKeeps, FinishKeeps DEF CoreLoaded, Resumes, Running
<1>5. AfterCooldown(j) => Good
  <2> SUFFICES ASSUME AfterCooldown(j) PROVE Good
    OBVIOUS
  <2>1. at[j] \in Waiting /\ result[j] = "none" /\ j \in Running
    BY StageNames DEF AfterCooldown, Running
  <2>2. CASE Cooling /\ GoOn(j, at[j])
    BY <2>1, <2>2, GoOnKeeps, StageNames
  <2>3. CASE ~ Cooling /\ GoOn(j, AskOf[at[j]])
    BY <1>1, <2>1, <2>3, GoOnKeeps, StageNames
  <2> QED
    BY <1>2, <2>2, <2>3 DEF AfterCooldown
<1>6. Answer(j) => Good
  <2> SUFFICES ASSUME Answer(j) PROVE Good
    OBVIOUS
  <2>1. at[j] \in Asking /\ result[j] = "none" /\ j \in Running
    BY StageNames DEF Answer, Running
  <2>2. CASE Overloaded(j)
    <3>1. until' \in Nat /\ until' >= until
      BY <2>2 DEF Overloaded, ServiceInv, ServiceTypes
    <3> QED
      BY <2>1, <2>2, <3>1, EndKeeps DEF Overloaded
  <2>3. CASE Finish(j, "declined") \/ Finish(j, "accepted")
    BY <2>1, <2>3, FinishKeeps
  <2>4. CASE GoOn(j, "materialize")
    BY <1>1, <2>1, <2>4, GoOnKeeps
  <2> QED
    BY <1>2, <2>2, <2>3, <2>4 DEF Answer
<1>7. Materialized(j) => Good
  <2> SUFFICES ASSUME Materialized(j) PROVE Good
    OBVIOUS
  <2>1. result[j] = "none" /\ j \in Running
    BY <1>1 DEF Materialized, Resumes, Running
  <2>2. CASE Finish(j, "declined")
    BY <2>1, <2>2, FinishKeeps
  <2>3. CASE GoOn(j, "waitP") \/ GoOn(j, "propose")
    BY <1>1, <2>1, <2>3, GoOnKeeps
  <2> QED
    BY <1>2, <2>2, <2>3 DEF Materialized
<1>8. Proposed(j) => Good
  <2> SUFFICES ASSUME Proposed(j) PROVE Good
    OBVIOUS
  <2>1. result[j] = "none" /\ j \in Running
    BY <1>1 DEF Proposed, Resumes, Running
  <2>2. CASE Finish(j, "declined")
    BY <2>1, <2>2, FinishKeeps
  <2>3. CASE GoOn(j, "waitB")
    BY <1>1, <2>1, <2>3, GoOnKeeps
  <2> QED
    BY <1>2, <2>2, <2>3 DEF Proposed
<1> QED
  BY <1>3, <1>4, <1>5, <1>6, <1>7, <1>8 DEF RunStep

LEMMA ServiceKeeps ==
  ASSUME ServiceInv, ServiceStep
  PROVE  ServiceInv' /\ \A i \in Jobs : TimelyStep(i) /\ QuietStep(i)
<1>i. ServiceTypes /\ JobsHold /\ PoolHolds
  BY DEF ServiceInv
<1>1. ASSUME NEW j \in Jobs, DeadlinePasses(j)
      PROVE  ServiceInv' /\ \A i \in Jobs : TimelyStep(i) /\ QuietStep(i)
  <2>1. /\ j \in Unsettled /\ late' = late \union {j}
        /\ UNCHANGED <<at, queue, active, result, until, past, wake, closed>>
    BY <1>1 DEF DeadlinePasses
  <2>2. Running' = Running
    BY <2>1 DEF Running
  <2>3. ServiceInv'
    BY <1>i, <2>1, <2>2 DEF ServiceInv, ServiceTypes, JobsHold, PoolHolds, Unsettled
  <2> QED
    BY <2>1, <2>3 DEF TimelyStep, QuietStep
<1>2. ASSUME NEW j \in Jobs, DeadlineTimer(j)
      PROVE  ServiceInv' /\ \A i \in Jobs : TimelyStep(i) /\ QuietStep(i)
  BY <1>2, DeclinedKeeps DEF DeadlineTimer
<1>3. CASE CooldownPasses
  <2>1. /\ past' = past + 1 /\ past < until
        /\ UNCHANGED <<at, queue, active, result, late, until, wake, closed>>
    BY <1>3 DEF CooldownPasses, Cooling
  <2>2. Running' = Running
    BY <2>1 DEF Running
  <2>3. ServiceInv'
    BY <1>i, <2>1, <2>2 DEF ServiceInv, ServiceTypes, JobsHold, PoolHolds
  <2> QED
    BY <2>1, <2>3 DEF TimelyStep, QuietStep
<1>4. CASE WakeTimer
  <2>1. Pump(queue, active, at, result) /\ UNCHANGED <<until, past, waits, closed>>
    BY <1>4 DEF WakeTimer
  <2>2. Pumps(queue, active, at, result)
    BY <1>i, <2>1 DEF Pumps, ServiceTypes, JobsHold, PoolHolds, Running
  <2>3. /\ ServiceInv'
        /\ \A i \in Jobs : /\ at'[i] = at[i] \/ (i \in queue /\ at'[i] \in {"core", "waitD"})
                           /\ result'[i] = result[i] \/ (i \in late /\ result'[i] = "declined")
    BY <2>1, <2>2, PumpKeeps
  <2>4. \A i \in queue : at[i] = "queued"
    BY <1>i DEF PoolHolds
  <2>5. \A i \in Jobs : TimelyStep(i) /\ QuietStep(i)
    BY <1>i, <2>3, <2>4, StageNames DEF TimelyStep, QuietStep, JobsHold
  <2> QED
    BY <2>3, <2>5
<1> QED
  BY <1>1, <1>2, <1>3, <1>4, RunKeeps DEF ServiceStep

(***************************************************************************)
(* The steps of the shared evaluations.                                     *)
(***************************************************************************)

Entries == [key : Keys, askedIn : {epoch}]

LEMMA Removed ==
  ASSUME NEW S, NEW s \in Seq(S), NEW i \in DOMAIN s
  PROVE  RemoveAt(s, i) \in Seq(S)
<1>1. i \in 1..Len(s) /\ Len(s) \in Nat
  OBVIOUS
<1>2. SubSeq(s, 1, i - 1) \in Seq(S) /\ SubSeq(s, i + 1, Len(s)) \in Seq(S)
  BY <1>1, SubSeqProperties
<1> QED
  BY <1>2, ConcatProperties DEF RemoveAt

LEMMA UncachedKeeps ==
  ASSUME cache \in Seq(Entries), NEW k
  PROVE  Uncached(k) \in Seq(Entries)
<1>1. CASE Cached(k) = {}
  BY <1>1 DEF Uncached
<1>2. CASE Cached(k) # {}
  <2>1. \E i \in DOMAIN cache : cache[i].key = k
    BY <1>2 DEF Cached, ToSet
  <2>2. (CHOOSE i \in DOMAIN cache : cache[i].key = k) \in DOMAIN cache
    BY <2>1
  <2> QED
    BY <1>2, <2>2, Removed DEF Uncached
<1> QED
  BY <1>1, <1>2

\* What is remembered was asked in this epoch.
LEMMA RememberKeeps ==
  ASSUME CacheTypes, cache \in Seq(Entries), NEW e \in Evaluations, Remember(e)
  PROVE  cache' \in Seq(Entries)
<1>1. CASE cache' = cache
  BY <1>1
<1>2. CASE cache' # cache
  <2> DEFINE k == KeyOf[CHOOSE r \in Waiters(e) : TRUE]
             kept == Append(Uncached(k), [key |-> k, askedIn |-> askedIn[e]])
  <2>1. askedIn[e] = epoch /\ Waiters(e) # {} /\ cache' = Kept(e)
    BY <1>2 DEF Remember
  <2>2. k \in Keys
    BY <2>1 DEF Waiters, Keys
  <2>3. kept \in Seq(Entries) /\ kept # <<>>
    <3>1. [key |-> k, askedIn |-> askedIn[e]] \in Entries
      BY <2>1, <2>2 DEF Entries
    <3> HIDE DEF k
    <3> QED
      BY <3>1, UncachedKeeps, AppendProperties
  <2>4. cache' = IF Len(kept) > MaxEntries THEN Tail(kept) ELSE kept
    BY <2>1 DEF Kept
  <2> HIDE DEF kept
  <2> QED
    BY <2>3, <2>4, HeadTailProperties
<1> QED
  BY <1>1, <1>2

LEMMA ReplyEffect ==
  ASSUME CacheTypes, NEW r \in Requests, NEW what \in {"declined", "accepted"}, Reply(r, what)
  PROVE  /\ entry' \in [Requests -> Evaluations \union {Nobody}] /\ reply' \in [Requests -> Replies]
         /\ since' \in [Requests -> Nat]
         /\ \A q \in Requests : /\ entry'[q] = IF q = r THEN Nobody ELSE entry[q]
                                /\ q # r => since'[q] = since[q]
                                /\ reply'[q] = IF q = r THEN what ELSE reply[q]
BY DEF CacheTypes, Reply, Replies

\* The jobs move and nobody else: no evaluation that was asked is forgotten, none is cancelled.
LEMMA JobsMove ==
  ASSUME CacheInv, UNCHANGED <<entry, reply, since, askedIn, finished>>,
         UNCHANGED <<cache, shared, epoch>>
         \/ (cache' = <<>> /\ (\A k \in Keys : shared'[k] = Nobody) /\ epoch' \in {epoch, epoch + 1}
             /\ shared' \in [Keys -> Evaluations \union {Nobody}]),
         \A j \in Jobs : TimelyStep(j),
         \A e \in Shared : QuietStep(e)
  PROVE  CacheInv'
<1>i. CacheTypes /\ WaitersHold /\ EpochHolds /\ EvaluationsHold
  BY DEF CacheInv
<1>1. /\ \A e \in Shared : /\ e \in Jobs /\ (at'[e] # "new" <=> at[e] # "new")
                           /\ result[e] # "none" => result'[e] = result[e]
                           /\ result'[e] = "cancelled" => result[e] = "cancelled"
      /\ \A e \in Evaluations : /\ at[e] # "new" => at'[e] # "new"
                                /\ result[e] # "none" => result'[e] = result[e]
  BY DEF TimelyStep, QuietStep, Shared, Jobs
<1>2. epoch \in Nat /\ epoch' \in Nat /\ epoch <= epoch'
  BY <1>i DEF CacheTypes
<1>3. CacheTypes'
  BY <1>i, <1>2 DEF CacheTypes
<1>4. WaitersHold'
  BY <1>i, <1>1, <1>2 DEF CacheTypes, WaitersHold
<1>5. EpochHolds'
  <2>1. \A e \in finished' : at'[e] # "new" /\ result'[e] # "none"
    BY <1>i, <1>1 DEF CacheTypes, EpochHolds
  <2>2. CASE UNCHANGED <<cache, shared, epoch>>
    BY <1>i, <1>1, <2>1, <2>2 DEF EpochHolds
  <2>3. CASE cache' = <<>> /\ (\A k \in Keys : shared'[k] = Nobody)
    BY <2>1, <2>3 DEF EpochHolds
  <2> QED
    BY <2>2, <2>3
<1>6. EvaluationsHold'
  <2>1. \A e : Waiters(e)' = Waiters(e)
    BY DEF Waiters
  <2>2. \A e \in Shared : e \in Unsettled' => e \in Unsettled
    BY <1>1 DEF Unsettled
  <2> QED
    BY <1>i, <1>1, <2>1, <2>2 DEF EvaluationsHold, NoAnswerFromBefore, EvaluationsHaveOwners, Shared
<1> QED
  BY <1>3, <1>4, <1>5, <1>6 DEF CacheInv

\* Nobody becomes the only one that waits for another's evaluation, and a request that leaves
\* an evaluation leaves it to others or to nobody who could still join it.
LEMMA LeaveKeeps ==
  ASSUME ServiceInv, CacheInv, NEW r \in Requests, Leave(r)
  PROVE  ServiceInv' /\ CacheInv' /\ \A j \in Jobs : TimelyStep(j) \/ UNCHANGED serviceVars
<1> DEFINE e == entry[r]
<1>i. CacheTypes /\ WaitersHold /\ EpochHolds /\ EvaluationsHold
  BY DEF CacheInv
<1>1. /\ e \in Shared /\ e \in Jobs /\ Reply(r, "declined") /\ UNCHANGED <<askedIn, finished, cache, epoch>>
      /\ Nobody \notin Evaluations /\ e # Nobody
  BY <1>i, EvaluationAssumption DEF Leave, WaitersHold, Shared, Jobs
<1>2. /\ entry' \in [Requests -> Evaluations \union {Nobody}] /\ reply' \in [Requests -> Replies]
      /\ since' \in [Requests -> Nat]
      /\ \A q \in Requests : /\ entry'[q] = IF q = r THEN Nobody ELSE entry[q]
                             /\ q # r => since'[q] = since[q]
                             /\ reply'[q] = IF q = r THEN "declined" ELSE reply[q]
  BY <1>1, <1>i, ReplyEffect
<1>3. NoAnswerFromBefore'
  BY <1>i, <1>2 DEF EvaluationsHold, NoAnswerFromBefore
<1> HIDE DEF e
<1>4. \A f \in Shared : Waiters(f)' = Waiters(f) \ {r} /\ (f # e => Waiters(f)' = Waiters(f)) /\ r \in Waiters(e)
  BY <1>1, <1>2, EvaluationAssumption DEF Waiters, e, Shared
<1>5. CASE Waiters(e) = {r} /\ e \notin finished
  <2>1. /\ shared' = Unshared(e) /\ UNCHANGED closed /\ Abort({e}, "cancelled")
    BY <1>5 DEF Leave, e
  <2>2. /\ ServiceInv'
        /\ \A j \in Jobs :
              /\ TimelyStep(j)
              /\ at'[j] # "new" => at[j] # "new"
              /\ result'[j] = "cancelled" => result[j] = "cancelled"
                    \/ ("cancelled" = "cancelled" /\ j \in {e} /\ j \in Unsettled)
              /\ j \in {e} => j \notin Unsettled'
    BY <2>1, AbortKeeps
  <2>3. /\ shared' \in [Keys -> Evaluations \union {Nobody}]
        /\ \A k \in Keys : shared'[k] # Nobody => shared'[k] = shared[k] /\ shared'[k] # e
    BY <1>i, <2>1 DEF Unshared, CacheTypes
  <2>4. CacheTypes'
    BY <1>i, <1>1, <1>2, <2>3 DEF CacheTypes
  <2>5. \A j \in Jobs : /\ (at'[j] # "new" <=> at[j] # "new")
                        /\ result[j] # "none" => result'[j] = result[j]
                        /\ j # e /\ result'[j] = "cancelled" => result[j] = "cancelled"
                        /\ j \in Unsettled' => j \in Unsettled /\ j # e
    BY <2>2 DEF TimelyStep, Unsettled
  <2>6. Shared \subseteq Jobs /\ Evaluations \subseteq Jobs
    BY DEF Shared, Jobs
  <2>7. WaitersHold'
    BY <1>i, <1>1, <1>2, <2>5, <2>6 DEF WaitersHold
  <2>8. EpochHolds'
    <3>1. \A k \in Keys : shared'[k] # Nobody =>
            /\ shared'[k] \in Shared /\ at'[shared'[k]] # "new"
            /\ askedIn'[shared'[k]] = epoch /\ result'[shared'[k]] # "cancelled"
      BY <1>i, <1>1, <2>3, <2>5, <2>6 DEF EpochHolds
    <3>2. \A f \in finished : at'[f] # "new" /\ result'[f] # "none"
      BY <1>i, <2>5, <2>6 DEF EpochHolds, CacheTypes
    <3> QED
      BY <1>i, <1>1, <3>1, <3>2 DEF EpochHolds
  <2>9. EvaluationsHaveOwners'
    BY <1>i, <1>4, <1>5, <2>5, <2>6 DEF EvaluationsHold, EvaluationsHaveOwners, Shared
  <2> QED
    BY <1>3, <2>2, <2>4, <2>7, <2>8, <2>9 DEF CacheInv, EvaluationsHold
<1>6. CASE ~ (Waiters(e) = {r} /\ e \notin finished)
  <2>1. UNCHANGED <<serviceVars, shared>>
    BY <1>6 DEF Leave, e
  <2>2. UNCHANGED <<at, queue, active, result, late, until, past, wake, closed>>
    BY <2>1 DEF serviceVars
  <2>3. ServiceInv'
    BY <2>2 DEF ServiceInv, ServiceTypes, JobsHold, PoolHolds, Running
  <2>4. CacheTypes' /\ WaitersHold' /\ EpochHolds'
    BY <1>i, <1>1, <1>2, <2>1, <2>2 DEF CacheTypes, WaitersHold, EpochHolds
  <2>5. e \in Unsettled => Waiters(e) \ {r} # {}
    BY <1>i, <1>1, <1>4, <1>6 DEF EpochHolds, Unsettled
  <2>6. EvaluationsHaveOwners'
    BY <1>i, <1>1, <1>4, <2>2, <2>5 DEF EvaluationsHold, EvaluationsHaveOwners, Shared, Unsettled
  <2> QED
    BY <1>3, <2>1, <2>3, <2>4, <2>6 DEF CacheInv, EvaluationsHold
<1> QED
  BY <1>5, <1>6

\* The first request for a key waits for an evaluation nobody else has heard of.
LEMMA MissKeeps ==
  ASSUME ServiceInv, CacheInv, NEW r \in Requests, NEW e \in Shared, Miss(r, e)
  PROVE  ServiceInv' /\ CacheInv' /\ \A j \in Jobs : TimelyStep(j)
<1>i. CacheTypes /\ WaitersHold /\ EpochHolds /\ EvaluationsHold
  BY DEF CacheInv
<1>1. /\ Submit(e) /\ IsNext(r) /\ entry' = [entry EXCEPT ![r] = e] /\ since' = [since EXCEPT ![r] = epoch]
      /\ shared' = [shared EXCEPT ![KeyOf[r]] = e] /\ askedIn' = [askedIn EXCEPT ![e] = epoch]
      /\ UNCHANGED <<reply, expired, finished, cache, epoch>>
      /\ e \in Jobs /\ e \in Evaluations /\ KeyOf[r] \in Keys
  BY DEF Miss, Subscribe, Shared, Jobs, Keys
<1>2. /\ ServiceInv'
      /\ at[e] = "new" /\ at'[e] # "new" /\ closed' = closed
      /\ \A i \in Jobs : /\ TimelyStep(i)
                         /\ i # e => QuietStep(i)
                         /\ result'[i] = "cancelled" => result[i] = "cancelled"
  BY <1>1, SubmitKeeps
<1>3. /\ entry' \in [Requests -> Evaluations \union {Nobody}] /\ since' \in [Requests -> Nat]
      /\ askedIn' \in [Evaluations -> Nat] /\ shared' \in [Keys -> Evaluations \union {Nobody}]
      /\ \A q \in Requests : /\ entry'[q] = IF q = r THEN e ELSE entry[q]
                             /\ since'[q] = IF q = r THEN epoch ELSE since[q]
      /\ \A f \in Evaluations : askedIn'[f] = IF f = e THEN epoch ELSE askedIn[f]
      /\ \A k \in Keys : shared'[k] = IF k = KeyOf[r] THEN e ELSE shared[k]
  BY <1>1, <1>i DEF CacheTypes
<1>4. CacheTypes'
  BY <1>i, <1>1, <1>3 DEF CacheTypes
<1>5. /\ \A j \in Jobs : /\ at[j] # "new" => at'[j] # "new"
                         /\ result[j] # "none" => result'[j] = result[j]
                         /\ result'[j] = "cancelled" => result[j] = "cancelled"
                         /\ j # e /\ j \in Unsettled' => j \in Unsettled
      /\ result'[e] # "cancelled" /\ Shared \subseteq Evaluations /\ Evaluations \subseteq Jobs
  BY <1>1, <1>2 DEF TimelyStep, QuietStep, Unsettled, ServiceInv, JobsHold, Shared, Jobs
<1>6. \A q \in Requests : entry[q] # e
  BY <1>i, <1>2, EvaluationAssumption, <1>1 DEF WaitersHold
<1>7. WaitersHold'
  BY <1>i, <1>1, <1>2, <1>3, <1>5, <1>6 DEF WaitersHold, CacheTypes
<1>8. EpochHolds'
  <2>1. \A k \in Keys : shared'[k] # Nobody =>
            /\ shared'[k] \in Shared /\ at'[shared'[k]] # "new"
            /\ askedIn'[shared'[k]] = epoch /\ result'[shared'[k]] # "cancelled"
    BY <1>i, <1>1, <1>2, <1>3, <1>5 DEF EpochHolds
  <2>2. \A f \in finished : at'[f] # "new" /\ result'[f] # "none"
    BY <1>i, <1>5 DEF EpochHolds, CacheTypes
  <2> QED
    BY <1>i, <1>1, <2>1, <2>2 DEF EpochHolds
<1>9. EvaluationsHold'
  <2>1. NoAnswerFromBefore'
    BY <1>i, <1>1 DEF EvaluationsHold, NoAnswerFromBefore
  <2>2. /\ r \in Waiters(e)'
        /\ \A f \in Shared : f # e => Waiters(f) = Waiters(f)'
    <3>1. entry[r] = Nobody /\ Nobody \notin Evaluations
      BY <1>1, EvaluationAssumption DEF IsNext, New
    <3> QED
      BY <1>3, <1>5, <3>1 DEF Waiters
  <2> QED
    BY <1>i, <1>5, <2>1, <2>2 DEF EvaluationsHold, EvaluationsHaveOwners, Shared
<1> QED
  BY <1>2, <1>4, <1>7, <1>8, <1>9 DEF CacheInv

LEMMA RequestKeeps ==
  ASSUME CacheInv, ServiceInv, NEW r \in Requests, UNCHANGED serviceVars,
         Refuse(r) \/ Hit(r) \/ Join(r) \/ Receive(r) \/ RequestDeadlinePasses(r)
  PROVE  CacheInv'
<1>i. CacheTypes /\ WaitersHold /\ EpochHolds /\ EvaluationsHold
  BY DEF CacheInv
<1>s. UNCHANGED <<at, result>> /\ (\A e : e \in Unsettled' <=> e \in Unsettled) /\ Nobody \notin Evaluations
  BY EvaluationAssumption DEF serviceVars, Unsettled
<1>1. ASSUME NEW what \in {"declined", "accepted"}, Reply(r, what),
             UNCHANGED <<shared, askedIn, finished, epoch>>, cache' \in Seq(Entries),
             entry[r] = Nobody \/ entry[r] \in finished
      PROVE  CacheInv'
  <2>1. /\ entry' \in [Requests -> Evaluations \union {Nobody}] /\ reply' \in [Requests -> Replies]
        /\ since' \in [Requests -> Nat]
        /\ \A q \in Requests : /\ entry'[q] = IF q = r THEN Nobody ELSE entry[q]
                               /\ q # r => since'[q] = since[q]
                               /\ reply'[q] = IF q = r THEN what ELSE reply[q]
    BY <1>1, <1>i, ReplyEffect
  <2>2. CacheTypes' /\ WaitersHold' /\ NoAnswerFromBefore'
    BY <1>i, <1>s, <1>1, <2>1 DEF CacheTypes, WaitersHold, EvaluationsHold, NoAnswerFromBefore
  <2>3. EpochHolds'
    BY <1>i, <1>s, <1>1 DEF EpochHolds, Entries
  <2>4. \A f \in Shared : Waiters(f)' \subseteq Waiters(f) /\ (f \in Unsettled => Waiters(f)' = Waiters(f))
    <3>1. \A f \in Shared : f \in Unsettled => f # entry[r]
      BY <1>i, <1>s, <1>1 DEF EpochHolds, Unsettled, Shared
    <3> QED
      BY <1>s, <2>1, <3>1 DEF Waiters, Shared
  <2>5. EvaluationsHaveOwners'
    BY <1>i, <1>s, <2>4 DEF EvaluationsHold, EvaluationsHaveOwners, Shared
  <2> QED
    BY <2>2, <2>3, <2>5 DEF CacheInv, EvaluationsHold
<1>2. CASE Refuse(r)
  BY <1>1, <1>2, <1>i DEF Refuse, IsNext, New, EpochHolds, Entries
<1>3. CASE Hit(r)
  <2>1. PICK a \in Cached(KeyOf[r]) :
            /\ Reply(r, Accepted(a.askedIn, epoch)) /\ cache' = Append(Uncached(a.key), a)
    BY <1>3 DEF Hit
  <2>2. a \in Entries
    <3>1. cache \in Seq(Entries)
      BY <1>i DEF EpochHolds, Entries
    <3>2. PICK i \in DOMAIN cache : a = cache[i]
      BY DEF Cached, ToSet
    <3> QED
      BY <3>1, <3>2
  <2>3. Accepted(a.askedIn, epoch) = "accepted"
    BY <1>i, <2>2 DEF Accepted, Entries, CacheTypes
  <2>4. cache' \in Seq(Entries)
    <3>1. Uncached(a.key) \in Seq(Entries)
      BY <1>i, UncachedKeeps DEF EpochHolds, Entries
    <3> QED
      BY <2>1, <2>2, <3>1, AppendProperties
  <2> QED
    BY <1>1, <1>3, <2>1, <2>3, <2>4 DEF Hit, IsNext, New
<1>4. CASE Receive(r)
  <2>1. entry[r] \in finished /\ entry[r] # Nobody
    BY <1>4, <1>i, <1>s DEF Receive, CacheTypes
  <2>2. Accepted(askedIn[entry[r]], since[r]) = "accepted"
    BY <1>i, <2>1 DEF WaitersHold, Accepted
  <2>3. Reply(r, "accepted") \/ Reply(r, "declined")
    BY <1>4, <2>2 DEF Receive
  <2>4. UNCHANGED <<shared, askedIn, finished, epoch>> /\ cache' \in Seq(Entries)
    BY <1>4, <1>i DEF Receive, EpochHolds, Entries
  <2> QED
    BY <1>1, <2>1, <2>3, <2>4
<1>5. CASE RequestDeadlinePasses(r)
  <2>1. UNCHANGED <<entry, reply, since, shared, askedIn, finished, cache, epoch>>
    BY <1>5 DEF RequestDeadlinePasses
  <2>2. \A e : Waiters(e)' = Waiters(e)
    BY <2>1 DEF Waiters
  <2> QED
    BY <1>i, <1>s, <2>1, <2>2
       DEF CacheInv, CacheTypes, WaitersHold, EpochHolds, EvaluationsHold, NoAnswerFromBefore,
           EvaluationsHaveOwners
<1>6. CASE Join(r)
  <2> DEFINE e == shared[KeyOf[r]]
  <2>1. /\ e # Nobody /\ entry' = [entry EXCEPT ![r] = e] /\ since' = [since EXCEPT ![r] = epoch]
        /\ entry[r] = Nobody /\ KeyOf[r] \in Keys
        /\ UNCHANGED <<reply, shared, askedIn, finished, cache, epoch>>
    BY <1>6 DEF Join, Subscribe, IsNext, New, Keys
  <2>2. /\ e \in Shared /\ e \in Evaluations /\ at[e] # "new" /\ askedIn[e] = epoch /\ result[e] # "cancelled"
    BY <1>i, <2>1 DEF EpochHolds, Shared
  <2> HIDE DEF e
  <2>3. /\ entry' \in [Requests -> Evaluations \union {Nobody}] /\ since' \in [Requests -> Nat]
        /\ \A q \in Requests : /\ entry'[q] = IF q = r THEN e ELSE entry[q]
                               /\ since'[q] = IF q = r THEN epoch ELSE since[q]
    BY <1>i, <2>1, <2>2 DEF CacheTypes
  <2>4. CacheTypes' /\ WaitersHold' /\ EpochHolds' /\ NoAnswerFromBefore'
    BY <1>i, <1>s, <2>1, <2>2, <2>3
       DEF CacheTypes, WaitersHold, EpochHolds, EvaluationsHold, NoAnswerFromBefore
  <2>5. \A f \in Shared : /\ Waiters(f) \subseteq Waiters(f)'
                          /\ f # e => Waiters(f)' = Waiters(f)
    BY <1>s, <2>1, <2>3 DEF Waiters, Shared
  <2>6. EvaluationsHaveOwners'
    BY <1>i, <1>s, <2>2, <2>5 DEF EvaluationsHold, EvaluationsHaveOwners, Shared
  <2> QED
    BY <2>4, <2>6 DEF CacheInv, EvaluationsHold
<1> QED
  BY <1>2, <1>3, <1>4, <1>5, <1>6

\* An answer that arrives is kept only when it is of this epoch and of an evaluation that no
\* invalidation and no caller gave up.
LEMMA AnsweredKeeps ==
  ASSUME CacheInv, ServiceInv, NEW e \in Shared, Answered(e)
  PROVE  CacheInv' /\ UNCHANGED serviceVars
<1>i. CacheTypes /\ WaitersHold /\ EpochHolds /\ EvaluationsHold
  BY DEF CacheInv
<1>1. /\ result[e] # "none" /\ finished' = finished \union {e} /\ shared' = Unshared(e) /\ Remember(e)
      /\ UNCHANGED <<serviceVars, entry, reply, since, expired, askedIn, epoch>>
      /\ e \in Evaluations /\ e \in Jobs
  BY DEF Answered, Shared, Jobs
<1>2. UNCHANGED <<at, result>> /\ (\A j : j \in Unsettled' <=> j \in Unsettled)
  BY <1>1 DEF serviceVars, Unsettled
<1>3. at[e] # "new"
  BY <1>1 DEF ServiceInv, JobsHold
<1>4. cache' \in Seq(Entries)
  BY <1>i, <1>1, RememberKeeps DEF EpochHolds, Entries
<1>5. /\ shared' \in [Keys -> Evaluations \union {Nobody}]
      /\ \A k \in Keys : shared'[k] # Nobody => shared'[k] = shared[k]
  BY <1>i, <1>1 DEF Unshared, CacheTypes
<1>6. CacheTypes' /\ WaitersHold'
  BY <1>i, <1>1, <1>2, <1>5 DEF CacheTypes, WaitersHold
<1>7. EpochHolds'
  <2>1. \A k \in Keys : shared'[k] # Nobody =>
            /\ shared'[k] \in Shared /\ at'[shared'[k]] # "new"
            /\ askedIn'[shared'[k]] = epoch /\ result'[shared'[k]] # "cancelled"
    BY <1>i, <1>1, <1>2, <1>5 DEF EpochHolds
  <2>2. \A f \in finished' : at'[f] # "new" /\ result'[f] # "none"
    BY <1>i, <1>1, <1>2, <1>3 DEF EpochHolds
  <2> QED
    BY <1>1, <1>4, <2>1, <2>2 DEF EpochHolds, Entries
<1>8. EvaluationsHold'
  <2>1. \A f : Waiters(f)' = Waiters(f)
    BY <1>1 DEF Waiters
  <2> QED
    BY <1>i, <1>1, <1>2, <2>1 DEF EvaluationsHold, NoAnswerFromBefore, EvaluationsHaveOwners
<1> QED
  BY <1>1, <1>6, <1>7, <1>8 DEF CacheInv

LEMMA ExpireKeeps ==
  ASSUME CacheInv, NEW a, Expire(a)
  PROVE  CacheInv' /\ UNCHANGED serviceVars
<1>i. CacheTypes /\ WaitersHold /\ EpochHolds /\ EvaluationsHold
  BY DEF CacheInv
<1>1. /\ cache' = Uncached(a.key)
      /\ UNCHANGED <<serviceVars, entry, reply, since, expired, shared, askedIn, finished, epoch>>
  BY DEF Expire
<1>2. UNCHANGED <<at, result>> /\ (\A j : j \in Unsettled' <=> j \in Unsettled)
  BY <1>1 DEF serviceVars, Unsettled
<1>3. cache' \in Seq(Entries)
  BY <1>i, <1>1, UncachedKeeps DEF EpochHolds, Entries
<1>4. CacheTypes' /\ WaitersHold'
  BY <1>i, <1>1, <1>2 DEF CacheTypes, WaitersHold
<1>5. EpochHolds'
  BY <1>i, <1>1, <1>2, <1>3 DEF EpochHolds, Entries
<1>6. EvaluationsHold'
  <2>1. \A f : Waiters(f)' = Waiters(f)
    BY <1>1 DEF Waiters
  <2> QED
    BY <1>i, <1>1, <1>2, <2>1 DEF EvaluationsHold, NoAnswerFromBefore, EvaluationsHaveOwners
<1> QED
  BY <1>1, <1>4, <1>5, <1>6 DEF CacheInv

\* An invalidation, and a close, abort what is in flight and forget every answer.
LEMMA ClearKeeps ==
  ASSUME ServiceInv, CacheInv, Invalidate \/ Close
  PROVE  ServiceInv' /\ CacheInv' /\ \A j \in Jobs : TimelyStep(j)
<1>1. PICK S :
        /\ Abort(S, "declined") /\ (closed' = closed \/ (closed' = TRUE /\ Jobs \subseteq S))
        /\ Clear /\ epoch' \in {epoch, epoch + 1}
        /\ UNCHANGED <<entry, reply, since, askedIn, finished>>
  <2>1. CASE Invalidate
    <3>1. Abort({shared[k] : k \in Keys}, "declined")
      BY <2>1 DEF Invalidate
    <3>2. Clear /\ epoch' = epoch + 1 /\ UNCHANGED <<closed, entry, reply, since, expired, askedIn, finished>>
      BY <2>1 DEF Invalidate
    <3> QED
      BY <3>1, <3>2
  <2>2. CASE Close
    BY <2>2 DEF Close, CloseService
  <2> QED
    BY <2>1, <2>2
<1>2. /\ ServiceInv'
      /\ \A j \in Jobs :
           /\ TimelyStep(j)
           /\ at'[j] # "new" => at[j] # "new"
           /\ result'[j] = "cancelled" => result[j] = "cancelled"
                  \/ ("declined" = "cancelled" /\ j \in S /\ j \in Unsettled)
           /\ j \in S => j \notin Unsettled'
  BY <1>1, AbortKeeps
<1>3. \A e \in Shared : QuietStep(e)
  BY <1>2 DEF QuietStep, Shared, Jobs
<1>4. /\ cache' = <<>> /\ (\A k \in Keys : shared'[k] = Nobody)
      /\ shared' \in [Keys -> Evaluations \union {Nobody}]
  BY <1>1 DEF Clear
<1>5. CacheInv'
  BY <1>1, <1>2, <1>3, <1>4, JobsMove
<1> QED
  BY <1>2, <1>5

(***************************************************************************)
(* The specification.                                                       *)
(***************************************************************************)

LEMMA InitHolds ==
  ASSUME Init
  PROVE  DecisionInv
<1>1. /\ at = [j \in Jobs |-> "new"] /\ queue = {} /\ active = 0
      /\ result = [j \in Jobs |-> "none"] /\ late = {} /\ until = 0 /\ past = 0
      /\ wake = 0 /\ closed = FALSE
  BY DEF Init, ServiceInit
<1>2. Running = {} /\ IsFiniteSet({}) /\ Cardinality({}) = 0
  <2>1. Running = {}
    BY <1>1, StageNames DEF Running
  <2> QED
    BY <2>1, FS_EmptySet
<1>3. ServiceTypes /\ JobsHold
  <2>1. at \in [Jobs -> Stages] /\ result \in [Jobs -> Statuses]
    BY <1>1, StageNames
  <2>2. queue \subseteq Jobs /\ late \subseteq Jobs /\ closed \in BOOLEAN
    BY <1>1
  <2>3. active \in Nat /\ until \in Nat /\ past \in Nat /\ past <= until /\ wake \in Nat
    BY <1>1
  <2>4. ServiceTypes
    BY <2>1, <2>2, <2>3 DEF ServiceTypes
  <2>5. JobsHold
    BY <1>1 DEF JobsHold
  <2> QED
    BY <2>4, <2>5
<1>4. PoolHolds
  BY <1>1, <1>2, DecisionAssumption DEF PoolHolds
<1>5. /\ entry = [r \in Requests |-> Nobody] /\ reply = [r \in Requests |-> "none"]
      /\ since = [r \in Requests |-> 0] /\ shared = [k \in Keys |-> Nobody]
      /\ askedIn = [e \in Evaluations |-> 0] /\ finished = {} /\ cache = <<>> /\ epoch = 0
  BY DEF Init
<1>6. CacheTypes /\ WaitersHold /\ EpochHolds
  BY <1>5 DEF CacheTypes, WaitersHold, EpochHolds, Replies
<1>7. EvaluationsHold
  <2>1. Evaluations \subseteq Jobs
    BY DEF Jobs
  <2> QED
    BY <1>1, <1>5, <2>1
       DEF EvaluationsHold, NoAnswerFromBefore, EvaluationsHaveOwners, Unsettled
<1> QED
  BY <1>3, <1>4, <1>6, <1>7 DEF DecisionInv, ServiceInv, CacheInv

LEMMA NextKeeps ==
  ASSUME DecisionInv, [Next]_vars
  PROVE  DecisionInv' /\ ((\A j \in Jobs : TimelyStep(j)) \/ UNCHANGED serviceVars)
<1>i. ServiceInv /\ CacheInv
  BY DEF DecisionInv
<1>s. ASSUME UNCHANGED serviceVars
      PROVE  ServiceInv'
  <2>1. UNCHANGED <<at, queue, active, result, late, until, past, wake, closed>>
    BY <1>s DEF serviceVars
  <2> QED
    BY <1>i, <2>1 DEF ServiceInv, ServiceTypes, JobsHold, PoolHolds, Running
<1>c. ASSUME UNCHANGED cacheVars, \A j \in Jobs : TimelyStep(j), \A e \in Shared : QuietStep(e)
      PROVE  CacheInv'
  <2>1. UNCHANGED <<entry, reply, since, askedIn, finished>> /\ UNCHANGED <<cache, shared, epoch>>
    BY <1>c DEF cacheVars
  <2> QED
    BY <1>i, <1>c, <2>1, JobsMove
<1>j. Shared \subseteq Jobs /\ Sources \union Direct \subseteq Jobs /\ Shared \intersect (Sources \union Direct) = {}
  BY DecisionAssumption, EvaluationAssumption DEF Shared, Jobs
<1>1. CASE ServiceStep /\ UNCHANGED cacheVars
  <2>1. ServiceInv' /\ \A i \in Jobs : TimelyStep(i) /\ QuietStep(i)
    BY <1>i, <1>1, ServiceKeeps
  <2> QED
    BY <1>1, <1>c, <1>j, <2>1 DEF DecisionInv
<1>2. ASSUME NEW j \in Sources \union Direct, Submit(j) \/ Cancel(j), UNCHANGED cacheVars
      PROVE  DecisionInv' /\ \A i \in Jobs : TimelyStep(i)
  <2>1. CASE Submit(j)
    <3>1. /\ ServiceInv'
          /\ at[j] = "new" /\ at'[j] # "new" /\ closed' = closed
          /\ \A i \in Jobs : /\ TimelyStep(i)
                             /\ i # j => QuietStep(i)
                             /\ result'[i] = "cancelled" => result[i] = "cancelled"
      BY <1>i, <1>2, <1>j, <2>1, SubmitKeeps
    <3>2. \A e \in Shared : QuietStep(e)
      BY <1>2, <1>j, <3>1
    <3> QED
      BY <1>2, <1>c, <3>1, <3>2 DEF DecisionInv
  <2>2. CASE Cancel(j)
    <3>1. ServiceInv' /\ \A i \in Jobs : TimelyStep(i) /\ QuietStep(i)
      BY <1>i, <1>2, <1>j, <2>2, DeclinedKeeps DEF Cancel
    <3> QED
      BY <1>2, <1>c, <1>j, <3>1 DEF DecisionInv
  <2> QED
    BY <1>2, <2>1, <2>2
<1>3. ASSUME NEW r \in Requests,
             Refuse(r) \/ Hit(r) \/ Join(r) \/ Receive(r) \/ RequestDeadlinePasses(r)
      PROVE  DecisionInv' /\ UNCHANGED serviceVars
  <2>1. UNCHANGED serviceVars
    BY <1>3 DEF Refuse, Hit, Join, Receive, RequestDeadlinePasses
  <2> QED
    BY <1>i, <1>s, <1>3, <2>1, RequestKeeps DEF DecisionInv
<1>4. ASSUME NEW r \in Requests, NEW e \in Evaluations \ Direct, Miss(r, e)
      PROVE  DecisionInv' /\ \A i \in Jobs : TimelyStep(i)
  BY <1>i, <1>4, MissKeeps DEF DecisionInv, Shared
<1>5. ASSUME NEW r \in Requests, Withdraw(r) \/ RequestTimer(r)
      PROVE  DecisionInv' /\ ((\A i \in Jobs : TimelyStep(i)) \/ UNCHANGED serviceVars)
  <2>1. Leave(r)
    BY <1>5 DEF Withdraw, RequestTimer
  <2> QED
    BY <1>i, <2>1, LeaveKeeps DEF DecisionInv
<1>6. ASSUME NEW e \in Evaluations \ Direct, Answered(e)
      PROVE  DecisionInv' /\ UNCHANGED serviceVars
  BY <1>i, <1>s, <1>6, AnsweredKeeps DEF DecisionInv, Shared
<1>7. ASSUME NEW a \in ToSet(cache), Expire(a)
      PROVE  DecisionInv' /\ UNCHANGED serviceVars
  BY <1>i, <1>s, <1>7, ExpireKeeps DEF DecisionInv
<1>8. CASE Invalidate \/ Close
  BY <1>i, <1>8, ClearKeeps DEF DecisionInv
<1>9. CASE UNCHANGED vars
  <2>1. UNCHANGED serviceVars /\ UNCHANGED cacheVars
    BY <1>9 DEF vars
  <2>2. \A i \in Jobs : TimelyStep(i) /\ QuietStep(i)
    <3>1. UNCHANGED <<at, result>>
      BY <2>1 DEF serviceVars
    <3>2. \A i \in Jobs : result[i] = "accepted" => result[i] # "none"
      OBVIOUS
    <3> QED
      BY <3>1, <3>2 DEF TimelyStep, QuietStep
  <2> QED
    BY <1>s, <1>c, <1>j, <2>1, <2>2 DEF DecisionInv
<1> QED
  BY <1>1, <1>2, <1>3, <1>4, <1>5, <1>6, <1>7, <1>8, <1>9 DEF Next

\* The scheduler and the shared evaluations hold what their proofs need in every state.
THEOREM DecisionsCorrect == Spec => []DecisionInv
<1>1. Init => DecisionInv
  BY InitHolds
<1>2. DecisionInv /\ [Next]_vars => DecisionInv'
  BY NextKeeps
<1> QED
  BY <1>1, <1>2, PTL DEF Spec

\* Slots are neither lost nor given twice, the queue keeps its bound, and no job that could
\* run is left in it (pump, run and the cooldown of runtime/decisions/index.mjs).
THEOREM PoolIsDisciplined == Spec => []PoolDiscipline
<1>1. DecisionInv => PoolDiscipline
  <2> SUFFICES ASSUME DecisionInv PROVE PoolDiscipline
    OBVIOUS
  <2>1. PoolHolds /\ JobsHold
    BY DEF DecisionInv, ServiceInv
  <2>2. queue = {j \in Unsettled : at[j] = "queued"}
    BY <2>1 DEF PoolHolds, JobsHold, Unsettled
  <2> QED
    BY <2>1, <2>2 DEF PoolDiscipline, SlotsAndQueueBounded, QueueIsServed, PoolHolds
<1> QED
  BY <1>1, DecisionsCorrect, PTL

\* No request gets an answer from before an invalidation, and an evaluation is worked on only
\* while someone waits for it (createEvaluationAPI of runtime/decisions/evaluation.mjs).
THEOREM EvaluationsAreOwn == Spec => []EvaluationsHold
<1>1. DecisionInv => EvaluationsHold
  BY DEF DecisionInv, CacheInv
<1> QED
  BY <1>1, DecisionsCorrect, PTL

\* A provider is called only for a job that still has time and outside a cooldown, and a job
\* is settled once (check, withAbort, waitForCooldown and finish of runtime/decisions/index.mjs).
THEOREM SettledInTime == Spec => InTime
<1>1. DecisionInv /\ [Next]_vars => [CallsAndResultsInTime]_serviceVars
  <2> SUFFICES ASSUME DecisionInv, [Next]_vars PROVE [CallsAndResultsInTime]_serviceVars
    OBVIOUS
  <2>1. CASE \A j \in Jobs : TimelyStep(j)
    BY <2>1 DEF CallsAndResultsInTime, TimelyStep
  <2>2. CASE UNCHANGED serviceVars
    BY <2>2
  <2> QED
    BY <2>1, <2>2, NextKeeps
<1> QED
  BY <1>1, DecisionsCorrect, PTL DEF Spec, InTime
====
