---- MODULE PipelineProofs ----
(***************************************************************************)
(* The scheduler of the coordinator is type correct, counts every job once, *)
(* and never leaves a slot idle, whatever the number of files, sessions,    *)
(* workflows and waiting places.                                            *)
(***************************************************************************)
EXTENDS PipelineProperties, FiniteSetTheorems, TLAPS

(***************************************************************************)
(* The operators that rewrite the diagrams stay inside their types.         *)
(***************************************************************************)

\* Nodes and relationships are sets of files.
LEMMA ClaimIdFiles == \A c \in ClaimIds : c \subseteq Artifacts
  BY DEF ClaimIds, NodeIds, EdgeIds

LEMMA EmptyGraphType == NoRefs \in References /\ NoClaim \in Claims /\ EmptyGraph \in Graphs
  BY DEF EmptyGraph, Graphs, NoClaim, Claims, NoRefs, References

\* invalidateArtifacts returns a graph.
LEMMA InvalidateType ==
  ASSUME NEW g \in Graphs, NEW observed, NEW obs
  PROVE  Invalidate(g, observed, obs) \in Graphs
<1> DEFINE claim == [c \in ClaimIds |-> InvalidClaim(g[c], observed, obs)]
<1>1. ASSUME NEW c \in ClaimIds PROVE InvalidClaim(g[c], observed, obs) \in Claims
  <2> DEFINE kept == [a \in Artifacts |->
                IF a \in observed /\ Retracts(g[c].refs, a, obs) THEN 0 ELSE g[c].refs[a]]
  <2>1. g[c] \in Claims
    BY <1>1 DEF Graphs
  <2>2. kept \in References
    BY <2>1 DEF Claims, References
  <2>3. [refs |-> kept, current |-> FALSE] \in Claims
    BY <2>2 DEF Claims
  <2> QED BY <2>1, <2>3 DEF InvalidClaim
<1>2. \A c \in ClaimIds : claim[c] \in Claims
  BY <1>1
<1> QED BY <1>2, EmptyGraphType DEF Invalidate, Graphs

\* compileDecision returns a graph.
LEMMA CompileType ==
  ASSUME NEW g \in Graphs, NEW refs \in References, NEW answer
  PROVE  Compile(g, refs, answer) \in Graphs
<1>1. ASSUME NEW c \in ClaimIds
      PROVE [refs |-> [a \in Artifacts |-> IF a \in c THEN refs[a] ELSE 0],
             current |-> TRUE] \in Claims
  BY DEF References, Claims
<1> QED BY <1>1 DEF Compile, Graphs

\* Registered observations are observations.
LEMMA ObservedType ==
  ASSUME TypeOK, NEW a \in Artifacts
  PROVE  Observed(a) \in Observations /\ Withdrawn(a) \in Observations
BY DEF TypeOK, StoreTypeOK, Observed, Withdrawn, Observations, Versions, Statuses

LEMMA CandidatesType ==
  ASSUME TypeOK PROVE Candidates \in References
BY DEF TypeOK, StoreTypeOK, Candidates, References

\* The work kept of jobs is a set of files per session.
LEMMA WithDeferredType ==
  ASSUME TypeOK, NEW jobs
  PROVE  WithDeferred(jobs) \in [Sessions -> SUBSET Artifacts]
BY DEF TypeOK, WithDeferred, Files

\* Evicting sessions leaves their memories typed.
LEMMA RetainType ==
  ASSUME NEW victims, NEW g \in [Sessions -> Graphs],
         NEW d \in [Sessions -> SUBSET Artifacts],
         NEW c \in [Sessions -> SUBSET References],
         session \in [Sessions -> Nat], Retain(victims, g, d, c)
  PROVE  /\ session' \in [Sessions -> Nat]
         /\ graph' \in [Sessions -> Graphs]
         /\ deferred' \in [Sessions -> SUBSET Artifacts]
         /\ completed' \in [Sessions -> SUBSET References]
BY EmptyGraphType DEF Retain

LEMMA RegisterType ==
  ASSUME TypeOK, NEW observed, NEW obs \in [Artifacts -> Observations],
         Register(observed, obs)
  PROVE  /\ known' \in [Artifacts -> Observations]
         /\ session' \in [Sessions -> Nat]
         /\ graph' \in [Sessions -> Graphs]
         /\ deferred' \in [Sessions -> SUBSET Artifacts]
         /\ completed' \in [Sessions -> SUBSET References]
<1> DEFINE changed == {a \in observed : known[a] # obs[a]}
           g == [s \in Sessions |->
                   IF s \in Live THEN Invalidate(graph[s], changed, obs) ELSE graph[s]]
           d == [s \in Sessions |->
                   IF s \in Live /\ paused /\ TransmitSource
                   THEN deferred[s] \union (changed \intersect Supported(graph[s]))
                   ELSE deferred[s]]
<1>1. g \in [Sessions -> Graphs]
  BY InvalidateType DEF TypeOK
<1>2. ASSUME NEW s \in Sessions PROVE Supported(graph[s]) \subseteq Artifacts
  BY DEF Supported, Files
<1>3. d \in [Sessions -> SUBSET Artifacts]
  BY <1>2 DEF TypeOK
<1>4. PICK victims : Retain(victims, g, d, completed)
  BY DEF Register
<1>5. known' \in [Artifacts -> Observations]
  BY DEF Register, TypeOK
<1> HIDE DEF g, d
<1> QED BY <1>1, <1>3, <1>4, <1>5, RetainType DEF TypeOK
----
(***************************************************************************)
(* The queue and the workflows.                                             *)
(***************************************************************************)

\* An operation of the serial queue belongs to a workflow, or to none.
RunOfWorkflow == run.op \in {"refresh", "apply"} <=> run.workflow # 0

SchedulerInv ==
    /\ TypeOK
    /\ PendingAccounting
    /\ WaitsOnlyBehindFullPool
    /\ WaitingJobsReread
    /\ OneOperationPerWorkflow
    /\ RunOfWorkflow

LEMMA WorkflowsFinite == IsFiniteSet(Workflows) /\ 0 \notin Workflows
  BY PipelineAssumption, FS_Interval DEF Workflows

\* The workflows that are not free, counted.
LEMMA BusyFinite ==
  ASSUME NEW jobs
  PROVE  /\ IsFiniteSet(Workflows \ Free(jobs))
         /\ Cardinality(Workflows \ Free(jobs)) \in Nat
<1>1. Workflows \ Free(jobs) \subseteq Workflows
  OBVIOUS
<1> QED BY <1>1, WorkflowsFinite, FS_Subset, FS_CardinalityType

LEMMA StartedType ==
  ASSUME NEW job \in Jobs
  PROVE  /\ Started(job) \in Jobs
         /\ Started(job).phase = IF job.refresh THEN "refresh" ELSE "asked"
BY DEF Started, Jobs, Phases

\* What pumpClassifications does: nothing, or one job moves to a free workflow.
PumpsNothing(waiting, jobs) ==
    /\ waiting = <<>> \/ Free(jobs) = {} \/ Stopped
    /\ queue' = waiting /\ active' = jobs /\ ops' = ops

PumpsOne(waiting, jobs, w) ==
    /\ w \in Free(jobs) /\ waiting # <<>> /\ ~ Stopped
    /\ queue' = Tail(waiting)
    /\ active' = [jobs EXCEPT ![w] = Started(Head(waiting))]
    /\ ops' = IF Head(waiting).refresh
              THEN Append(ops, [op |-> "refresh", workflow |-> w]) ELSE ops

LEMMA PumpCases ==
  ASSUME NEW waiting, NEW jobs, Pump(waiting, jobs)
  PROVE  PumpsNothing(waiting, jobs) \/ \E w \in Workflows : PumpsOne(waiting, jobs, w)
<1>1. CASE waiting = <<>> \/ Free(jobs) = {} \/ Stopped
  BY <1>1 DEF Pump, PumpsNothing
<1>2. CASE ~ (waiting = <<>> \/ Free(jobs) = {} \/ Stopped)
  <2> DEFINE w == CHOOSE v \in Free(jobs) : TRUE
  <2>1. w \in Free(jobs) /\ w \in Workflows
    BY <1>2 DEF Free
  <2>2. PumpsOne(waiting, jobs, w)
    BY <1>2, <2>1 DEF Pump, PumpsOne
  <2> QED BY <2>1, <2>2
<1> QED BY <1>1, <1>2

LEMMA PumpType ==
  ASSUME NEW waiting \in Seq(Jobs), NEW jobs \in [Workflows -> Jobs], Pump(waiting, jobs),
         ops \in Seq(Operations)
  PROVE  queue' \in Seq(Jobs) /\ active' \in [Workflows -> Jobs] /\ ops' \in Seq(Operations)
<1>1. CASE PumpsNothing(waiting, jobs)
  BY <1>1 DEF PumpsNothing
<1>2. ASSUME NEW w \in Workflows, PumpsOne(waiting, jobs, w)
      PROVE queue' \in Seq(Jobs) /\ active' \in [Workflows -> Jobs] /\ ops' \in Seq(Operations)
  <2>1. Started(Head(waiting)) \in Jobs
    BY <1>2, StartedType DEF PumpsOne
  <2>2. [op |-> "refresh", workflow |-> w] \in Operations
    BY DEF Operations
  <2> QED BY <1>2, <2>1, <2>2 DEF PumpsOne
<1> QED BY <1>1, <1>2, PumpCases

\* Starting a waiting job moves it from one count to the other.
LEMMA PumpCounts ==
  ASSUME NEW waiting \in Seq(Jobs), NEW jobs \in [Workflows -> Jobs], Pump(waiting, jobs)
  PROVE  Len(queue') + Cardinality(Busy') = Len(waiting) + Cardinality(Workflows \ Free(jobs))
<1>1. CASE PumpsNothing(waiting, jobs)
  BY <1>1 DEF PumpsNothing, Busy
<1>2. ASSUME NEW w \in Workflows, PumpsOne(waiting, jobs, w)
      PROVE Len(queue') + Cardinality(Busy')
              = Len(waiting) + Cardinality(Workflows \ Free(jobs))
  <2>1. active'[w].phase # "free"
    BY <1>2, StartedType DEF PumpsOne
  <2>2. \A v \in Workflows \ {w} : active'[v] = jobs[v]
    BY <1>2 DEF PumpsOne
  <2>3. Busy' = (Workflows \ Free(jobs)) \union {w}
    BY <2>1, <2>2 DEF Busy, Free
  <2>4. w \notin Workflows \ Free(jobs)
    BY <1>2 DEF PumpsOne
  <2>5. Cardinality(Busy') = Cardinality(Workflows \ Free(jobs)) + 1
    BY <2>3, <2>4, BusyFinite, FS_AddElement
  <2>6. Len(waiting) \in Nat /\ Len(queue') = Len(waiting) - 1
    BY <1>2 DEF PumpsOne
  <2>7. Cardinality(Workflows \ Free(jobs)) \in Nat
    BY BusyFinite
  <2> QED BY <2>5, <2>6, <2>7
<1> QED BY <1>1, <1>2, PumpCases
----
(***************************************************************************)
(* The running operation.                                                   *)
(***************************************************************************)
LEMMA NoRunType == NoRun \in Runs /\ NoWork \in [Sessions -> SUBSET Artifacts]
  BY EmptyGraphType DEF NoRun, NoWork, Runs

LEMMA CaptureType ==
  ASSUME NEW op \in {"started", "requested", "tool", "again", "reconcile", "revalidate",
                     "refresh", "apply", "flush", "resume"},
         NEW files \in SUBSET Artifacts
  PROVE  /\ Capture(op, files) \in Runs
         /\ Capture(op, files).op = op /\ Capture(op, files).workflow = 0
BY NoRunType DEF Capture, NoRun, Runs

LEMMA DispatchingType ==
  ASSUME TypeOK, NEW groups, groups \subseteq Groups, NEW refs \in References
  PROVE  /\ Dispatching(groups, refs) \in Runs
         /\ Dispatching(groups, refs).workflow = 0
         /\ Dispatching(groups, refs).op \in {"none", run.op}
<1> DEFINE useful == {group \in groups : \E a \in group.files : refs[a] # 0}
<1>1. useful \subseteq Groups
  OBVIOUS
<1>2. run.op \in {"none", "started", "requested", "tool", "again", "reconcile", "revalidate",
                  "refresh", "apply", "flush", "resume"}
  BY DEF TypeOK, Runs
<1>3. [NoRun EXCEPT !.op = run.op, !.step = "dispatch", !.refs = refs, !.groups = useful] \in Runs
  <2> HIDE DEF useful
  <2> QED BY <1>1, <1>2, NoRunType DEF NoRun, Runs
<1> QED BY <1>2, <1>3, NoRunType DEF Dispatching, NoRun

LEMMA GroupsOfType == \A s, sets : GroupsOf(s, sets) \subseteq Groups
  BY DEF GroupsOf

\* A step that leaves the scheduler alone.
SchedulerParts ==
    /\ PendingAccounting
    /\ WaitsOnlyBehindFullPool
    /\ WaitingJobsReread
    /\ OneOperationPerWorkflow
    /\ RunOfWorkflow

LEMMA SchedulerFrame ==
  ASSUME SchedulerInv, UNCHANGED <<schedulerVars, modeVars, ops>>,
         run'.workflow \in {0, run.workflow},
         run'.workflow # 0 => run'.op = run.op,
         RunOfWorkflow'
  PROVE  SchedulerParts'
<1>1. UNCHANGED <<queue, active, pending, ops, paused, closed, available>>
  BY DEF schedulerVars, modeVars
<1>2. PendingAccounting' /\ WaitsOnlyBehindFullPool' /\ WaitingJobsReread'
  BY <1>1 DEF SchedulerInv, PendingAccounting, WaitsOnlyBehindFullPool, WaitingJobsReread,
              Busy, Free, Stopped
<1>3. OneOperationPerWorkflow'
  BY <1>1 DEF SchedulerInv, OneOperationPerWorkflow
<1> QED BY <1>2, <1>3 DEF SchedulerParts

----
(***************************************************************************)
(* Init, and the steps that leave the scheduler alone.                      *)
(***************************************************************************)
LEMMA InitScheduler == Init => SchedulerInv
<1> SUFFICES ASSUME Init PROVE SchedulerInv
  OBVIOUS
<1>1. NoJob \in Jobs
  BY EmptyGraphType DEF NoJob, Jobs, Phases, Results
<1>2. TypeOK
  <2>1. StoreTypeOK
    BY StoreAssumption DEF Init, StoreInit, StoreTypeOK, Unseen, Statuses, Versions, AnyLineage
  <2>2. known \in [Artifacts -> Observations]
    BY DEF Init, Unknown, Observations, Statuses
  <2>3. graph \in [Sessions -> Graphs] /\ deferred \in [Sessions -> SUBSET Artifacts]
        /\ completed \in [Sessions -> SUBSET References]
    BY EmptyGraphType, NoRunType DEF Init
  <2>4. queue \in Seq(Jobs) /\ active \in [Workflows -> Jobs] /\ ops \in Seq(Operations)
    BY <1>1 DEF Init
  <2>5. /\ session \in [Sessions -> Nat] /\ created \in Nat
        /\ selected \in Sessions \union {NoSession}
        /\ pending \in Nat /\ epoch \in Nat
        /\ paused \in BOOLEAN /\ closed \in BOOLEAN /\ available \in BOOLEAN
        /\ lineageWork \in SUBSET Artifacts /\ resumeScheduled \in BOOLEAN /\ run \in Runs
    BY NoRunType DEF Init
  <2> QED BY <2>1, <2>2, <2>3, <2>4, <2>5 DEF TypeOK
<1>3. Busy = {}
  BY DEF Init, Busy, Free, NoJob
<1>4. PendingAccounting
  BY <1>3, FS_EmptySet DEF PendingAccounting, Init
<1>5. WaitsOnlyBehindFullPool /\ WaitingJobsReread /\ OneOperationPerWorkflow /\ RunOfWorkflow
  BY DEF Init, WaitsOnlyBehindFullPool, WaitingJobsReread, OneOperationPerWorkflow,
         RunOfWorkflow, NoRun
<1> QED BY <1>2, <1>4, <1>5 DEF SchedulerInv

LEMMA EnsureSessionType ==
  ASSUME TypeOK, NEW s \in Sessions, EnsureSession(s)
  PROVE  /\ created' \in Nat
         /\ session' \in [Sessions -> Nat]
         /\ graph' \in [Sessions -> Graphs]
         /\ deferred' \in [Sessions -> SUBSET Artifacts]
         /\ completed' \in [Sessions -> SUBSET References]
BY EmptyGraphType DEF TypeOK, EnsureSession

LEMMA IngestScheduler ==
  ASSUME SchedulerInv, NEW s \in Sessions, NEW kind \in {"started", "requested", "tool"},
         NEW named \in SUBSET Artifacts, NEW found \in SUBSET Artifacts,
         Ingest(s, kind, named, found)
  PROVE  SchedulerInv'
<1> DEFINE files == named \union found \union (IF kind = "started" THEN KnownPresent ELSE {})
<1>1. TypeOK /\ files \in SUBSET Artifacts
  BY DEF SchedulerInv, KnownPresent
<1>2. Capture(kind, files) \in Runs
      /\ Capture(kind, files).op = kind /\ Capture(kind, files).workflow = 0
  BY <1>1, CaptureType
<1>3. run' = [Capture(kind, files) EXCEPT !.owner = s, !.named = named]
  BY DEF Ingest
<1>4. run' \in Runs /\ run'.workflow = 0 /\ run'.op = kind
  <2> HIDE DEF files
  <2> QED BY <1>2, <1>3 DEF Runs
<1>5. selected' \in Sessions \union {NoSession}
  BY <1>1 DEF Ingest, TypeOK
<1>6. EnsureSession(s) /\ UNCHANGED <<storeVars, known, schedulerVars, modeVars, lineageWork,
                                     resumeScheduled, ops>>
  BY DEF Ingest
<1>7. TypeOK'
  BY <1>1, <1>4, <1>5, <1>6, EnsureSessionType
     DEF TypeOK, StoreTypeOK, storeVars, schedulerVars, modeVars
<1>8. SchedulerParts'
  BY <1>4, <1>6, SchedulerFrame DEF RunOfWorkflow
<1> QED BY <1>7, <1>8 DEF SchedulerInv, SchedulerParts

LEMMA CaptureOneType ==
  ASSUME TypeOK, NEW a \in Artifacts, CaptureOne(a)
  PROVE  records' \in [Artifacts -> [gen : Nat, seen : Versions]]
<1>1. Inspect(a) \in Versions
  BY StoreAssumption DEF TypeOK, StoreTypeOK, Inspect, Versions, AnyLineage, Statuses
<1>2. NextGeneration(a) \in Nat
  BY StoreAssumption DEF TypeOK, StoreTypeOK, NextGeneration
<1> QED BY <1>1, <1>2 DEF TypeOK, StoreTypeOK, CaptureOne

\* A step that only moves the running operation on, to one of none or of the
\* same kind, keeps the types and the scheduler.
LEMMA RunStep ==
  ASSUME SchedulerInv, run' \in Runs, resumeScheduled' \in BOOLEAN,
         run'.workflow = 0, run'.op \notin {"refresh", "apply"},
         lineageWork' \in SUBSET Artifacts,
         UNCHANGED <<storeVars, known, sessionVars, memoryVars, schedulerVars, modeVars, ops>>
  PROVE  SchedulerInv'
<1>1. TypeOK'
  BY DEF SchedulerInv, TypeOK, StoreTypeOK, storeVars, sessionVars, memoryVars,
         schedulerVars, modeVars
<1>2. SchedulerParts'
  BY SchedulerFrame DEF RunOfWorkflow
<1> QED BY <1>1, <1>2 DEF SchedulerInv, SchedulerParts

LEMMA RequestScheduler ==
  ASSUME SchedulerInv, NEW files \in SUBSET Artifacts, NEW again \in SUBSET Artifacts,
         Reconcile(files, again) \/ Revalidate(files)
  PROVE  SchedulerInv'
<1>1. CASE Reconcile(files, again)
  <2>1. run' = Capture("reconcile", files \union again)
    BY <1>1 DEF Reconcile
  <2>2. run' \in Runs /\ run'.workflow = 0 /\ run'.op \notin {"refresh", "apply"}
    BY <2>1, CaptureType
  <2> QED BY <1>1, <2>2, RunStep DEF Reconcile, SchedulerInv, TypeOK
<1>2. CASE Revalidate(files)
  <2>1. run' = Capture("revalidate", files)
    BY <1>2 DEF Revalidate
  <2>2. run' \in Runs /\ run'.workflow = 0 /\ run'.op \notin {"refresh", "apply"}
    BY <2>1, CaptureType
  <2> QED BY <1>2, <2>2, RunStep DEF Revalidate, SchedulerInv, TypeOK
<1> QED BY <1>1, <1>2

LEMMA CaptureFileScheduler ==
  ASSUME SchedulerInv, NEW a \in Artifacts, CaptureFile(a)
  PROVE  SchedulerInv'
<1>1. TypeOK /\ records' \in [Artifacts -> [gen : Nat, seen : Versions]]
  BY CaptureOneType DEF CaptureFile, SchedulerInv
<1>2. run' \in Runs /\ run'.workflow = run.workflow /\ run'.op = run.op
  BY <1>1 DEF CaptureFile, TypeOK, Runs
<1>3. TypeOK'
  BY <1>1, <1>2 DEF CaptureFile, TypeOK, StoreTypeOK, sessionVars, memoryVars,
                    schedulerVars, modeVars
<1>4. SchedulerParts'
  BY <1>2, SchedulerFrame DEF CaptureFile, RunOfWorkflow, SchedulerInv
<1> QED BY <1>3, <1>4 DEF SchedulerInv, SchedulerParts

LEMMA RegisterSeenScheduler ==
  ASSUME SchedulerInv, RegisterSeen
  PROVE  SchedulerInv'
<1> DEFINE obs == [a \in Artifacts |-> Observed(a)]
<1>1. TypeOK /\ obs \in [Artifacts -> Observations]
  BY ObservedType DEF SchedulerInv
<1>2. Register(run.seen, obs)
  BY DEF RegisterSeen
<1>3. /\ known' \in [Artifacts -> Observations]
      /\ session' \in [Sessions -> Nat]
      /\ graph' \in [Sessions -> Graphs]
      /\ deferred' \in [Sessions -> SUBSET Artifacts]
      /\ completed' \in [Sessions -> SUBSET References]
  <2> HIDE DEF obs
  <2> QED BY <1>1, <1>2, RegisterType
<1>4. {a \in run.seen : known[a] # Observed(a)} \in SUBSET Artifacts
  BY <1>1 DEF TypeOK, Runs
<1>5. run' \in Runs /\ run'.workflow = run.workflow /\ run'.op = run.op
  BY <1>1, <1>4 DEF RegisterSeen, TypeOK, Runs
<1>6. TypeOK'
  BY <1>1, <1>3, <1>5 DEF RegisterSeen, TypeOK, StoreTypeOK, storeVars, schedulerVars, modeVars
<1>7. SchedulerParts'
  BY <1>5, SchedulerFrame DEF RegisterSeen, RunOfWorkflow, SchedulerInv
<1> QED BY <1>6, <1>7 DEF SchedulerInv, SchedulerParts

\* The four decisions that end in the dispatch of groups, or in nothing.
LEMMA DecideScheduler ==
  ASSUME SchedulerInv,
         \/ DecideNothing \/ DecideEvent \/ DecideReconcile \/ DecideFlush
         \/ \E again \in Rereads : DecideTool(again)
  PROVE  SchedulerInv'
<1>0. TypeOK /\ Candidates \in References /\ lineageWork \in SUBSET Artifacts
      /\ resumeScheduled \in BOOLEAN
  BY CandidatesType DEF SchedulerInv, TypeOK
<1>1. CASE DecideNothing
  BY <1>0, <1>1, NoRunType, RunStep DEF DecideNothing, Proceed, NoRun
<1>2. CASE DecideEvent
  <2> DEFINE refs == IF run.op = "started" THEN Candidates ELSE run.refs
             groups == GroupsOf(run.owner, Chunks(run.named) \union
                                    {{a} : a \in Files(refs) \ run.named})
  <2>1. refs \in References /\ groups \subseteq Groups /\ run.op \notin {"refresh", "apply"}
    BY <1>0, <1>2, GroupsOfType DEF TypeOK, Runs, DecideEvent, Deciding
  <2>2. Proceed(Dispatching(groups, refs))
        /\ UNCHANGED <<storeVars, known, sessionVars, memoryVars, schedulerVars, modeVars,
                       lineageWork, ops>>
    BY <1>2 DEF DecideEvent
  <2> HIDE DEF refs, groups
  <2>3. run' = Dispatching(groups, refs) /\ resumeScheduled' \in BOOLEAN
    BY <2>2 DEF Proceed
  <2> QED BY <1>0, <2>1, <2>2, <2>3, DispatchingType, RunStep
<1>3. CASE DecideReconcile
  <2> DEFINE groups == GroupsOf(selected,
                            Chunks(run.changed \union (lineageWork \intersect run.seen)))
             next == IF selected = NoSession THEN NoRun ELSE Dispatching(groups, Candidates)
  <2>1. groups \subseteq Groups /\ run.op \notin {"refresh", "apply"}
    BY <1>3, GroupsOfType DEF DecideReconcile, Deciding
  <2>2. Proceed(next) /\ lineageWork' = lineageWork \ run.seen
        /\ UNCHANGED <<storeVars, known, sessionVars, memoryVars, schedulerVars, modeVars, ops>>
    BY <1>3 DEF DecideReconcile
  <2> HIDE DEF groups
  <2>3. next \in Runs /\ next.workflow = 0 /\ next.op \notin {"refresh", "apply"}
    BY <1>0, <2>1, NoRunType, DispatchingType DEF NoRun
  <2> HIDE DEF next
  <2>4. run' = next /\ resumeScheduled' \in BOOLEAN /\ lineageWork' \in SUBSET Artifacts
    BY <1>0, <2>2 DEF Proceed
  <2> QED BY <2>2, <2>3, <2>4, RunStep
<1>4. CASE DecideFlush
  <2> DEFINE groups == UNION {FlushGroups(s) : s \in Live}
  <2>1. groups \subseteq Groups
    BY GroupsOfType DEF FlushGroups
  <2>2. run.op \notin {"refresh", "apply"}
    BY <1>4 DEF DecideFlush, Deciding
  <2>3. Proceed(Dispatching(groups, Candidates))
        /\ UNCHANGED <<storeVars, known, sessionVars, memoryVars, schedulerVars, modeVars,
                       lineageWork, ops>>
    BY <1>4 DEF DecideFlush
  <2> HIDE DEF groups
  <2>4. run' = Dispatching(groups, Candidates) /\ resumeScheduled' \in BOOLEAN
    BY <2>3 DEF Proceed
  <2> QED BY <1>0, <2>1, <2>2, <2>3, <2>4, DispatchingType, RunStep
<1>5. ASSUME NEW again \in Rereads, DecideTool(again) PROVE SchedulerInv'
  <2>1. again \subseteq Artifacts
    BY <1>5 DEF Rereads, Tracked
  <2>2. run' = [run EXCEPT !.op = "again", !.step = "capture", !.todo = again,
                           !.seen = {}, !.changed = {}, !.refs = Candidates]
        /\ run.op = "tool"
    BY <1>5 DEF DecideTool, Deciding
  <2>3. run.workflow = 0
    BY <2>2 DEF SchedulerInv, RunOfWorkflow
  <2>4. run' \in Runs /\ run'.workflow = 0 /\ run'.op \notin {"refresh", "apply"}
    BY <1>0, <2>1, <2>2, <2>3 DEF TypeOK, Runs
  <2> QED BY <1>0, <1>5, <2>4, RunStep DEF DecideTool
<1> QED BY <1>1, <1>2, <1>3, <1>4, <1>5
----
(***************************************************************************)
(* The operations that workflows wait for.                                  *)
(***************************************************************************)
PhaseFor(op) == IF op = "refresh" THEN "refresh" ELSE "answered"

\* OneOperationPerWorkflow of given jobs, operations and running operation.
OperationsMatch(jobs, o, r) ==
    /\ \A i, j \in DOMAIN o : i # j /\ o[i].workflow # 0 => o[i].workflow # o[j].workflow
    /\ \A i \in DOMAIN o : o[i].workflow # 0 =>
        /\ o[i].workflow # r.workflow
        /\ jobs[o[i].workflow].phase = PhaseFor(o[i].op)
    /\ r.workflow # 0 => jobs[r.workflow].phase = PhaseFor(r.op)

LEMMA OperationsMatchMeaning == OneOperationPerWorkflow <=> OperationsMatch(active, ops, run)
  BY DEF OneOperationPerWorkflow, OperationsMatch, PhaseFor

LEMMA OperationsMatchMeaningNext ==
  OneOperationPerWorkflow' <=> OperationsMatch(active', ops', run')
BY DEF OneOperationPerWorkflow, OperationsMatch, PhaseFor

\* A workflow whose phase waits for nothing appears in no operation.
LEMMA NoOperationOf ==
  ASSUME NEW jobs, NEW o, NEW r, OperationsMatch(jobs, o, r), NEW w \in Workflows,
         jobs[w].phase \notin {"refresh", "answered"}
  PROVE  (\A i \in DOMAIN o : o[i].workflow # w) /\ r.workflow # w
BY WorkflowsFinite DEF OperationsMatch, PhaseFor

\* Such a workflow may change its job.
LEMMA OperationsMatchJob ==
  ASSUME NEW jobs, NEW o \in Seq(Operations), NEW r \in Runs, OperationsMatch(jobs, o, r),
         NEW w \in Workflows, \A i \in DOMAIN o : o[i].workflow # w, r.workflow # w,
         NEW next, \A v \in Workflows : v # w => next[v] = jobs[v]
  PROVE  OperationsMatch(next, o, r)
<1>1. \A i \in DOMAIN o : o[i].workflow \in Workflows \union {0}
  BY DEF Operations
<1>2. r.workflow \in Workflows \union {0}
  BY DEF Runs
<1> QED BY <1>1, <1>2 DEF OperationsMatch

LEMMA OperationsMatchAppend ==
  ASSUME NEW jobs, NEW o \in Seq(Operations), NEW r, OperationsMatch(jobs, o, r),
         NEW op \in Operations, NEW next, next = Append(o, op),
         op.workflow # 0 =>
            /\ jobs[op.workflow].phase = PhaseFor(op.op)
            /\ \A i \in DOMAIN o : o[i].workflow # op.workflow
            /\ r.workflow # op.workflow
  PROVE  OperationsMatch(jobs, next, r)
<1>1. DOMAIN o = 1..Len(o) /\ Len(o) \in Nat /\ DOMAIN next = 1..(Len(o) + 1)
  OBVIOUS
<1>2. \A i \in DOMAIN o : next[i] = o[i]
  OBVIOUS
<1>3. next[Len(o) + 1] = op
  OBVIOUS
<1>4. \A i \in DOMAIN next : i \in DOMAIN o \/ i = Len(o) + 1
  BY <1>1
<1>5. \A i, j \in DOMAIN next :
        i # j /\ next[i].workflow # 0 => next[i].workflow # next[j].workflow
  BY <1>2, <1>3, <1>4 DEF OperationsMatch
<1>6. \A i \in DOMAIN next : next[i].workflow # 0 =>
        /\ next[i].workflow # r.workflow
        /\ jobs[next[i].workflow].phase = PhaseFor(next[i].op)
  BY <1>2, <1>3, <1>4 DEF OperationsMatch
<1> QED BY <1>5, <1>6 DEF OperationsMatch

\* The first operation starts, for its workflow, or is over at once.
LEMMA OperationsMatchStart ==
  ASSUME NEW jobs, NEW o \in Seq(Operations), o # <<>>, NEW r, OperationsMatch(jobs, o, r),
         NEW next, next.workflow = 0 \/ (next.workflow = Head(o).workflow /\ next.op = Head(o).op)
  PROVE  /\ OperationsMatch(jobs, Tail(o), next)
         /\ Head(o).workflow # 0 =>
                /\ jobs[Head(o).workflow].phase = PhaseFor(Head(o).op)
                /\ \A i \in DOMAIN Tail(o) : Tail(o)[i].workflow # Head(o).workflow
<1>1. Len(o) \in Nat \ {0} /\ DOMAIN Tail(o) = 1..(Len(o) - 1) /\ DOMAIN o = 1..Len(o)
  OBVIOUS
<1>2. \A i \in DOMAIN Tail(o) : Tail(o)[i] = o[i + 1] /\ i + 1 \in DOMAIN o /\ i + 1 # 1
  BY <1>1
<1>3. Head(o) = o[1] /\ 1 \in DOMAIN o
  BY <1>1
<1>4. \A i, j \in DOMAIN Tail(o) : i # j => i + 1 # j + 1
  BY <1>1
<1>5. \A i, j \in DOMAIN Tail(o) :
        i # j /\ Tail(o)[i].workflow # 0 => Tail(o)[i].workflow # Tail(o)[j].workflow
  BY <1>2, <1>4 DEF OperationsMatch
<1>6. Head(o).workflow # 0 => jobs[Head(o).workflow].phase = PhaseFor(Head(o).op)
  BY <1>3 DEF OperationsMatch
<1>7. \A i \in DOMAIN Tail(o) : Tail(o)[i].workflow # 0 =>
        /\ Tail(o)[i].workflow # Head(o).workflow
        /\ jobs[Tail(o)[i].workflow].phase = PhaseFor(Tail(o)[i].op)
  BY <1>2, <1>3 DEF OperationsMatch
<1>8. Head(o).workflow # 0 =>
        \A i \in DOMAIN Tail(o) : Tail(o)[i].workflow # Head(o).workflow
  BY <1>7
<1> QED BY <1>5, <1>6, <1>7, <1>8 DEF OperationsMatch

\* What a call of pumpClassifications keeps, whatever the caller did before it.
LEMMA PumpScheduler ==
  ASSUME TypeOK, RunOfWorkflow',
         NEW waiting \in Seq(Jobs), NEW jobs \in [Workflows -> Jobs], Pump(waiting, jobs),
         UNCHANGED modeVars, run' \in Runs, OperationsMatch(jobs, ops, run'),
         pending' = Len(waiting) + Cardinality(Workflows \ Free(jobs)),
         waiting # <<>> => ~ Stopped,
         \A v, w \in Free(jobs) : v = w \/ Len(waiting) <= 1,
         \A i \in DOMAIN waiting : waiting[i].refresh \/ (Len(waiting) = 1 /\ Free(jobs) # {})
  PROVE  SchedulerParts'
<1>1. PendingAccounting'
  BY PumpCounts DEF PendingAccounting
<1>2. Stopped' = Stopped
  BY DEF Stopped, modeVars
<1>3. WaitsOnlyBehindFullPool' /\ WaitingJobsReread'
  <2>1. CASE PumpsNothing(waiting, jobs)
    BY <1>2, <2>1 DEF PumpsNothing, WaitsOnlyBehindFullPool, WaitingJobsReread
  <2>2. ASSUME NEW w \in Workflows, PumpsOne(waiting, jobs, w)
        PROVE WaitsOnlyBehindFullPool' /\ WaitingJobsReread'
    <3>1. queue' = Tail(waiting) /\ waiting # <<>> /\ w \in Free(jobs) /\ ~ Stopped
      BY <2>2 DEF PumpsOne
    <3>2. Len(waiting) \in Nat \ {0} /\ DOMAIN waiting = 1..Len(waiting)
          /\ Len(queue') = Len(waiting) - 1 /\ DOMAIN queue' = 1..(Len(waiting) - 1)
      BY <3>1
    <3>3. \A i \in DOMAIN queue' : i + 1 \in DOMAIN waiting /\ queue'[i] = waiting[i + 1]
                                   /\ Len(waiting) # 1
      BY <3>1, <3>2
    <3>4. WaitingJobsReread'
      BY <3>3 DEF WaitingJobsReread
    <3>5. ASSUME queue' # <<>> PROVE Free(active') = {}
      <4>1. Len(waiting) > 1
        BY <3>1, <3>2, <3>5
      <4>2. \A v \in Free(jobs) : v = w
        BY <3>1, <3>2, <4>1
      <4>3. active'[w].phase # "free"
        BY <2>2, StartedType DEF PumpsOne
      <4>4. \A v \in Workflows \ {w} : active'[v] = jobs[v]
        BY <2>2 DEF PumpsOne
      <4> QED BY <4>2, <4>3, <4>4 DEF Free
    <3> QED BY <1>2, <3>1, <3>4, <3>5 DEF WaitsOnlyBehindFullPool, Free
  <2> QED BY <2>1, <2>2, PumpCases
<1>4. OperationsMatch(active', ops', run')
  <2>1. CASE PumpsNothing(waiting, jobs)
    BY <2>1 DEF PumpsNothing
  <2>2. ASSUME NEW w \in Workflows, PumpsOne(waiting, jobs, w)
        PROVE OperationsMatch(active', ops', run')
    <3>1. jobs[w].phase \notin {"refresh", "answered"}
      BY <2>2 DEF PumpsOne, Free
    <3>2. (\A i \in DOMAIN ops : ops[i].workflow # w) /\ run'.workflow # w
      BY <3>1, NoOperationOf
    <3>3. \A v \in Workflows : v # w => active'[v] = jobs[v]
      BY <2>2 DEF PumpsOne
    <3>4. OperationsMatch(active', ops, run')
      BY <3>2, <3>3, OperationsMatchJob DEF TypeOK
    <3>5. CASE Head(waiting).refresh
      <4> DEFINE op == [op |-> "refresh", workflow |-> w]
      <4>1. op \in Operations /\ ops' = Append(ops, op)
        BY <2>2, <3>5 DEF PumpsOne, Operations
      <4>2. active'[w].phase = PhaseFor("refresh")
        BY <2>2, <3>5, StartedType DEF PumpsOne, PhaseFor
      <4>3. op.workflow = w /\ op.op = "refresh"
        OBVIOUS
      <4> HIDE DEF op
      <4> QED BY <3>2, <3>4, <4>1, <4>2, <4>3, OperationsMatchAppend DEF TypeOK
    <3>6. CASE ~ Head(waiting).refresh
      BY <2>2, <3>4, <3>6 DEF PumpsOne
    <3> QED BY <3>5, <3>6
  <2> QED BY <2>1, <2>2, PumpCases
<1> QED BY <1>1, <1>3, <1>4, OperationsMatchMeaningNext DEF SchedulerParts
----
(***************************************************************************)
(* Scheduling a group.                                                      *)
(***************************************************************************)
LEMMA NewJobType ==
  ASSUME TypeOK, NEW group \in Groups
  PROVE  NewJob(group) \in Jobs /\ NewJob(group).refresh = (Free(active) = {})
BY DEF TypeOK, Runs, Groups, NewJob, Jobs, References, Phases, Results

LEMMA DispatchNextType ==
  ASSUME SchedulerInv, NEW group, DispatchNext(group)
  PROVE  /\ run' \in Runs /\ resumeScheduled' \in BOOLEAN /\ group \in Groups
         /\ run'.workflow \in {0, run.workflow}
         /\ run'.workflow # 0 => run'.op = run.op
         /\ RunOfWorkflow'
<1>1. TypeOK /\ RunOfWorkflow
  BY DEF SchedulerInv
<1>2. group \in Groups /\ resumeScheduled' \in BOOLEAN
  BY <1>1 DEF TypeOK, Runs, DispatchNext, Proceed
<1>3. run' = NoRun \/ run' = [run EXCEPT !.groups = run.groups \ {group}]
  BY DEF DispatchNext, Proceed
<1>4. CASE run' = NoRun
  BY <1>2, <1>4, NoRunType DEF NoRun, RunOfWorkflow
<1>5. CASE run' = [run EXCEPT !.groups = run.groups \ {group}]
  BY <1>1, <1>2, <1>5 DEF TypeOK, Runs, RunOfWorkflow
<1> QED BY <1>2, <1>3, <1>4, <1>5

\* A skipped, deferred or dropped group leaves the queue as it was.
LEMMA LeftOutScheduler ==
  ASSUME SchedulerInv, NEW group,
         SkipGroup(group) \/ DeferGroup(group) \/ DropGroup(group)
  PROVE  SchedulerInv'
<1>1. TypeOK /\ DispatchNext(group)
  BY DEF SchedulerInv, SkipGroup, DeferGroup, DropGroup
<1>2. /\ run' \in Runs /\ resumeScheduled' \in BOOLEAN
      /\ run'.workflow \in {0, run.workflow}
      /\ run'.workflow # 0 => run'.op = run.op
      /\ RunOfWorkflow'
  BY <1>1, DispatchNextType
<1>3. deferred' \in [Sessions -> SUBSET Artifacts]
  BY <1>1, WithDeferredType DEF TypeOK, SkipGroup, DeferGroup, DropGroup
<1>4. UNCHANGED <<storeVars, known, sessionVars, graph, completed, modeVars, lineageWork,
                  schedulerVars, ops>>
  BY DEF SkipGroup, DeferGroup, DropGroup, DispatchNext
<1>5. TypeOK'
  BY <1>1, <1>2, <1>3, <1>4 DEF TypeOK, StoreTypeOK, storeVars, sessionVars, schedulerVars,
                                modeVars
<1>6. SchedulerParts'
  BY <1>2, <1>4, SchedulerFrame
<1> QED BY <1>5, <1>6 DEF SchedulerInv, SchedulerParts

\* A scheduled group waits, replaces a waiting job, or starts at once.
LEMMA ScheduledScheduler ==
  ASSUME SchedulerInv, NEW group, SupersedeGroup(group) \/ QueueGroup(group)
  PROVE  SchedulerInv'
<1> DEFINE job == NewJob(group)
<1>1. TypeOK /\ DispatchNext(group) /\ ~ Stopped
  BY DEF SchedulerInv, SupersedeGroup, QueueGroup, Schedulable
<1>2. /\ run' \in Runs /\ resumeScheduled' \in BOOLEAN /\ group \in Groups
      /\ run'.workflow \in {0, run.workflow}
      /\ run'.workflow # 0 => run'.op = run.op
      /\ RunOfWorkflow'
  BY <1>1, DispatchNextType
<1>3. UNCHANGED <<storeVars, known, sessionVars, graph, completed, modeVars, lineageWork,
                  deferred>>
  BY DEF SupersedeGroup, QueueGroup, DispatchNext
<1>4. job \in Jobs /\ job.refresh = (Free(active) = {})
  BY <1>1, <1>2, NewJobType
<1>5. OperationsMatch(active, ops, run')
  BY <1>2, OperationsMatchMeaning DEF SchedulerInv, OperationsMatch
<1>6. queue \in Seq(Jobs) /\ active \in [Workflows -> Jobs] /\ ops \in Seq(Operations)
      /\ pending = Len(queue) + Cardinality(Workflows \ Free(active))
      /\ (queue # <<>> => Free(active) = {})
      /\ \A i \in DOMAIN queue : queue[i].refresh
  BY DEF SchedulerInv, TypeOK, PendingAccounting, WaitsOnlyBehindFullPool, WaitingJobsReread, Busy
<1>7. CASE SupersedeGroup(group)
  <2>1. PICK i \in DOMAIN queue :
            Pump([queue EXCEPT ![i] = [job EXCEPT !.refresh = TRUE]], active)
    BY <1>7 DEF SupersedeGroup, Superseded
  <2> DEFINE waiting == [queue EXCEPT ![i] = [job EXCEPT !.refresh = TRUE]]
  <2>2. [job EXCEPT !.refresh = TRUE] \in Jobs /\ [job EXCEPT !.refresh = TRUE].refresh
    <3> HIDE DEF job
    <3> QED BY <1>4 DEF Jobs
  <2> HIDE DEF job
  <2>3. waiting \in Seq(Jobs) /\ Len(waiting) = Len(queue) /\ DOMAIN waiting = DOMAIN queue
        /\ queue # <<>>
    BY <1>6, <2>2
  <2>4. \A k \in DOMAIN waiting : waiting[k].refresh
    BY <1>6, <2>2
  <2>5. pending' = pending
    BY <1>7 DEF SupersedeGroup
  <2>6. Pump(waiting, active)
    BY <2>1
  <2> HIDE DEF waiting
  <2>7. queue' \in Seq(Jobs) /\ active' \in [Workflows -> Jobs] /\ ops' \in Seq(Operations)
    BY <1>6, <2>3, <2>6, PumpType
  <2>8. TypeOK'
    BY <1>1, <1>2, <1>3, <2>5, <2>7 DEF TypeOK, StoreTypeOK, storeVars, sessionVars, modeVars
  <2>9. SchedulerParts'
    BY <1>1, <1>2, <1>3, <1>5, <1>6, <2>3, <2>4, <2>5, <2>6, PumpScheduler
  <2> QED BY <2>8, <2>9 DEF SchedulerInv, SchedulerParts
<1>8. CASE QueueGroup(group)
  <2> DEFINE waiting == Append(queue, job)
  <2>1. Pump(waiting, active) /\ pending' = pending + 1
    BY <1>8 DEF QueueGroup
  <2> HIDE DEF job
  <2>2. waiting \in Seq(Jobs) /\ Len(waiting) = Len(queue) + 1 /\ Len(queue) \in Nat
    BY <1>4, <1>6
  <2>3. \A k \in DOMAIN waiting : waiting[k] = job \/ (k \in DOMAIN queue /\ waiting[k] = queue[k])
    BY <1>4, <1>6
  <2>4. Free(active) = {} \/ (queue = <<>> /\ Len(waiting) = 1)
    BY <1>6, <2>2
  <2>5. \A k \in DOMAIN waiting : waiting[k].refresh \/ (Len(waiting) = 1 /\ Free(active) # {})
    BY <1>4, <1>6, <2>3, <2>4
  <2>6. \A v, w \in Free(active) : v = w \/ Len(waiting) <= 1
    BY <2>4
  <2>0. Cardinality(Workflows \ Free(active)) \in Nat
    BY BusyFinite
  <2>7. pending' \in Nat /\ pending' = Len(waiting) + Cardinality(Workflows \ Free(active))
    BY <1>6, <2>0, <2>1, <2>2
  <2> HIDE DEF waiting
  <2>8. queue' \in Seq(Jobs) /\ active' \in [Workflows -> Jobs] /\ ops' \in Seq(Operations)
    BY <1>6, <2>1, <2>2, PumpType
  <2>9. TypeOK'
    BY <1>1, <1>2, <1>3, <2>7, <2>8 DEF TypeOK, StoreTypeOK, storeVars, sessionVars, modeVars
  <2>10. SchedulerParts'
    BY <1>1, <1>2, <1>3, <1>5, <1>6, <2>1, <2>2, <2>5, <2>6, <2>7, PumpScheduler
  <2> QED BY <2>9, <2>10 DEF SchedulerInv, SchedulerParts
<1> QED BY <1>7, <1>8
----
(***************************************************************************)
(* Pause, checkout changes, session selection, close, edits.                *)
(***************************************************************************)
\* Draining the queue counts every waiting job out.
LEMMA DrainScheduler ==
  ASSUME SchedulerInv, queue' = <<>>, pending' = Drained, Free(active') = Free(active),
         OperationsMatch(active', ops', run'), RunOfWorkflow'
  PROVE  SchedulerParts' /\ pending' \in Nat
<1>0. Cardinality(Busy) \in Nat
  BY BusyFinite DEF Busy
<1>1. Cardinality(Busy) \in Nat /\ Len(queue) \in Nat
  BY <1>0 DEF SchedulerInv, TypeOK
<1>2. pending' = Cardinality(Busy) /\ Busy' = Busy
  BY <1>1 DEF SchedulerInv, PendingAccounting, Drained, Busy, Free
<1> QED BY <1>1, <1>2, OperationsMatchMeaningNext
        DEF SchedulerParts, PendingAccounting, WaitsOnlyBehindFullPool, WaitingJobsReread

LEMMA AllAbortedType ==
  ASSUME TypeOK
  PROVE  /\ AllAborted \in [Workflows -> Jobs]
         /\ Free(AllAborted) = Free(active)
         /\ \A o, r : OperationsMatch(active, o, r) /\ o \in Seq(Operations) /\ r \in Runs
                        => OperationsMatch(AllAborted, o, r)
<1>1. \A w \in Workflows :
        AllAborted[w] \in Jobs /\ AllAborted[w].phase = active[w].phase
  BY DEF TypeOK, AllAborted, Jobs
<1>2. AllAborted \in [Workflows -> Jobs]
  BY <1>1 DEF AllAborted
<1>3. ASSUME NEW o \in Seq(Operations), NEW r \in Runs, OperationsMatch(active, o, r)
      PROVE OperationsMatch(AllAborted, o, r)
  <2>1. \A i \in DOMAIN o : o[i].workflow \in Workflows \union {0}
    BY DEF Operations
  <2>2. r.workflow \in Workflows \union {0}
    BY DEF Runs
  <2> QED BY <1>1, <1>3, <2>1, <2>2 DEF OperationsMatch
<1>4. Free(AllAborted) = Free(active)
  BY <1>1 DEF Free
<1> QED BY <1>2, <1>3, <1>4

LEMMA ControlScheduler ==
  ASSUME SchedulerInv, Control \/ Edits
  PROVE  SchedulerInv'
<1>1. TypeOK /\ RunOfWorkflow /\ OperationsMatch(active, ops, run)
  BY OperationsMatchMeaning DEF SchedulerInv
<1>2. CASE Pause
  <2>1. UNCHANGED <<storeVars, known, sessionVars, graph, completed, active, closed, available,
                    epoch, lineageWork, resumeScheduled, ops, run>>
        /\ paused' = TRUE /\ queue' = <<>> /\ pending' = Drained
    BY <1>2 DEF Pause
  <2>2. deferred' \in [Sessions -> SUBSET Artifacts]
    BY <1>1, <1>2, WithDeferredType DEF Pause, TypeOK
  <2>3. SchedulerParts' /\ pending' \in Nat
    BY <1>1, <2>1, DrainScheduler DEF RunOfWorkflow
  <2>4. TypeOK'
    BY <1>1, <2>1, <2>2, <2>3 DEF TypeOK, StoreTypeOK, storeVars, sessionVars
  <2> QED BY <2>3, <2>4 DEF SchedulerInv, SchedulerParts
<1>3. CASE Resume
  <2> DEFINE op == [op |-> "resume", workflow |-> 0]
  <2>1. /\ UNCHANGED <<storeVars, known, sessionVars, memoryVars, schedulerVars, closed,
                       available, epoch, lineageWork, run>>
        /\ paused /\ paused' = FALSE /\ resumeScheduled' = TRUE
        /\ ops' = ops \/ ops' = Append(ops, op)
    BY <1>3 DEF Resume
  <2>2. op \in Operations /\ op.workflow = 0
    BY DEF Operations
  <2> HIDE DEF op
  <2>0. ops \in Seq(Operations)
    BY <1>1 DEF TypeOK
  <2>3. ops' \in Seq(Operations)
    BY <2>0, <2>1, <2>2
  <2>4. OperationsMatch(active, ops', run)
    BY <1>1, <2>0, <2>1, <2>2, OperationsMatchAppend
  <2>5. queue = <<>>
    BY <2>1 DEF SchedulerInv, WaitsOnlyBehindFullPool, Stopped
  <2>6. TypeOK'
    BY <1>1, <2>1, <2>3 DEF TypeOK, StoreTypeOK, storeVars, sessionVars, memoryVars,
                            schedulerVars
  <2>7. SchedulerParts'
    BY <2>1, <2>4, <2>5, OperationsMatchMeaningNext
       DEF SchedulerInv, SchedulerParts, PendingAccounting, WaitsOnlyBehindFullPool,
           WaitingJobsReread, RunOfWorkflow, schedulerVars, Busy, Free
  <2> QED BY <2>6, <2>7 DEF SchedulerInv, SchedulerParts
<1>4. CASE Close
  <2>1. UNCHANGED <<storeVars, known, sessionVars, graph, completed, paused, available, epoch,
                    lineageWork, resumeScheduled, ops, run>>
        /\ closed' = TRUE /\ queue' = <<>> /\ pending' = Drained /\ deferred' = NoWork
        /\ active' = AllAborted
    BY <1>4 DEF Close
  <2>2. SchedulerParts' /\ pending' \in Nat
    <3>1. OperationsMatch(active', ops', run') /\ Free(active') = Free(active)
      BY <1>1, <2>1, AllAbortedType DEF TypeOK
    <3>2. RunOfWorkflow'
      BY <1>1, <2>1 DEF RunOfWorkflow
    <3> QED BY <2>1, <3>1, <3>2, DrainScheduler
  <2>3. TypeOK'
    BY <1>1, <2>1, <2>2, AllAbortedType, NoRunType
       DEF TypeOK, StoreTypeOK, storeVars, sessionVars
  <2> QED BY <2>2, <2>3 DEF SchedulerInv, SchedulerParts
<1>5. ASSUME NEW s \in Sessions, SelectSession(s) PROVE SchedulerInv'
  <2>1. UNCHANGED <<storeVars, known, session, created, memoryVars, schedulerVars, modeVars,
                    lineageWork, resumeScheduled, ops, run>> /\ selected' = s
    BY <1>5 DEF SelectSession
  <2>2. TypeOK'
    BY <1>1, <2>1 DEF TypeOK, StoreTypeOK, storeVars, memoryVars, schedulerVars, modeVars
  <2>3. SchedulerParts'
    BY <1>1, <2>1, SchedulerFrame DEF RunOfWorkflow
  <2> QED BY <2>2, <2>3 DEF SchedulerInv, SchedulerParts
<1>6. CASE Edits
  <2>1. PICK a \in Artifacts : EditFile(a) /\
            UNCHANGED <<known, sessionVars, memoryVars, schedulerVars, modeVars, lineageWork,
                        resumeScheduled, ops, run>>
    BY <1>6 DEF Edits
  <2>2. StoreTypeOK'
    BY <1>1, <2>1, StoreAssumption DEF TypeOK, StoreTypeOK, EditFile, Versions
  <2>3. TypeOK'
    BY <1>1, <2>1, <2>2 DEF TypeOK, sessionVars, memoryVars, schedulerVars, modeVars
  <2>4. SchedulerParts'
    BY <1>1, <2>1, SchedulerFrame DEF RunOfWorkflow
  <2> QED BY <2>3, <2>4 DEF SchedulerInv, SchedulerParts
<1> QED BY <1>2, <1>3, <1>4, <1>5, <1>6 DEF Control

\* Withdrawing every observation, as a checkout change does.
LEMMA WithdrawType ==
  ASSUME TypeOK, NEW id \in Lineages, NEW usable \in BOOLEAN,
         ObserveLineage(id, usable)
  PROVE  /\ known' \in [Artifacts -> Observations]
         /\ session' \in [Sessions -> Nat]
         /\ graph' \in [Sessions -> Graphs]
         /\ deferred' \in [Sessions -> SUBSET Artifacts]
         /\ completed' \in [Sessions -> SUBSET References]
         /\ lineageWork' \in SUBSET Artifacts
<1>1. CASE id = lineageId
  BY <1>1, WithDeferredType DEF ObserveLineage, TypeOK
<1>2. CASE id # lineageId
  <2> DEFINE withdrawn == [a \in Artifacts |-> Withdrawn(a)]
             differ == {a \in Tracked : known[a] # withdrawn[a]}
             g == [s \in Sessions |-> Invalidate(graph[s], differ, withdrawn)]
             d == [s \in Sessions |->
                     IF s \in Live /\ paused /\ TransmitSource
                     THEN deferred[s] \union (differ \intersect Supported(graph[s]))
                     ELSE deferred[s]]
             c == [s \in Sessions |-> {}]
  <2>1. PICK victims : Retain(victims, g, d, c)
    BY <1>2 DEF ObserveLineage
  <2>2. known' = [a \in Artifacts |-> IF a \in Tracked THEN withdrawn[a] ELSE known[a]]
        /\ lineageWork' = lineageWork \union {a \in Artifacts : known[a].gen # 0}
    BY <1>2 DEF ObserveLineage
  <2>3. withdrawn \in [Artifacts -> Observations]
    BY ObservedType
  <2>4. known' \in [Artifacts -> Observations] /\ lineageWork' \in SUBSET Artifacts
    BY <2>2, <2>3 DEF TypeOK
  <2>5. g \in [Sessions -> Graphs]
    BY InvalidateType DEF TypeOK
  <2>6. \A s \in Sessions : Supported(graph[s]) \subseteq Artifacts
    BY DEF Supported, Files
  <2>7. d \in [Sessions -> SUBSET Artifacts] /\ c \in [Sessions -> SUBSET References]
    BY <2>6 DEF TypeOK
  <2> HIDE DEF g, d, c
  <2> QED BY <2>1, <2>4, <2>5, <2>7, RetainType DEF TypeOK
<1> QED BY <1>1, <1>2

LEMMA LineageScheduler ==
  ASSUME SchedulerInv, NEW id \in Lineages, NEW usable \in BOOLEAN,
         ObserveLineage(id, usable)
  PROVE  SchedulerInv'
<1> DEFINE op == [op |-> "flush", workflow |-> 0]
<1>1. TypeOK /\ RunOfWorkflow /\ OperationsMatch(active, ops, run)
  BY OperationsMatchMeaning DEF SchedulerInv
<1>2. /\ available' = usable /\ lineageId' = id
      /\ UNCHANGED <<disk, records, created, selected, paused, closed, resumeScheduled, run>>
      /\ ops' = ops \/ ops' = Append(ops, op)
  BY DEF ObserveLineage
<1>3. op \in Operations /\ op.workflow = 0
  BY DEF Operations
<1> HIDE DEF op
<1>4. ops \in Seq(Operations) /\ ops' \in Seq(Operations) /\ run \in Runs
      /\ active \in [Workflows -> Jobs]
  <2>1. ops \in Seq(Operations) /\ run \in Runs /\ active \in [Workflows -> Jobs]
    BY <1>1 DEF TypeOK
  <2> QED BY <1>2, <1>3, <2>1
<1>5. OperationsMatch(active, ops', run')
  BY <1>1, <1>2, <1>3, <1>4, OperationsMatchAppend
<1>6. RunOfWorkflow'
  BY <1>1, <1>2 DEF RunOfWorkflow
<1>7. epoch' \in Nat /\ queue' \in Seq(Jobs) /\ active' \in [Workflows -> Jobs]
      /\ pending' \in Nat /\ SchedulerParts'
  <2>1. CASE id # lineageId \/ ~ usable
    <3>1. epoch' = epoch + 1 /\ active' = AllAborted /\ queue' = <<>> /\ pending' = Drained
      BY <2>1 DEF ObserveLineage
    <3>2. OperationsMatch(active', ops', run') /\ Free(active') = Free(active)
          /\ active' \in [Workflows -> Jobs]
      BY <1>1, <1>2, <1>4, <1>5, <3>1, AllAbortedType
    <3>3. SchedulerParts' /\ pending' \in Nat
      BY <1>6, <3>1, <3>2, DrainScheduler
    <3> QED BY <1>1, <3>1, <3>2, <3>3 DEF TypeOK
  <2>2. CASE ~ (id # lineageId \/ ~ usable)
    <3>1. UNCHANGED <<epoch, queue, active, pending>>
      BY <2>2 DEF ObserveLineage, schedulerVars
    <3>2. Stopped' => Stopped
      BY <1>2, <2>2 DEF Stopped
    <3>3. WaitsOnlyBehindFullPool' /\ WaitingJobsReread' /\ PendingAccounting'
      BY <3>1, <3>2 DEF SchedulerInv, WaitsOnlyBehindFullPool, WaitingJobsReread,
                        PendingAccounting, Free, Busy
    <3> QED BY <1>1, <1>5, <1>6, <3>1, <3>3, OperationsMatchMeaningNext
            DEF TypeOK, SchedulerParts
  <2> QED BY <2>1, <2>2
<1>8. StoreTypeOK'
  BY <1>1, <1>2 DEF TypeOK, StoreTypeOK, AnyLineage
<1>9. TypeOK'
  BY <1>1, <1>2, <1>4, <1>7, <1>8, WithdrawType DEF TypeOK
<1> QED BY <1>7, <1>9 DEF SchedulerInv, SchedulerParts
----
(***************************************************************************)
(* The operations the coordinator appended: flush, refresh, apply.          *)
(***************************************************************************)
\* A workflow that is not free and stays so: the counts do not move.
LEMMA WorkflowStep ==
  ASSUME SchedulerInv, NEW w \in Workflows, NEW job \in Jobs,
         active[w].phase # "free", job.phase # "free",
         active' = [active EXCEPT ![w] = job],
         UNCHANGED <<queue, pending, modeVars>>,
         OperationsMatch(active', ops', run'), RunOfWorkflow'
  PROVE  SchedulerParts' /\ active' \in [Workflows -> Jobs]
<1>1. active \in [Workflows -> Jobs]
  BY DEF SchedulerInv, TypeOK
<1>2. Free(active') = Free(active)
  BY <1>1 DEF Free
<1>3. Busy' = Busy /\ (Stopped' <=> Stopped)
  BY <1>2 DEF Busy, Free, Stopped, modeVars
<1>4. PendingAccounting' /\ WaitsOnlyBehindFullPool' /\ WaitingJobsReread'
  BY <1>2, <1>3 DEF SchedulerInv, PendingAccounting, WaitsOnlyBehindFullPool,
                    WaitingJobsReread, Free
<1> QED BY <1>1, <1>4, OperationsMatchMeaningNext DEF SchedulerParts

\* The first operation is taken off the serial queue.
LEMMA StartingFacts ==
  ASSUME SchedulerInv, ops # <<>>
  PROVE  /\ Head(ops) \in Operations /\ Tail(ops) \in Seq(Operations)
         /\ Head(ops).op \in {"refresh", "apply"} <=> Worker # 0
         /\ Worker \in Workflows \union {0}
         /\ Worker # 0 => active[Worker].phase = PhaseFor(Head(ops).op)
         /\ Worker # 0 => \A i \in DOMAIN Tail(ops) : Tail(ops)[i].workflow # Worker
<1>1. ops \in Seq(Operations) /\ OperationsMatch(active, ops, run)
  BY OperationsMatchMeaning DEF SchedulerInv, TypeOK
<1>2. Head(ops) \in Operations /\ Tail(ops) \in Seq(Operations)
  BY <1>1
<1>3. NoRun.workflow = 0
  BY DEF NoRun
<1> QED BY <1>1, <1>2, <1>3, OperationsMatchStart, WorkflowsFinite DEF Operations, Worker

LEMMA StartFlushScheduler ==
  ASSUME SchedulerInv, StartFlush
  PROVE  SchedulerInv'
<1>1. TypeOK /\ OperationsMatch(active, ops, run) /\ ops # <<>> /\ run = NoRun
      /\ Head(ops).op \in {"flush", "resume"}
  BY OperationsMatchMeaning DEF SchedulerInv, StartFlush, Starting, Quiet
<1>2. Worker = 0 /\ Tail(ops) \in Seq(Operations) /\ ops \in Seq(Operations)
  BY <1>1, StartingFacts DEF TypeOK
<1>3. /\ ops' = Tail(ops)
      /\ UNCHANGED <<storeVars, known, sessionVars, graph, completed, schedulerVars, modeVars,
                     lineageWork>>
  BY DEF StartFlush
<1>4. /\ run' \in Runs /\ run'.workflow = 0 /\ run'.op \notin {"refresh", "apply"}
      /\ deferred' \in [Sessions -> SUBSET Artifacts] /\ resumeScheduled' \in BOOLEAN
  <2>1. CASE Stopped \/ Deferring = {}
    <3>1. run' = run /\ deferred' = deferred
          /\ resumeScheduled' = (resumeScheduled /\ Head(ops).op # "resume")
      BY <2>1 DEF StartFlush
    <3>2. resumeScheduled' \in BOOLEAN
      BY <3>1
    <3>3. run'.workflow = 0 /\ run'.op \notin {"refresh", "apply"}
      BY <1>1, <3>1 DEF NoRun
    <3> QED BY <1>1, <3>1, <3>2, <3>3 DEF TypeOK
  <2>2. CASE ~ (Stopped \/ Deferring = {})
    <3> DEFINE needed == UNION {deferred[s] : s \in Deferring}
               related == UNION UNION {RelatedFiles(s, needed) : s \in Deferring}
               files == (needed \union related) \intersect Tracked
    <3>1. files \in SUBSET Artifacts
      BY DEF Tracked
    <3>2. run' = [Capture(Head(ops).op, files) EXCEPT !.work = deferred]
          /\ deferred' = NoWork /\ resumeScheduled' = resumeScheduled
      BY <2>2 DEF StartFlush
    <3> HIDE DEF files
    <3>3. Capture(Head(ops).op, files) \in Runs
          /\ Capture(Head(ops).op, files).op = Head(ops).op
          /\ Capture(Head(ops).op, files).workflow = 0
      BY <1>1, <3>1, CaptureType
    <3>4. run' \in Runs /\ run'.workflow = 0 /\ run'.op \notin {"refresh", "apply"}
      BY <1>1, <3>2, <3>3 DEF TypeOK, Runs
    <3> QED BY <1>1, <3>2, <3>4, NoRunType DEF TypeOK
  <2> QED BY <2>1, <2>2
<1>5. OperationsMatch(active', ops', run')
  BY <1>1, <1>2, <1>3, <1>4, OperationsMatchStart DEF schedulerVars
<1>6. SchedulerParts'
  BY <1>3, <1>4, <1>5, OperationsMatchMeaningNext
     DEF SchedulerInv, SchedulerParts, PendingAccounting, WaitsOnlyBehindFullPool,
         WaitingJobsReread, RunOfWorkflow, schedulerVars, modeVars, Busy, Free, Stopped
<1>7. TypeOK'
  BY <1>1, <1>2, <1>3, <1>4 DEF TypeOK, StoreTypeOK, storeVars, sessionVars, schedulerVars,
                                modeVars
<1> QED BY <1>6, <1>7 DEF SchedulerInv, SchedulerParts

LEMMA LeftType ==
  ASSUME TypeOK, NEW w \in Workflows
  PROVE  /\ Left(w) = [active EXCEPT ![w] = Left(w)[w]]
         /\ Left(w)[w] \in Jobs /\ Left(w)[w].phase = "finished"
BY DEF TypeOK, Left, Jobs, Phases, Results

\* The end of an operation for a workflow, which leaves it finished.
LEMMA LeaveScheduler ==
  ASSUME SchedulerInv, NEW w \in Workflows, active[w].phase \in {"refresh", "answered"},
         active' = Left(w), run' = NoRun, ops' \in Seq(Operations),
         \A i \in DOMAIN ops' : ops'[i].workflow # w,
         OperationsMatch(active, ops', NoRun),
         resumeScheduled' \in BOOLEAN,
         session' \in [Sessions -> Nat], graph' \in [Sessions -> Graphs],
         deferred' \in [Sessions -> SUBSET Artifacts],
         completed' \in [Sessions -> SUBSET References],
         UNCHANGED <<storeVars, known, created, selected, queue, pending, modeVars, lineageWork>>
  PROVE  SchedulerInv'
<1> DEFINE job == Left(w)[w]
<1>1. TypeOK /\ active \in [Workflows -> Jobs]
  BY DEF SchedulerInv, TypeOK
<1>2. active' = [active EXCEPT ![w] = job] /\ job \in Jobs /\ job.phase = "finished"
  BY <1>1, LeftType
<1>3. NoRun.workflow = 0 /\ NoRun.op = "none"
  BY DEF NoRun
<1>4. RunOfWorkflow'
  BY <1>3 DEF RunOfWorkflow
<1> HIDE DEF job
<1>5. \A v \in Workflows : v # w => active'[v] = active[v]
  BY <1>1, <1>2
<1>6. OperationsMatch(active', ops', run')
  BY <1>3, <1>5, NoRunType, OperationsMatchJob, WorkflowsFinite
<1>7. SchedulerParts' /\ active' \in [Workflows -> Jobs]
  BY <1>2, <1>4, <1>6, WorkflowStep
<1>8. TypeOK'
  BY <1>1, <1>7, NoRunType DEF TypeOK, StoreTypeOK, storeVars, modeVars
<1> QED BY <1>7, <1>8 DEF SchedulerInv, SchedulerParts

\* Leave and LeaveDeferred, as taken at the start of an operation.
LEMMA StartWorkflowScheduler ==
  ASSUME SchedulerInv, StartRefresh \/ StartApply
  PROVE  SchedulerInv'
<1>1. TypeOK /\ OperationsMatch(active, ops, run) /\ ops # <<>> /\ run = NoRun
      /\ Head(ops).op \in {"refresh", "apply"} /\ ops \in Seq(Operations)
      /\ ops' = Tail(ops)
  BY OperationsMatchMeaning DEF SchedulerInv, TypeOK, StartRefresh, StartApply, Starting, Quiet
<1>2. Worker \in Workflows /\ Worker # 0 /\ Tail(ops) \in Seq(Operations)
      /\ active[Worker].phase = PhaseFor(Head(ops).op)
      /\ \A i \in DOMAIN Tail(ops) : Tail(ops)[i].workflow # Worker
  BY <1>1, StartingFacts
<1>3. active[Worker].phase \in {"refresh", "answered"}
  BY <1>2 DEF PhaseFor
<1>4. CASE Leave(Worker, NoRun) \/ LeaveDeferred(Worker, NoRun)
  <2>1. /\ active' = Left(Worker) /\ run' = NoRun
        /\ UNCHANGED <<storeVars, known, session, created, selected, graph, completed, queue,
                       pending, modeVars, lineageWork>>
    BY <1>4 DEF Leave, LeaveDeferred, Proceed, sessionVars, memoryVars
  <2>2. resumeScheduled' = (resumeScheduled /\ ~ (run.op = "resume" /\ NoRun = NoRun))
    BY <1>4 DEF Leave, LeaveDeferred, Proceed
  <2>3. resumeScheduled' \in BOOLEAN
    BY <2>2
  <2>4. deferred' \in [Sessions -> SUBSET Artifacts]
    BY <1>1, <1>4, WithDeferredType DEF TypeOK, Leave, LeaveDeferred, memoryVars
  <2>5. NoRun.workflow = 0
    BY DEF NoRun
  <2>6. OperationsMatch(active, ops', NoRun)
    BY <1>1, <2>5, OperationsMatchStart
  <2>7. session' \in [Sessions -> Nat] /\ graph' \in [Sessions -> Graphs]
        /\ completed' \in [Sessions -> SUBSET References]
    BY <1>1, <2>1 DEF TypeOK
  <2> QED BY <1>1, <1>2, <1>3, <2>1, <2>3, <2>4, <2>6, <2>7, LeaveScheduler
<1>5. CASE CaptureFor(Files(active[Worker].refs))
  <2> DEFINE files == Files(active[Worker].refs)
  <2>1. files \in SUBSET Artifacts
    BY DEF Files
  <2> HIDE DEF files
  <2>2. Capture(Head(ops).op, files) \in Runs
        /\ Capture(Head(ops).op, files).op = Head(ops).op
    BY <1>1, <2>1, CaptureType
  <2>3. run' = [Capture(Head(ops).op, files) EXCEPT !.workflow = Worker]
        /\ UNCHANGED <<storeVars, known, sessionVars, memoryVars, schedulerVars, modeVars,
                       lineageWork, resumeScheduled>>
    BY <1>5 DEF CaptureFor, files
  <2>4. run' \in Runs /\ run'.workflow = Worker /\ run'.op = Head(ops).op
    BY <1>2, <2>2, <2>3 DEF Runs
  <2>5. OperationsMatch(active', ops', run')
    BY <1>1, <2>3, <2>4, OperationsMatchStart DEF schedulerVars, Worker
  <2>6. SchedulerParts'
    BY <1>1, <1>2, <2>3, <2>4, <2>5, OperationsMatchMeaningNext
       DEF SchedulerInv, SchedulerParts, PendingAccounting, WaitsOnlyBehindFullPool,
           WaitingJobsReread, RunOfWorkflow, schedulerVars, modeVars, Busy, Free, Stopped
  <2>7. TypeOK'
    BY <1>1, <1>2, <2>3, <2>4 DEF TypeOK, StoreTypeOK, storeVars, sessionVars, memoryVars,
                                  schedulerVars, modeVars
  <2> QED BY <2>6, <2>7 DEF SchedulerInv, SchedulerParts
<1> QED BY <1>4, <1>5 DEF StartRefresh, StartApply

\* The workflow of a running refresh or apply.
LEMMA RunningWorkflow ==
  ASSUME SchedulerInv, run.op \in {"refresh", "apply"}
  PROVE  /\ run.workflow \in Workflows
         /\ active[run.workflow].phase = PhaseFor(run.op)
         /\ active[run.workflow] \in Jobs
         /\ \A i \in DOMAIN ops : ops[i].workflow # run.workflow
         /\ OperationsMatch(active, ops, NoRun)
<1>1. OperationsMatch(active, ops, run) /\ run \in Runs /\ run.workflow # 0
      /\ active \in [Workflows -> Jobs]
  BY OperationsMatchMeaning DEF SchedulerInv, TypeOK, RunOfWorkflow
<1>2. run.workflow \in Workflows
  BY <1>1 DEF Runs
<1>3. NoRun.workflow = 0
  BY DEF NoRun
<1> QED BY <1>1, <1>2, <1>3 DEF OperationsMatch

LEMMA DecideRefreshScheduler ==
  ASSUME SchedulerInv, DecideRefresh
  PROVE  SchedulerInv'
<1> DEFINE w == run.workflow
<1>1. TypeOK /\ run.op = "refresh" /\ run.op \in {"refresh", "apply"}
      /\ active \in [Workflows -> Jobs] /\ ops \in Seq(Operations)
  BY DEF SchedulerInv, TypeOK, DecideRefresh, Deciding
<1>2. w \in Workflows /\ active[w].phase = "refresh" /\ active[w] \in Jobs
      /\ (\A i \in DOMAIN ops : ops[i].workflow # w) /\ OperationsMatch(active, ops, NoRun)
  BY <1>1, RunningWorkflow DEF PhaseFor
<1>3. PICK phase \in {"finished", "asked"} :
        active' = [active EXCEPT ![w] = [Refreshed EXCEPT !.phase = phase]]
  BY DEF DecideRefresh
<1> DEFINE job == [Refreshed EXCEPT !.phase = phase]
<1>4. job \in Jobs /\ job.phase = phase
  BY <1>1, <1>2, CandidatesType DEF Refreshed, Jobs, Phases
<1>5. /\ run' = NoRun
      /\ UNCHANGED <<storeVars, known, sessionVars, graph, completed, queue, pending, modeVars,
                     lineageWork, ops>>
      /\ resumeScheduled' = (resumeScheduled /\ ~ (run.op = "resume" /\ NoRun = NoRun))
  BY DEF DecideRefresh, Proceed
<1>6. deferred' \in [Sessions -> SUBSET Artifacts]
  BY <1>1, WithDeferredType DEF DecideRefresh, TypeOK
<1>7. resumeScheduled' \in BOOLEAN
  BY <1>5
<1> HIDE DEF job
<1>8. active' = [active EXCEPT ![w] = job]
  BY <1>3 DEF job
<1>9. NoRun.workflow = 0 /\ NoRun.op = "none"
  BY DEF NoRun
<1>10. OperationsMatch(active', ops', run')
  <2>1. \A v \in Workflows : v # w => active'[v] = active[v]
    BY <1>1, <1>8
  <2> QED BY <1>1, <1>2, <1>5, <1>9, <2>1, NoRunType, OperationsMatchJob, WorkflowsFinite
<1>11. RunOfWorkflow'
  BY <1>5, <1>9 DEF RunOfWorkflow
<1>12. SchedulerParts' /\ active' \in [Workflows -> Jobs]
  BY <1>2, <1>4, <1>5, <1>8, <1>10, <1>11, WorkflowStep
<1>13. TypeOK'
  BY <1>1, <1>5, <1>6, <1>7, <1>12, NoRunType DEF TypeOK, StoreTypeOK, storeVars, sessionVars,
                                                  modeVars
<1> QED BY <1>12, <1>13 DEF SchedulerInv, SchedulerParts

\* An accepted answer, the judgment kept of it and the evictions it causes.
LEMMA AcceptType ==
  ASSUME TypeOK, NEW answer, AcceptAnswer(answer), active[run.workflow] \in Jobs
  PROVE  /\ session' \in [Sessions -> Nat]
         /\ graph' \in [Sessions -> Graphs]
         /\ deferred' \in [Sessions -> SUBSET Artifacts]
         /\ completed' \in [Sessions -> SUBSET References]
<1> DEFINE job == active[run.workflow]
           g == [graph EXCEPT ![job.owner] = Compile(@, job.refs, answer)]
<1>1. job.refs \in References
  BY DEF Jobs
<1>2. g \in [Sessions -> Graphs]
  <2>1. \A s \in Sessions : Compile(graph[s], job.refs, answer) \in Graphs
    BY <1>1, CompileType DEF TypeOK
  <2> QED BY <2>1 DEF TypeOK
<1>3. PICK victims \in Overflows(g) :
        /\ session' = [s \in Sessions |-> IF s \in victims THEN 0 ELSE session[s]]
        /\ graph' = [s \in Sessions |-> IF s \in victims THEN EmptyGraph ELSE g[s]]
        /\ deferred' = [s \in Sessions |-> IF s \in victims THEN {} ELSE deferred[s]]
        /\ completed' = Judged(job,
                [s \in Sessions |-> IF s \in victims THEN {} ELSE completed[s]])
  BY DEF AcceptAnswer
<1> HIDE DEF g
<1>4. [s \in Sessions |-> IF s \in victims THEN {} ELSE completed[s]]
        \in [Sessions -> SUBSET References]
  BY DEF TypeOK
<1>5. completed' \in [Sessions -> SUBSET References]
  BY <1>1, <1>3, <1>4 DEF Judged
<1> QED BY <1>2, <1>3, <1>5, EmptyGraphType DEF TypeOK

LEMMA AcceptanceScheduler ==
  ASSUME SchedulerInv, Acceptance
  PROVE  SchedulerInv'
<1> DEFINE w == run.workflow
<1>1. TypeOK /\ run.op = "apply" /\ run.op \in {"refresh", "apply"}
  BY DEF SchedulerInv, Acceptance, SetAside, JudgeIrrelevant, AcceptAnswer, Deciding
<1>2. w \in Workflows /\ active[w].phase = "answered" /\ active[w] \in Jobs
      /\ (\A i \in DOMAIN ops : ops[i].workflow # w) /\ OperationsMatch(active, ops, NoRun)
  BY <1>1, RunningWorkflow DEF PhaseFor
<1>3. /\ active' = Left(w) /\ Proceed(NoRun)
      /\ UNCHANGED <<storeVars, known, created, selected, queue, pending, modeVars, lineageWork,
                     ops>>
  BY DEF Acceptance, SetAside, JudgeIrrelevant, AcceptAnswer, Leave, LeaveDeferred, sessionVars
<1>4. run' = NoRun /\ resumeScheduled' \in BOOLEAN
  BY <1>3 DEF Proceed
<1>5. /\ session' \in [Sessions -> Nat]
      /\ graph' \in [Sessions -> Graphs]
      /\ deferred' \in [Sessions -> SUBSET Artifacts]
      /\ completed' \in [Sessions -> SUBSET References]
  <2>1. CASE SetAside
    BY <1>1, <2>1, WithDeferredType
       DEF SetAside, Leave, LeaveDeferred, TypeOK, sessionVars, memoryVars
  <2>2. CASE JudgeIrrelevant
    <3>1. active[w].refs \in References
      BY <1>2 DEF Jobs
    <3>2. completed' = Judged(active[w], completed)
          /\ UNCHANGED <<session, graph, deferred>>
      BY <2>2 DEF JudgeIrrelevant, sessionVars
    <3> QED BY <1>1, <3>1, <3>2 DEF Judged, TypeOK
  <2>3. ASSUME NEW answer \in SUBSET ClaimIds, AcceptAnswer(answer)
        PROVE /\ session' \in [Sessions -> Nat]
              /\ graph' \in [Sessions -> Graphs]
              /\ deferred' \in [Sessions -> SUBSET Artifacts]
              /\ completed' \in [Sessions -> SUBSET References]
    BY <1>1, <1>2, <2>3, AcceptType
  <2> QED BY <2>1, <2>2, <2>3 DEF Acceptance
<1>6. ops' = ops /\ ops' \in Seq(Operations)
  BY <1>1, <1>3 DEF TypeOK
<1> QED BY <1>2, <1>3, <1>4, <1>5, <1>6, LeaveScheduler
----
(***************************************************************************)
(* Answers and the end of a workflow.                                       *)
(***************************************************************************)
LEMMA AnswersScheduler ==
  ASSUME SchedulerInv, NEW w \in Workflows, NEW result \in {"claims", "irrelevant", "failed"},
         NEW timeout \in BOOLEAN, Answer(w, result, timeout)
  PROVE  SchedulerInv'
<1> DEFINE job == [active[w] EXCEPT !.phase = "answered", !.result = result,
                                    !.aborted = @ \/ timeout]
           op == [op |-> "apply", workflow |-> w]
<1>1. TypeOK /\ RunOfWorkflow /\ OperationsMatch(active, ops, run)
      /\ active \in [Workflows -> Jobs] /\ ops \in Seq(Operations) /\ run \in Runs
  BY OperationsMatchMeaning DEF SchedulerInv, TypeOK
<1>2. active[w].phase = "asked" /\ ops' = Append(ops, op)
      /\ UNCHANGED <<storeVars, known, sessionVars, memoryVars, queue, pending, modeVars,
                     lineageWork, resumeScheduled, run>>
  BY DEF Answer
<1>3. active' = [active EXCEPT ![w] = job]
  BY <1>1 DEF Answer, Jobs
<1>4. job \in Jobs /\ job.phase = "answered"
  BY <1>1 DEF Jobs, Phases, Results
<1>5. op \in Operations /\ op.workflow = w /\ op.op = "apply"
  BY DEF Operations
<1> HIDE DEF job, op
<1>6. (\A i \in DOMAIN ops : ops[i].workflow # w) /\ run.workflow # w
  BY <1>1, <1>2, NoOperationOf
<1>7. OperationsMatch(active', ops, run)
  <2>1. \A v \in Workflows : v # w => active'[v] = active[v]
    BY <1>1, <1>3
  <2> QED BY <1>1, <1>6, <2>1, OperationsMatchJob
<1>8. active'[w].phase = PhaseFor(op.op)
  BY <1>1, <1>3, <1>4, <1>5 DEF PhaseFor
<1>9. OperationsMatch(active', ops', run')
  BY <1>1, <1>2, <1>5, <1>6, <1>7, <1>8, OperationsMatchAppend
<1>10. RunOfWorkflow'
  BY <1>1, <1>2 DEF RunOfWorkflow
<1>11. SchedulerParts' /\ active' \in [Workflows -> Jobs]
  BY <1>2, <1>3, <1>4, <1>9, <1>10, WorkflowStep
<1>12. ops' \in Seq(Operations)
  BY <1>1, <1>2, <1>5
<1>13. TypeOK'
  BY <1>1, <1>2, <1>11, <1>12 DEF TypeOK, StoreTypeOK, storeVars, sessionVars, memoryVars,
                                  modeVars
<1> QED BY <1>11, <1>13 DEF SchedulerInv, SchedulerParts

LEMMA FinishingScheduler ==
  ASSUME SchedulerInv, NEW w \in Workflows, FinishWorkflow(w)
  PROVE  SchedulerInv'
<1> DEFINE jobs == [active EXCEPT ![w] = NoJob]
<1>1. TypeOK /\ RunOfWorkflow /\ OperationsMatch(active, ops, run)
      /\ active \in [Workflows -> Jobs] /\ ops \in Seq(Operations) /\ run \in Runs
      /\ queue \in Seq(Jobs)
  BY OperationsMatchMeaning DEF SchedulerInv, TypeOK
<1>2. /\ active[w].phase = "finished" /\ pending' = pending - 1 /\ Pump(queue, jobs)
      /\ UNCHANGED <<storeVars, known, sessionVars, memoryVars, modeVars, lineageWork,
                     resumeScheduled, run>>
  BY DEF FinishWorkflow
<1>3. NoJob \in Jobs /\ NoJob.phase = "free"
  BY EmptyGraphType DEF NoJob, Jobs, Phases, Results
<1>4. jobs \in [Workflows -> Jobs] /\ jobs[w].phase = "free"
      /\ \A v \in Workflows : v # w => jobs[v] = active[v]
  BY <1>1, <1>3
<1> HIDE DEF jobs
<1>5. Workflows \ Free(jobs) = (Workflows \ Free(active)) \ {w}
      /\ w \in Workflows \ Free(active)
  BY <1>2, <1>4 DEF Free
<1>6. Cardinality(Workflows \ Free(jobs)) = Cardinality(Workflows \ Free(active)) - 1
  BY <1>5, BusyFinite, FS_RemoveElement
<1>7. Cardinality(Workflows \ Free(jobs)) \in Nat /\ Cardinality(Workflows \ Free(active)) \in Nat
  BY BusyFinite
<1>8. pending = Len(queue) + Cardinality(Workflows \ Free(active)) /\ Len(queue) \in Nat
  BY <1>1 DEF SchedulerInv, PendingAccounting, Busy
<1>9. pending' = Len(queue) + Cardinality(Workflows \ Free(jobs)) /\ pending' \in Nat
  BY <1>2, <1>6, <1>7, <1>8
<1>10. (queue # <<>> => Free(active) = {} /\ ~ Stopped)
       /\ \A i \in DOMAIN queue : queue[i].refresh
  BY DEF SchedulerInv, WaitsOnlyBehindFullPool, WaitingJobsReread
<1>11. \A u, v \in Free(jobs) : u = v \/ Len(queue) <= 1
  <2>1. CASE queue = <<>>
    BY <2>1
  <2>2. CASE queue # <<>>
    BY <1>4, <1>10, <2>2 DEF Free
  <2> QED BY <2>1, <2>2
<1>12. OperationsMatch(jobs, ops, run')
  <2>1. (\A i \in DOMAIN ops : ops[i].workflow # w) /\ run.workflow # w
    BY <1>1, <1>2, NoOperationOf
  <2> QED BY <1>1, <1>2, <1>4, <2>1, OperationsMatchJob
<1>13. RunOfWorkflow' /\ run' \in Runs
  BY <1>1, <1>2 DEF RunOfWorkflow
<1>14. SchedulerParts'
  BY <1>1, <1>2, <1>4, <1>9, <1>10, <1>11, <1>12, <1>13, PumpScheduler
<1>15. queue' \in Seq(Jobs) /\ active' \in [Workflows -> Jobs] /\ ops' \in Seq(Operations)
  BY <1>1, <1>2, <1>4, PumpType
<1>16. TypeOK'
  BY <1>1, <1>2, <1>9, <1>13, <1>15 DEF TypeOK, StoreTypeOK, storeVars, sessionVars, memoryVars,
                                        modeVars
<1> QED BY <1>14, <1>16 DEF SchedulerInv, SchedulerParts
----
(***************************************************************************)
(* The invariant.                                                           *)
(***************************************************************************)
LEMMA NextScheduler == SchedulerInv /\ [Next]_vars => SchedulerInv'
<1> SUFFICES ASSUME SchedulerInv, [Next]_vars PROVE SchedulerInv'
  OBVIOUS
<1>1. CASE Hooks
  BY <1>1, IngestScheduler DEF Hooks
<1>2. CASE Reconciliation \/ Revalidation
  <2>1. ASSUME NEW found \in SUBSET Artifacts, NEW again \in Rereads, Reconcile(found, again)
        PROVE SchedulerInv'
    <3>1. again \in SUBSET Artifacts
      BY DEF Rereads, Tracked
    <3> QED BY <2>1, <3>1, RequestScheduler
  <2>2. ASSUME NEW files \in SUBSET Tracked, Revalidate(files) PROVE SchedulerInv'
    <3>1. files \in SUBSET Artifacts
      BY DEF Tracked
    <3> QED BY <2>2, <3>1, RequestScheduler
  <2> QED BY <1>2, <2>1, <2>2 DEF Reconciliation, Revalidation
<1>3. CASE Checkout
  BY <1>3, LineageScheduler DEF Checkout
<1>4. CASE Control \/ Edits
  BY <1>4, ControlScheduler
<1>5. CASE Answers
  BY <1>5, AnswersScheduler DEF Answers
<1>6. CASE Continue
  <2>1. ASSUME NEW a \in Artifacts, CaptureFile(a) PROVE SchedulerInv'
    BY <2>1, CaptureFileScheduler
  <2>2. CASE RegisterSeen
    BY <2>2, RegisterSeenScheduler
  <2>3. CASE \/ DecideNothing \/ DecideEvent \/ DecideReconcile \/ DecideFlush
             \/ \E again \in Rereads : DecideTool(again)
    BY <2>3, DecideScheduler
  <2>4. CASE DecideRefresh
    BY <2>4, DecideRefreshScheduler
  <2>5. CASE Acceptance
    BY <2>5, AcceptanceScheduler
  <2>6. CASE Dispatch
    BY <2>6, LeftOutScheduler, ScheduledScheduler DEF Dispatch
  <2> QED BY <1>6, <2>1, <2>2, <2>3, <2>4, <2>5, <2>6 DEF Continue
<1>7. CASE StartNext
  BY <1>7, StartFlushScheduler, StartWorkflowScheduler DEF StartNext
<1>8. CASE Finishing
  BY <1>8, FinishingScheduler DEF Finishing
<1>9. CASE UNCHANGED vars
  <2>1. UNCHANGED <<disk, records, lineageId, known, session, created, selected, graph, deferred,
                    completed, queue, active, pending, paused, closed, available, epoch,
                    lineageWork, resumeScheduled, ops, run>>
    BY <1>9 DEF vars, storeVars, sessionVars, memoryVars, schedulerVars, modeVars
  <2>2. TypeOK'
    BY <2>1 DEF SchedulerInv, TypeOK, StoreTypeOK
  <2>3. SchedulerParts'
    BY <2>1, SchedulerFrame DEF SchedulerInv, RunOfWorkflow, schedulerVars, modeVars
  <2> QED BY <2>2, <2>3 DEF SchedulerInv, SchedulerParts
<1> QED BY <1>1, <1>2, <1>3, <1>4, <1>5, <1>6, <1>7, <1>8, <1>9 DEF Next, Environment

\* The scheduler's state is well formed after every step.
THEOREM SchedulerCorrect == Spec => []SchedulerInv
<1> QED BY InitScheduler, NextScheduler, PTL DEF Spec

\* Every variable of the coordinator keeps its type; in particular the pending
\* counter never falls below zero, whichever path drained the queue.
THEOREM TypeCorrect == Spec => []TypeOK
<1>1. SchedulerInv => TypeOK
  BY DEF SchedulerInv
<1> QED BY <1>1, SchedulerCorrect, PTL

\* status.pending is the number of waiting jobs and busy workflows.
THEOREM PendingCorrect == Spec => []PendingAccounting
<1>1. SchedulerInv => PendingAccounting
  BY DEF SchedulerInv
<1> QED BY <1>1, SchedulerCorrect, PTL

\* No job waits beside a free workflow, or while classification is stopped.
THEOREM WorkConserving == Spec => []WaitsOnlyBehindFullPool
<1>1. SchedulerInv => WaitsOnlyBehindFullPool
  BY DEF SchedulerInv
<1> QED BY <1>1, SchedulerCorrect, PTL

\* No job that waited is asked with the source it was scheduled with.
THEOREM WaitingReread == Spec => []WaitingJobsReread
<1>1. SchedulerInv => WaitingJobsReread
  BY DEF SchedulerInv
<1> QED BY <1>1, SchedulerCorrect, PTL

\* A workflow waits for at most one operation, the one its phase names.
THEOREM OneOperation == Spec => []OneOperationPerWorkflow
<1>1. SchedulerInv => OneOperationPerWorkflow
  BY DEF SchedulerInv
<1> QED BY <1>1, SchedulerCorrect, PTL

\* The discipline of the queue that the run PipelineControl checks: the four
\* promises above, at once, for every number of workflows, places and files.
THEOREM QueueDisciplined == Spec => []QueueDiscipline
<1>1. SchedulerInv => QueueDiscipline
  BY DEF SchedulerInv, QueueDiscipline
<1> QED BY <1>1, SchedulerCorrect, PTL

(***************************************************************************)
(* What the coordinator asks and what it draws: two workflows never judge   *)
(* one input at once, questions and answers belong to one session object,   *)
(* and what is drawn as current cites the versions observed last, whatever  *)
(* happens between the awaits of an operation.                              *)
(***************************************************************************)

(***************************************************************************)
(* The jobs: whose they are, and of which checkout.                         *)
(***************************************************************************)

\* A job was scheduled for a session that lived.
IsOwned(job) == job.owner \in Sessions /\ job.object # 0

JobsAreOwned ==
    /\ \A i \in DOMAIN queue : IsOwned(queue[i])
    /\ \A w \in Busy : IsOwned(active[w])

\* A job that is not aborted asks about the present checkout.
JobsAreOfCheckout ==
    /\ \A i \in DOMAIN queue : queue[i].epoch = epoch
    /\ \A w \in Busy : active[w].aborted \/ active[w].epoch = epoch

\* Without permission to transmit sources there are no jobs.
NothingWithheldWaits == TransmitSource \/ (queue = <<>> /\ Busy = {})

JobsInv ==
    /\ JobsAreOwned
    /\ JobsAreOfCheckout
    /\ NothingWithheldWaits
    /\ NoDuplicateInFlight

\* A job that goes on is asked nothing new.
GoesOn(old, new) ==
    /\ new.owner = old.owner /\ new.object = old.object /\ new.epoch = old.epoch
    /\ old.aborted => new.aborted
    /\ old.phase # "free"
    /\ new.phase = "asked" => old.phase = "asked"
    /\ new.phase \in {"asked", "answered"} =>
            old.phase \in {"asked", "answered"} /\ new.refs = old.refs

JobsGoOn ==
    \A w \in Workflows : active'[w].phase = "free" \/ GoesOn(active[w], active'[w])

\* Steps that start no job.
LEMMA JobsStay ==
  ASSUME JobsInv, JobsGoOn,
         queue' = queue \/ queue' = <<>>,
         epoch' = epoch \/ (queue' = <<>> /\ \A w \in Busy' : active'[w].aborted)
  PROVE  JobsInv' /\ AskedOnlyWhileRunning
<1>1. \A w \in Busy' : w \in Busy /\ w \in Workflows /\ GoesOn(active[w], active'[w])
  BY DEF JobsGoOn, GoesOn, Busy, Free
<1>2. JobsAreOwned'
  BY <1>1 DEF JobsInv, JobsAreOwned, IsOwned, GoesOn
<1>3. JobsAreOfCheckout'
  <2>1. \A i \in DOMAIN queue' : queue'[i].epoch = epoch'
    BY DEF JobsInv, JobsAreOfCheckout
  <2>2. ASSUME NEW w \in Busy' PROVE active'[w].aborted \/ active'[w].epoch = epoch'
    BY <1>1, <2>2 DEF JobsInv, JobsAreOfCheckout, GoesOn
  <2> QED BY <2>1, <2>2 DEF JobsAreOfCheckout
<1>4. NothingWithheldWaits'
  BY <1>1 DEF JobsInv, NothingWithheldWaits
<1>5. NoDuplicateInFlight'
  <2> SUFFICES ASSUME NEW v \in Workflows, NEW w \in Workflows, v # w,
                 active'[v].phase \in {"asked", "answered"},
                 active'[w].phase \in {"asked", "answered"},
                 active'[v].owner = active'[w].owner, active'[v].object = active'[w].object,
                 active'[v].refs = active'[w].refs
               PROVE active'[v].aborted \/ active'[w].aborted
    BY DEF NoDuplicateInFlight
  <2>1. GoesOn(active[v], active'[v]) /\ GoesOn(active[w], active'[w])
    BY DEF JobsGoOn
  <2>2. active[v].aborted \/ active[w].aborted
    BY <2>1 DEF JobsInv, NoDuplicateInFlight, GoesOn
  <2> QED BY <2>1, <2>2 DEF GoesOn
<1>6. AskedOnlyWhileRunning
  BY DEF AskedOnlyWhileRunning, JobsGoOn, GoesOn
<1> QED BY <1>2, <1>3, <1>4, <1>5, <1>6 DEF JobsInv

\* A job that may be asked: no other workflow judges its input.
Rival(job, other) ==
    /\ other.owner = job.owner /\ other.object = job.object
    /\ ~ other.aborted
    /\ other.epoch = job.epoch
    /\ other.refs = job.refs

MayBeAsked(job, w) ==
    /\ ~ Stopped
    /\ ~ job.aborted
    /\ job.epoch = epoch
    /\ job.object = session[job.owner]
    /\ \A v \in Busy \ {w} : ~ Rival(job, active[v])

\* Steps that start one job.
LEMMA OneJobStarts ==
  ASSUME JobsInv, TransmitSource, epoch' = epoch, NEW w \in Workflows,
         \A v \in Workflows \ {w} : active'[v].phase = "free" \/ active'[v] = active[v],
         IsOwned(active'[w]),
         active'[w].aborted \/ active'[w].epoch = epoch,
         active'[w].phase # "answered",
         active'[w].phase = "asked" => MayBeAsked(active'[w], w),
         \A i \in DOMAIN queue' : IsOwned(queue'[i]) /\ queue'[i].epoch = epoch
  PROVE  JobsInv' /\ AskedOnlyWhileRunning
<1>1. \A v \in Busy' : v \in Workflows /\ (v = w \/ (v \in Busy /\ active'[v] = active[v]))
  BY DEF Busy, Free
<1>2. JobsAreOwned'
  BY <1>1 DEF JobsInv, JobsAreOwned
<1>3. JobsAreOfCheckout'
  <2>1. ASSUME NEW v \in Busy' PROVE active'[v].aborted \/ active'[v].epoch = epoch'
    BY <1>1, <2>1 DEF JobsInv, JobsAreOfCheckout
  <2> QED BY <2>1 DEF JobsAreOfCheckout
<1>4. NothingWithheldWaits'
  BY DEF NothingWithheldWaits
<1>5. ASSUME NEW v \in Workflows \ {w}, active'[w].phase = "asked",
             active'[v].phase \in {"asked", "answered"},
             active'[v].owner = active'[w].owner, active'[v].object = active'[w].object,
             active'[v].refs = active'[w].refs
      PROVE active'[v].aborted
  <2>1. active'[v] = active[v] /\ v \in Busy \ {w}
    BY <1>5 DEF Busy, Free
  <2>2. active[v].aborted \/ active[v].epoch = epoch
    BY <2>1 DEF JobsInv, JobsAreOfCheckout
  <2>3. ~ Rival(active'[w], active[v]) /\ active'[w].epoch = epoch
    BY <1>5, <2>1 DEF MayBeAsked
  <2> QED BY <1>5, <2>1, <2>2, <2>3 DEF Rival
<1>6. NoDuplicateInFlight'
  <2> SUFFICES ASSUME NEW v \in Workflows, NEW u \in Workflows, v # u,
                 active'[v].phase \in {"asked", "answered"},
                 active'[u].phase \in {"asked", "answered"},
                 active'[v].owner = active'[u].owner, active'[v].object = active'[u].object,
                 active'[v].refs = active'[u].refs
               PROVE active'[v].aborted \/ active'[u].aborted
    BY DEF NoDuplicateInFlight
  <2>1. CASE v # w /\ u # w
    <3>1. active'[v] = active[v] /\ active'[u] = active[u]
      BY <2>1
    <3> QED BY <3>1 DEF JobsInv, NoDuplicateInFlight
  <2>2. CASE v = w
    BY <1>5, <2>2
  <2>3. CASE u = w
    BY <1>5, <2>3
  <2> QED BY <2>1, <2>2, <2>3
<1>7. AskedOnlyWhileRunning
  <2> SUFFICES ASSUME NEW v \in Workflows, active[v].phase # "asked", active'[v].phase = "asked"
               PROVE /\ ~ Stopped /\ ~ active'[v].aborted /\ active'[v].epoch = epoch
                     /\ active'[v].object = session[active'[v].owner]
    BY DEF AskedOnlyWhileRunning
  <2>1. v = w
    OBVIOUS
  <2> QED BY <2>1 DEF MayBeAsked
<1> QED BY <1>2, <1>3, <1>4, <1>6, <1>7 DEF JobsInv

\* A call of pumpClassifications after a departure or an arrival.
LEMMA PumpKeepsJobs ==
  ASSUME JobsInv, UNCHANGED epoch,
         active \in [Workflows -> Jobs], NEW jobs \in [Workflows -> Jobs],
         NEW waiting \in Seq(Jobs), Pump(waiting, jobs),
         \A v \in Workflows : jobs[v].phase = "free" \/ jobs[v] = active[v],
         TransmitSource \/ waiting = <<>>,
         \A i \in DOMAIN waiting : /\ IsOwned(waiting[i]) /\ waiting[i].epoch = epoch
                                   /\ \/ waiting[i].refresh
                                      \/ \A w \in Free(jobs) : MayBeAsked(Started(waiting[i]), w)
  PROVE  JobsInv' /\ AskedOnlyWhileRunning
<1>1. CASE PumpsNothing(waiting, jobs)
  <2>1. queue' = waiting /\ active' = jobs
    BY <1>1 DEF PumpsNothing
  <2>2. \A w \in Workflows : active'[w].phase = "free" \/ active'[w] = active[w]
    BY <2>1
  <2>3. JobsAreOwned' /\ JobsAreOfCheckout'
    <3>1. \A w \in Busy' : w \in Busy /\ active'[w] = active[w]
      BY <2>2 DEF Busy, Free
    <3>2. JobsAreOwned'
      BY <2>1, <3>1 DEF JobsInv, JobsAreOwned
    <3>3. \A w \in Busy' : active'[w].aborted \/ active'[w].epoch = epoch'
      BY <3>1 DEF JobsInv, JobsAreOfCheckout
    <3> QED BY <2>1, <3>2, <3>3 DEF JobsAreOfCheckout
  <2>4. NothingWithheldWaits'
    <3>1. Busy' \subseteq Busy
      BY <2>2 DEF Busy, Free
    <3> QED BY <2>1, <3>1 DEF JobsInv, NothingWithheldWaits
  <2>5. NoDuplicateInFlight'
    BY <2>2 DEF JobsInv, NoDuplicateInFlight
  <2>6. AskedOnlyWhileRunning
    BY <2>2 DEF AskedOnlyWhileRunning
  <2> QED BY <2>3, <2>4, <2>5, <2>6 DEF JobsInv
<1>2. ASSUME NEW w \in Workflows, PumpsOne(waiting, jobs, w)
      PROVE JobsInv' /\ AskedOnlyWhileRunning
  <2>1. /\ waiting # <<>> /\ queue' = Tail(waiting) /\ w \in Free(jobs)
        /\ active' = [jobs EXCEPT ![w] = Started(Head(waiting))]
    BY <1>2 DEF PumpsOne
  <2>2. 1 \in DOMAIN waiting /\ Head(waiting) = waiting[1] /\ waiting[1] \in Jobs
    BY <2>1
  <2>3. /\ active'[w] = Started(waiting[1])
        /\ \A v \in Workflows \ {w} : active'[v] = jobs[v]
    BY <2>1, <2>2
  <2>4. /\ Started(waiting[1]).owner = waiting[1].owner
        /\ Started(waiting[1]).object = waiting[1].object
        /\ Started(waiting[1]).epoch = waiting[1].epoch
        /\ Started(waiting[1]).phase \in {"refresh", "asked"}
        /\ waiting[1].refresh => Started(waiting[1]).phase = "refresh"
    BY <2>2 DEF Started, Jobs
  <2>5. IsOwned(active'[w]) /\ active'[w].epoch = epoch
    BY <2>2, <2>3, <2>4 DEF IsOwned
  <2>6. active'[w].phase = "asked" => MayBeAsked(active'[w], w)
    BY <2>1, <2>2, <2>3, <2>4
  <2>7. \A i \in DOMAIN queue' : IsOwned(queue'[i]) /\ queue'[i].epoch = epoch
    <3>1. \A i \in DOMAIN queue' : i + 1 \in DOMAIN waiting /\ queue'[i] = waiting[i + 1]
      BY <2>1
    <3> QED BY <3>1
  <2>8. active'[w].phase # "answered"
    BY <2>3, <2>4
  <2>9. TransmitSource
    BY <2>1
  <2>10. \A v \in Workflows \ {w} : active'[v].phase = "free" \/ active'[v] = active[v]
    BY <2>3
  <2> QED BY <2>5, <2>6, <2>7, <2>8, <2>9, <2>10, OneJobStarts
<1> QED BY <1>1, <1>2, PumpCases

\* Steps that leave the jobs alone, but for a queue thrown away.
LEMMA SameJobs ==
  ASSUME JobsInv, active' = active, queue' = queue \/ queue' = <<>>, epoch' = epoch
  PROVE  JobsInv' /\ AskedOnlyWhileRunning
<1>1. JobsGoOn
  BY DEF JobsGoOn, GoesOn
<1> QED BY <1>1, JobsStay

\* A job leaves its workflow.
LEMMA LeftKeepsJobs ==
  ASSUME SchedulerInv, JobsInv, NEW w \in Workflows, active[w].phase \in {"refresh", "answered"},
         active' = Left(w), UNCHANGED <<queue, epoch>>
  PROVE  JobsInv' /\ AskedOnlyWhileRunning
<1>1. active \in [Workflows -> Jobs]
  BY DEF SchedulerInv, TypeOK
<1>2. \A v \in Workflows : v # w => active'[v] = active[v]
  BY <1>1 DEF Left
<1>3. GoesOn(active[w], active'[w])
  BY <1>1 DEF Left, Jobs, GoesOn
<1>4. JobsGoOn
  BY <1>2, <1>3 DEF JobsGoOn, GoesOn
<1> QED BY <1>4, JobsStay

\* A checkout change or a close aborts every job and empties the queue.
LEMMA AbortKeepsJobs ==
  ASSUME SchedulerInv, JobsInv, active' = AllAborted, queue' = <<>>
  PROVE  JobsInv' /\ AskedOnlyWhileRunning
<1>1. \A w \in Workflows : active[w] \in Jobs
  BY DEF SchedulerInv, TypeOK
<1>2. \A w \in Workflows : active'[w] = IF w \in Busy THEN [active[w] EXCEPT !.aborted = TRUE]
                                       ELSE active[w]
  BY DEF AllAborted
<1>3. \A w \in Workflows : w \notin Busy <=> active[w].phase = "free"
  BY DEF Busy, Free
<1>4. ASSUME NEW w \in Workflows, active[w].phase # "free"
      PROVE GoesOn(active[w], active'[w]) /\ active'[w].aborted
  BY <1>1, <1>2, <1>3, <1>4 DEF GoesOn, Jobs
<1>5. \A w \in Workflows : active[w].phase = "free" => active'[w].phase = "free"
  BY <1>2, <1>3
<1>6. JobsGoOn
  BY <1>4, <1>5 DEF JobsGoOn
<1>7. \A w \in Busy' : active'[w].aborted
  BY <1>4, <1>5 DEF Busy, Free
<1> QED BY <1>6, <1>7, JobsStay

LEMMA ControlKeepsJobs ==
  ASSUME SchedulerInv, JobsInv, Control \/ Edits \/ Checkout
  PROVE  JobsInv' /\ AskedOnlyWhileRunning
<1>1. CASE Pause \/ Resume \/ Edits \/ \E s \in Sessions : SelectSession(s)
  BY <1>1, SameJobs DEF Pause, Resume, Edits, SelectSession, schedulerVars, modeVars
<1>2. CASE Close
  BY <1>2, AbortKeepsJobs DEF Close
<1>3. ASSUME NEW id, NEW usable, ObserveLineage(id, usable)
      PROVE  JobsInv' /\ AskedOnlyWhileRunning
  <2>1. CASE id # lineageId \/ ~ usable
    BY <1>3, <2>1, AbortKeepsJobs DEF ObserveLineage
  <2>2. CASE ~ (id # lineageId \/ ~ usable)
    <3>1. UNCHANGED <<epoch, schedulerVars>>
      BY <1>3, <2>2 DEF ObserveLineage
    <3> QED BY <3>1, SameJobs DEF schedulerVars
  <2> QED BY <2>1, <2>2
<1> QED BY <1>1, <1>2, <1>3 DEF Control, Checkout

\* Answers, the starts of reread and acceptance, and acceptance itself.
LEMMA OperationsKeepJobs ==
  ASSUME SchedulerInv, JobsInv, Answers \/ StartNext \/ Acceptance
  PROVE  JobsInv' /\ AskedOnlyWhileRunning
<1>1. ASSUME NEW w \in Workflows, NEW result, NEW timeout, Answer(w, result, timeout)
      PROVE  JobsInv' /\ AskedOnlyWhileRunning
  <2>1. active \in [Workflows -> Jobs] /\ active[w].phase = "asked"
        /\ UNCHANGED <<queue, epoch>>
    BY <1>1 DEF SchedulerInv, TypeOK, Answer, modeVars
  <2>2. active' = [active EXCEPT ![w].phase = "answered", ![w].result = result,
                                ![w].aborted = @ \/ timeout]
    BY <1>1 DEF Answer
  <2>3. \A v \in Workflows : v # w => active'[v] = active[v]
    BY <2>1, <2>2
  <2>4. /\ active'[w].owner = active[w].owner /\ active'[w].object = active[w].object
        /\ active'[w].epoch = active[w].epoch /\ active'[w].refs = active[w].refs
        /\ active'[w].phase = "answered"
    BY <2>1, <2>2 DEF Jobs
  <2>5. active'[w].aborted = (active[w].aborted \/ timeout)
    BY <2>1, <2>2 DEF Jobs
  <2>6. active[w].aborted => active'[w].aborted
    BY <2>5, Zenon
  <2>7. GoesOn(active[w], active'[w])
    BY <2>1, <2>4, <2>6 DEF GoesOn
  <2>8. JobsGoOn
    BY <2>3, <2>7 DEF JobsGoOn, GoesOn
  <2> QED BY <2>1, <2>8, JobsStay
<1>2. CASE StartFlush
  BY <1>2, SameJobs DEF StartFlush, schedulerVars, modeVars
<1>3. CASE StartRefresh \/ StartApply
  <2>1. ops # <<>> /\ Head(ops).op \in {"refresh", "apply"}
    BY <1>3 DEF StartRefresh, StartApply, Starting
  <2>2. Worker \in Workflows /\ active[Worker].phase \in {"refresh", "answered"}
    BY <2>1, StartingFacts DEF PhaseFor
  <2>3. CASE CaptureFor(Files(active[Worker].refs))
    BY <2>3, SameJobs DEF CaptureFor, schedulerVars, modeVars
  <2>4. CASE Leave(Worker, NoRun) \/ LeaveDeferred(Worker, NoRun)
    BY <2>2, <2>4, LeftKeepsJobs DEF Leave, LeaveDeferred, modeVars
  <2> QED BY <1>3, <2>3, <2>4 DEF StartRefresh, StartApply
<1>4. CASE Acceptance
  <2>1. run.op = "apply"
    BY <1>4 DEF Acceptance, SetAside, JudgeIrrelevant, AcceptAnswer, Deciding
  <2>2. run.workflow \in Workflows /\ active[run.workflow].phase = "answered"
    BY <2>1, RunningWorkflow DEF PhaseFor
  <2>3. active' = Left(run.workflow) /\ UNCHANGED <<queue, epoch>>
    BY <1>4 DEF Acceptance, SetAside, JudgeIrrelevant, AcceptAnswer, Leave, LeaveDeferred, modeVars
  <2> QED BY <2>2, <2>3, LeftKeepsJobs
<1> QED BY <1>1, <1>2, <1>3, <1>4 DEF Answers, StartNext

\* refreshQueuedJob after its reread: the job is asked about what was reread,
\* unless that is judged or being judged already.
LEMMA DecideRefreshKeepsJobs ==
  ASSUME SchedulerInv, JobsInv, DecideRefresh
  PROVE  JobsInv' /\ AskedOnlyWhileRunning
<1> DEFINE w == run.workflow
<1>1. w \in Workflows /\ active[w].phase = "refresh" /\ active[w] \in Jobs
      /\ active \in [Workflows -> Jobs]
  <2>1. run.op = "refresh"
    BY DEF DecideRefresh, Deciding
  <2> QED BY <2>1, RunningWorkflow DEF PhaseFor, SchedulerInv, TypeOK
<1>2. PICK phase \in {"finished", "asked"} :
        /\ active' = [active EXCEPT ![w] = [Refreshed EXCEPT !.phase = phase]]
        /\ phase = "asked" => ~ RefreshUseless /\ ~ Stopped
  BY DEF DecideRefresh
<1>3. UNCHANGED <<queue, epoch>>
  BY DEF DecideRefresh, modeVars
<1>4. /\ Refreshed.owner = active[w].owner /\ Refreshed.object = active[w].object
      /\ Refreshed.epoch = active[w].epoch /\ Refreshed.aborted = active[w].aborted
  BY <1>1 DEF Refreshed, Jobs
<1>5. /\ active'[w].owner = active[w].owner /\ active'[w].object = active[w].object
      /\ active'[w].epoch = active[w].epoch /\ active'[w].aborted = active[w].aborted
      /\ active'[w].refs = Refreshed.refs /\ active'[w].phase = phase
      /\ \A v \in Workflows \ {w} : active'[v] = active[v]
  BY <1>1, <1>2, <1>4 DEF Refreshed, Jobs
<1>6. CASE phase = "finished"
  <2>1. JobsGoOn
    BY <1>1, <1>5, <1>6 DEF JobsGoOn, GoesOn
  <2> QED BY <1>3, <2>1, JobsStay
<1>7. CASE phase = "asked"
  <2>1. ~ RefreshUseless /\ ~ Stopped
    BY <1>2, <1>7
  <2>2. w \in Busy
    BY <1>1 DEF Busy, Free
  <2>3. ~ active[w].aborted
    BY <1>4, <2>1 DEF RefreshUseless
  <2>4. active[w].epoch = epoch
    BY <2>2, <2>3 DEF JobsInv, JobsAreOfCheckout
  <2>5. IsOwned(active'[w]) /\ active[w].object = session[active[w].owner]
    BY <1>4, <1>5, <2>1, <2>2 DEF JobsInv, JobsAreOwned, IsOwned, RefreshUseless, OwnerAlive
  <2>6. ASSUME NEW v \in Busy \ {w} PROVE ~ Rival(active'[w], active[v])
    BY <1>4, <1>5, <2>1, <2>6 DEF RefreshUseless, Covered, Rival
  <2>7. MayBeAsked(active'[w], w)
    BY <1>5, <2>1, <2>3, <2>4, <2>5, <2>6 DEF MayBeAsked
  <2>8. \A i \in DOMAIN queue' : IsOwned(queue'[i]) /\ queue'[i].epoch = epoch
    BY <1>3 DEF JobsInv, JobsAreOwned, JobsAreOfCheckout
  <2>9. TransmitSource
    BY <2>2 DEF JobsInv, NothingWithheldWaits
  <2> QED BY <1>1, <1>3, <1>5, <1>7, <2>4, <2>5, <2>7, <2>8, <2>9, OneJobStarts
<1> QED BY <1>2, <1>6, <1>7

\* A finished workflow makes room, and a waiting job is reread.
LEMMA FinishingKeepsJobs ==
  ASSUME SchedulerInv, JobsInv, NEW w \in Workflows, FinishWorkflow(w)
  PROVE  JobsInv' /\ AskedOnlyWhileRunning
<1> DEFINE jobs == [active EXCEPT ![w] = NoJob]
<1>1. active \in [Workflows -> Jobs] /\ queue \in Seq(Jobs) /\ UNCHANGED epoch
      /\ \A i \in DOMAIN queue : queue[i].refresh
  BY DEF SchedulerInv, TypeOK, WaitingJobsReread, FinishWorkflow, modeVars
<1>2. NoJob \in Jobs /\ NoJob.phase = "free"
  BY EmptyGraphType DEF NoJob, Jobs, Phases, Results
<1>3. Pump(queue, jobs)
  BY DEF FinishWorkflow
<1>4. jobs \in [Workflows -> Jobs] /\ jobs[w].phase = "free"
      /\ \A v \in Workflows : v # w => jobs[v] = active[v]
  BY <1>1, <1>2
<1>5. \A i \in DOMAIN queue : IsOwned(queue[i]) /\ queue[i].epoch = epoch
  BY DEF JobsInv, JobsAreOwned, JobsAreOfCheckout
<1>6. TransmitSource \/ queue = <<>>
  BY DEF JobsInv, NothingWithheldWaits
<1> HIDE DEF jobs
<1>7. \A v \in Workflows : jobs[v].phase = "free" \/ jobs[v] = active[v]
  BY <1>4
<1>8. \A i \in DOMAIN queue : /\ IsOwned(queue[i]) /\ queue[i].epoch = epoch
                              /\ \/ queue[i].refresh
                                 \/ \A v \in Free(jobs) : MayBeAsked(Started(queue[i]), v)
  BY <1>1, <1>5
<1> QED BY <1>1, <1>3, <1>4, <1>6, <1>7, <1>8, PumpKeepsJobs

\* scheduleClassification: what is scheduled is neither judged nor being judged.
LEMMA DispatchKeepsJobs ==
  ASSUME SchedulerInv, JobsInv, Dispatch
  PROVE  JobsInv' /\ AskedOnlyWhileRunning
<1>1. PICK group \in run.groups : \/ SkipGroup(group) \/ DeferGroup(group) \/ SupersedeGroup(group)
                                  \/ DropGroup(group) \/ QueueGroup(group)
  BY DEF Dispatch
<1> DEFINE job == NewJob(group)
<1>2. CASE SkipGroup(group) \/ DeferGroup(group) \/ DropGroup(group)
  BY <1>2, SameJobs DEF SkipGroup, DeferGroup, DropGroup, DispatchNext, schedulerVars, modeVars
<1>3. ASSUME SupersedeGroup(group) \/ QueueGroup(group)
      PROVE  /\ job \in Jobs /\ job.refresh = (Free(active) = {}) /\ IsOwned(job)
             /\ job.epoch = epoch /\ UNCHANGED epoch /\ TransmitSource
             /\ ~ Stopped /\ ~ job.aborted /\ job.object = session[job.owner]
             /\ \A v \in Busy : ~ Rival(job, active[v])
  <2>1. TypeOK /\ group \in Groups
    BY DEF SchedulerInv, TypeOK, Runs
  <2>2. job \in Jobs /\ job.refresh = (Free(active) = {})
    BY <2>1, NewJobType
  <2>3. Schedulable(group) /\ UNCHANGED epoch
    BY <1>3 DEF SupersedeGroup, QueueGroup, DispatchNext, modeVars
  <2>4. /\ job.owner = group.owner /\ job.object = session[group.owner] /\ job.epoch = epoch
        /\ ~ job.aborted
    BY DEF NewJob
  <2>5. TransmitSource /\ IsOwned(job) /\ ~ Stopped
    BY <2>3, <2>4 DEF Schedulable, Unwanted, Live, IsOwned
  <2>6. ASSUME NEW v \in Busy PROVE ~ Rival(job, active[v])
    BY <2>3, <2>6 DEF Schedulable, Covered, Rival
  <2> QED BY <2>2, <2>3, <2>4, <2>5, <2>6
<1>4. active \in [Workflows -> Jobs] /\ queue \in Seq(Jobs)
      /\ (queue # <<>> => Free(active) = {})
      /\ \A i \in DOMAIN queue : queue[i].refresh
  BY DEF SchedulerInv, TypeOK, WaitsOnlyBehindFullPool, WaitingJobsReread
<1>5. \A i \in DOMAIN queue : IsOwned(queue[i]) /\ queue[i].epoch = epoch
  BY DEF JobsInv, JobsAreOwned, JobsAreOfCheckout
<1>6. \A v \in Workflows : active[v].phase = "free" \/ active[v] = active[v]
  OBVIOUS
<1>7. CASE SupersedeGroup(group)
  <2>1. PICK i \in DOMAIN queue :
            Pump([queue EXCEPT ![i] = [job EXCEPT !.refresh = TRUE]], active)
    BY <1>7 DEF SupersedeGroup, Superseded
  <2> DEFINE later == [job EXCEPT !.refresh = TRUE]
             waiting == [queue EXCEPT ![i] = later]
  <2> HIDE DEF job
  <2>2. later \in Jobs /\ later.refresh /\ IsOwned(later) /\ later.epoch = epoch
    BY <1>3, <1>7 DEF Jobs, IsOwned
  <2> HIDE DEF later
  <2>3. waiting \in Seq(Jobs) /\ DOMAIN waiting = DOMAIN queue
        /\ \A k \in DOMAIN waiting : waiting[k] = later \/ waiting[k] = queue[k]
    BY <1>4, <2>2
  <2>4. Pump(waiting, active)
    BY <2>1 DEF later
  <2> HIDE DEF waiting
  <2>5. \A k \in DOMAIN waiting : IsOwned(waiting[k]) /\ waiting[k].epoch = epoch
                                  /\ waiting[k].refresh
    BY <1>4, <1>5, <2>2, <2>3
  <2>6. \A k \in DOMAIN waiting :
            /\ IsOwned(waiting[k]) /\ waiting[k].epoch = epoch
            /\ \/ waiting[k].refresh
               \/ \A w \in Free(active) : MayBeAsked(Started(waiting[k]), w)
    BY <2>5
  <2> QED BY <1>3, <1>4, <1>6, <1>7, <2>3, <2>4, <2>6, PumpKeepsJobs
<1>8. CASE QueueGroup(group)
  <2> DEFINE waiting == Append(queue, job)
  <2>1. Pump(waiting, active)
    BY <1>8 DEF QueueGroup
  <2> HIDE DEF job
  <2>2. waiting \in Seq(Jobs)
        /\ \A k \in DOMAIN waiting : waiting[k] = job \/ (k \in DOMAIN queue /\ waiting[k] = queue[k])
    BY <1>3, <1>4, <1>8
  <2> HIDE DEF waiting
  <2>3. \A w \in Free(active) : ~ job.refresh => MayBeAsked(Started(job), w)
    <3>1. /\ Started(job).owner = job.owner /\ Started(job).object = job.object
          /\ Started(job).epoch = job.epoch /\ Started(job).refs = job.refs
          /\ Started(job).aborted = job.aborted
      BY <1>3, <1>8 DEF Started, Jobs
    <3> QED BY <1>3, <1>8, <3>1 DEF MayBeAsked, Rival
  <2>4. Free(active) = {} => job.refresh
    BY <1>3, <1>8
  <2>5. \A k \in DOMAIN waiting :
            /\ IsOwned(waiting[k]) /\ waiting[k].epoch = epoch
            /\ \/ waiting[k].refresh
               \/ \A w \in Free(active) : MayBeAsked(Started(waiting[k]), w)
    BY <1>3, <1>4, <1>5, <1>8, <2>2, <2>3, <2>4
  <2> QED BY <1>3, <1>4, <1>6, <1>8, <2>1, <2>2, <2>5, PumpKeepsJobs
<1> QED BY <1>1, <1>2, <1>7, <1>8

LEMMA NextKeepsJobs ==
  ASSUME SchedulerInv, JobsInv, [Next]_vars
  PROVE  JobsInv' /\ AskedOnlyWhileRunning
<1>1. CASE Hooks \/ Reconciliation \/ Revalidation
  BY <1>1, SameJobs
     DEF Hooks, Ingest, Reconciliation, Reconcile, Revalidation, Revalidate, schedulerVars, modeVars
<1>2. CASE Checkout \/ Control \/ Edits
  BY <1>2, ControlKeepsJobs
<1>3. CASE Answers \/ StartNext \/ Acceptance
  BY <1>3, OperationsKeepJobs
<1>4. CASE (\E a \in Artifacts : CaptureFile(a)) \/ RegisterSeen
           \/ \E again \in Rereads : DecideTool(again)
  BY <1>4, SameJobs DEF CaptureFile, RegisterSeen, DecideTool, schedulerVars, modeVars
<1>5. CASE DecideNothing \/ DecideEvent \/ DecideReconcile \/ DecideFlush
  BY <1>5, SameJobs
     DEF DecideNothing, DecideEvent, DecideReconcile, DecideFlush, schedulerVars, modeVars
<1>6. CASE DecideRefresh
  BY <1>6, DecideRefreshKeepsJobs
<1>7. CASE Dispatch
  BY <1>7, DispatchKeepsJobs
<1>8. CASE Finishing
  BY <1>8, FinishingKeepsJobs DEF Finishing
<1>9. CASE UNCHANGED vars
  BY <1>9, SameJobs DEF vars, schedulerVars, modeVars
<1> QED BY <1>1, <1>2, <1>3, <1>4, <1>5, <1>6, <1>7, <1>8, <1>9
        DEF Next, Environment, Continue

LEMMA InitJobs == Init => JobsInv
<1> SUFFICES ASSUME Init PROVE JobsInv
  OBVIOUS
<1>1. Busy = {} /\ queue = <<>> /\ \A w \in Workflows : active[w].phase = "free"
  BY DEF Init, Busy, Free, NoJob
<1> QED BY <1>1 DEF JobsInv, JobsAreOwned, JobsAreOfCheckout, NothingWithheldWaits,
                    NoDuplicateInFlight
----
(***************************************************************************)
(* The observations: how the running operation, the registry and what the   *)
(* coordinator knows are related between two awaits.                        *)
(***************************************************************************)

\* What is known of a file is never ahead of the registry.
KnownIsBehind ==
    \A a \in Artifacts :
        /\ known[a].gen <= records[a].gen
        /\ records[a].gen = 0 => records[a].seen.status = "missing"

\* No checkout change falls between the captures of one operation.
SeenIsOfCheckout == \A a \in run.seen : records[a].seen.lineage = lineageId

\* An operation decides on observations that everyone knows.
DecidedIsKnown ==
    run.step = "decide" => run.todo = {} /\ \A a \in run.seen : known[a] = Observed(a)

\* Files captured again, but not yet registered.
Captured == IF run.step = "capture" THEN run.seen ELSE {}

\* What is known to be present is what the registry saw in this checkout.
PresentIsRecorded ==
    \A a \in Artifacts \ Captured :
        known[a].status = "present" =>
            known[a] = Observed(a) /\ records[a].seen.lineage = lineageId

\* An acceptance rereads every file its answer is about.
AppliedIsReread ==
    run.op = "apply" =>
        /\ run.step \in {"capture", "decide"}
        /\ Files(active[run.workflow].refs) \subseteq run.todo \union run.seen

EvidenceInv ==
    /\ KnownIsBehind
    /\ SeenIsOfCheckout
    /\ DecidedIsKnown
    /\ PresentIsRecorded
    /\ AppliedIsReread

\* Steps beside the running operation.
LEMMA RunStays ==
  ASSUME EvidenceInv, UNCHANGED <<records, lineageId, known, run>>,
         run.op = "apply" => active'[run.workflow].refs = active[run.workflow].refs
  PROVE  EvidenceInv'
<1>1. KnownIsBehind' /\ SeenIsOfCheckout' /\ DecidedIsKnown' /\ PresentIsRecorded'
  BY DEF EvidenceInv, KnownIsBehind, SeenIsOfCheckout, DecidedIsKnown, PresentIsRecorded,
         Captured, Observed
<1>2. AppliedIsReread'
  BY DEF EvidenceInv, AppliedIsReread, Files
<1> QED BY <1>1, <1>2 DEF EvidenceInv

\* Steps that start, continue or end an operation outside of its captures.
LEMMA RunMoves ==
  ASSUME EvidenceInv, UNCHANGED <<records, lineageId, known>>,
         run.step # "capture", run'.step # "decide", run'.seen \subseteq run.seen,
         run'.step = "capture" => run'.seen = {},
         run'.op = "apply" =>
            run'.step = "capture" /\ Files(active'[run'.workflow].refs) \subseteq run'.todo
  PROVE  EvidenceInv'
<1>1. KnownIsBehind' /\ SeenIsOfCheckout' /\ DecidedIsKnown' /\ PresentIsRecorded'
  BY DEF EvidenceInv, KnownIsBehind, SeenIsOfCheckout, DecidedIsKnown, PresentIsRecorded,
         Captured, Observed
<1>2. AppliedIsReread'
  BY DEF AppliedIsReread
<1> QED BY <1>1, <1>2 DEF EvidenceInv

\* Operations begin with nothing captured.
LEMMA CaptureStarts ==
  ASSUME NEW op, NEW files
  PROVE  /\ Capture(op, files).op = op /\ Capture(op, files).step = "capture"
         /\ Capture(op, files).todo = files /\ Capture(op, files).seen = {}
         /\ Capture(op, files).workflow = 0
BY DEF Capture, NoRun

LEMMA DispatchingStarts ==
  ASSUME NEW groups, NEW refs
  PROVE  /\ Dispatching(groups, refs).seen = {}
         /\ Dispatching(groups, refs).step \notin {"capture", "decide"}
         /\ Dispatching(groups, refs).op \in {"none", run.op}
BY DEF Dispatching, NoRun

\* One file is captured: its record is of this checkout and not older.
LEMMA CaptureFileEvidence ==
  ASSUME SchedulerInv, EvidenceInv, NEW a \in Artifacts, CaptureFile(a)
  PROVE  EvidenceInv'
<1>1. /\ run.step = "capture" /\ a \in run.todo /\ run \in Runs
      /\ records \in [Artifacts -> [gen : Nat, seen : Versions]]
      /\ UNCHANGED <<lineageId, known, active>>
  BY DEF SchedulerInv, TypeOK, StoreTypeOK, CaptureFile, schedulerVars
<1>2. run' = [run EXCEPT !.todo = run.todo \ {a}, !.seen = run.seen \union {a}]
  BY DEF CaptureFile
<1>3. /\ run'.step = "capture" /\ run'.op = run.op /\ run'.workflow = run.workflow
      /\ run'.todo = run.todo \ {a} /\ run'.seen = run.seen \union {a}
  BY <1>1, <1>2 DEF Runs
<1>4. records' = [records EXCEPT ![a] = [gen |-> NextGeneration(a), seen |-> Inspect(a)]]
  BY DEF CaptureFile, CaptureOne
<1>5. /\ records'[a].gen = NextGeneration(a) /\ records'[a].seen = Inspect(a)
      /\ \A b \in Artifacts : b # a => records'[b] = records[b]
  BY <1>1, <1>4
<1>6. records[a].gen \in Nat /\ NextGeneration(a) \in Nat /\ NextGeneration(a) > 0
      /\ records[a].gen <= NextGeneration(a)
  BY <1>1, StoreAssumption DEF NextGeneration
<1>7. Inspect(a).lineage = lineageId
  BY DEF Inspect
<1>8. KnownIsBehind'
  <2>1. known[a].gen \in Nat
    BY DEF SchedulerInv, TypeOK, Observations
  <2>2. known[a].gen <= records'[a].gen /\ records'[a].gen # 0
    BY <1>5, <1>6, <2>1 DEF EvidenceInv, KnownIsBehind
  <2> QED BY <1>1, <1>5, <2>2 DEF EvidenceInv, KnownIsBehind
<1>9. SeenIsOfCheckout'
  <2>1. run.seen \subseteq Artifacts
    BY <1>1 DEF Runs
  <2> QED BY <1>1, <1>3, <1>5, <1>7, <2>1 DEF EvidenceInv, SeenIsOfCheckout
<1>10. DecidedIsKnown'
  BY <1>3 DEF DecidedIsKnown
<1>11. PresentIsRecorded'
  <2>1. ASSUME NEW b \in Artifacts \ Captured'
        PROVE b # a /\ b \notin Captured /\ records'[b] = records[b]
    BY <1>1, <1>3, <1>5, <2>1 DEF Captured
  <2> QED BY <1>1, <2>1 DEF EvidenceInv, PresentIsRecorded, Observed
<1>12. AppliedIsReread'
  BY <1>1, <1>3 DEF EvidenceInv, AppliedIsReread, Files
<1> QED BY <1>8, <1>9, <1>10, <1>11, <1>12 DEF EvidenceInv

\* What was captured becomes known.
LEMMA RegisterSeenEvidence ==
  ASSUME SchedulerInv, EvidenceInv, RegisterSeen
  PROVE  EvidenceInv'
<1>1. /\ run.step = "capture" /\ run.todo = {} /\ run \in Runs
      /\ UNCHANGED <<records, lineageId, active>>
      /\ records \in [Artifacts -> [gen : Nat, seen : Versions]]
  BY DEF SchedulerInv, TypeOK, StoreTypeOK, RegisterSeen, storeVars, schedulerVars
<1>2. run' = [run EXCEPT !.step = "decide", !.changed = {a \in run.seen : known[a] # Observed(a)}]
  BY DEF RegisterSeen
<1>3. /\ run'.step = "decide" /\ run'.op = run.op /\ run'.workflow = run.workflow
      /\ run'.todo = {} /\ run'.seen = run.seen /\ run.seen \subseteq Artifacts
  BY <1>1, <1>2 DEF Runs
<1>4. known' = [a \in Artifacts |-> IF a \in run.seen
                                    THEN [b \in Artifacts |-> Observed(b)][a] ELSE known[a]]
  BY DEF RegisterSeen, Register
<1>5. \A a \in Artifacts : known'[a] = IF a \in run.seen THEN Observed(a) ELSE known[a]
  BY <1>4
<1>6. \A a \in Artifacts : Observed(a).gen = records[a].gen /\ Observed(a)' = Observed(a)
                           /\ records[a].gen <= records[a].gen
  BY <1>1 DEF Observed
<1>7. KnownIsBehind'
  BY <1>1, <1>5, <1>6 DEF EvidenceInv, KnownIsBehind
<1>8. SeenIsOfCheckout'
  BY <1>1, <1>3 DEF EvidenceInv, SeenIsOfCheckout
<1>9. DecidedIsKnown'
  BY <1>3, <1>5, <1>6 DEF DecidedIsKnown
<1>10. PresentIsRecorded'
  <2>1. ASSUME NEW a \in Artifacts, known'[a].status = "present"
        PROVE known'[a] = Observed(a) /\ records[a].seen.lineage = lineageId
    BY <1>1, <1>5, <2>1 DEF EvidenceInv, PresentIsRecorded, SeenIsOfCheckout, Captured
  <2> QED BY <1>1, <1>6, <2>1 DEF PresentIsRecorded
<1>11. AppliedIsReread'
  BY <1>1, <1>3 DEF EvidenceInv, AppliedIsReread, Files
<1> QED BY <1>7, <1>8, <1>9, <1>10, <1>11 DEF EvidenceInv

\* A checkout change withdraws every observation, between two operations.
LEMMA CheckoutEvidence ==
  ASSUME SchedulerInv, EvidenceInv, NEW id, NEW usable, ObserveLineage(id, usable)
  PROVE  EvidenceInv'
<1>1. /\ run = NoRun /\ UNCHANGED <<records, run>> /\ lineageId' = id
      /\ records \in [Artifacts -> [gen : Nat, seen : Versions]]
  BY DEF SchedulerInv, TypeOK, StoreTypeOK, ObserveLineage, Quiet
<1>2. run.step = "idle" /\ run.seen = {} /\ run.op = "none"
  BY <1>1 DEF NoRun
<1>3. CASE id # lineageId
  <2>1. known' = [a \in Artifacts |-> IF a \in Tracked THEN [b \in Artifacts |-> Withdrawn(b)][a]
                                      ELSE known[a]]
    BY <1>3 DEF ObserveLineage
  <2>2. \A a \in Artifacts : known'[a] = IF a \in Tracked THEN Withdrawn(a) ELSE known[a]
    BY <2>1
  <2>3. \A a \in Artifacts : Withdrawn(a).gen = records[a].gen /\ Withdrawn(a).status = "unavailable"
                             /\ records[a].gen <= records[a].gen
    BY <1>1 DEF Withdrawn
  <2>4. KnownIsBehind'
    BY <1>1, <2>2, <2>3 DEF EvidenceInv, KnownIsBehind
  <2>5. ASSUME NEW a \in Artifacts PROVE known'[a].status # "present"
    <3>1. CASE a \in Tracked
      BY <2>2, <2>3, <3>1
    <3>2. CASE a \notin Tracked
      <4>1. records[a].seen.status = "missing" /\ known'[a] = known[a]
        BY <2>2, <3>2 DEF Tracked, EvidenceInv, KnownIsBehind
      <4>2. known[a].status = "present" => known[a] = Observed(a)
        BY <1>2 DEF EvidenceInv, PresentIsRecorded, Captured
      <4> QED BY <4>1, <4>2 DEF Observed
    <3> QED BY <3>1, <3>2
  <2>6. PresentIsRecorded'
    BY <2>5 DEF PresentIsRecorded
  <2> QED BY <1>1, <1>2, <2>4, <2>6
          DEF EvidenceInv, SeenIsOfCheckout, DecidedIsKnown, AppliedIsReread
<1>4. CASE id = lineageId
  <2>1. UNCHANGED <<known, lineageId>>
    BY <1>1, <1>4 DEF ObserveLineage
  <2> QED BY <1>1, <1>2, <2>1, RunStays
<1> QED BY <1>3, <1>4

\* Hooks, reconciliations and revalidations start between two operations.
LEMMA RequestEvidence ==
  ASSUME SchedulerInv, EvidenceInv, Hooks \/ Reconciliation \/ Revalidation
  PROVE  EvidenceInv'
<1>1. run = NoRun /\ NoRun.step = "idle"
  BY DEF Hooks, Ingest, Reconciliation, Reconcile, Revalidation, Revalidate, Quiet, NoRun
<1>2. UNCHANGED <<records, lineageId, known>>
  BY DEF Hooks, Ingest, Reconciliation, Reconcile, Revalidation, Revalidate, storeVars
<1>3. run'.step = "capture" /\ run'.seen = {} /\ run'.op # "apply"
  <2>1. ASSUME NEW s, NEW kind \in {"started", "requested", "tool"}, NEW named, NEW found,
               Ingest(s, kind, named, found)
        PROVE run'.step = "capture" /\ run'.seen = {} /\ run'.op # "apply"
    BY <2>1 DEF Ingest, Capture, NoRun
  <2>2. ASSUME NEW found, NEW again, Reconcile(found, again)
        PROVE run'.step = "capture" /\ run'.seen = {} /\ run'.op # "apply"
    BY <2>2, CaptureStarts DEF Reconcile
  <2>3. ASSUME NEW files, Revalidate(files)
        PROVE run'.step = "capture" /\ run'.seen = {} /\ run'.op # "apply"
    BY <2>3, CaptureStarts DEF Revalidate
  <2> QED BY <2>1, <2>2, <2>3 DEF Hooks, Reconciliation, Revalidation
<1> QED BY <1>1, <1>2, <1>3, RunMoves

\* Pause, resume, close, selection, edits and answers leave the operation alone.
LEMMA BesideEvidence ==
  ASSUME SchedulerInv, EvidenceInv, Control \/ Edits \/ Answers \/ Finishing
  PROVE  EvidenceInv'
<1>1. UNCHANGED <<records, lineageId, known, run>>
  BY DEF Control, Pause, Resume, Close, SelectSession, Edits, EditFile, Answers, Answer,
         Finishing, FinishWorkflow, storeVars
<1>2. active \in [Workflows -> Jobs]
  BY DEF SchedulerInv, TypeOK
<1>3. ASSUME run.op = "apply" PROVE active'[run.workflow].refs = active[run.workflow].refs
  <2>1. run.workflow \in Workflows /\ active[run.workflow].phase = "answered"
        /\ active[run.workflow] \in Jobs
    BY <1>3, RunningWorkflow DEF PhaseFor
  <2>2. CASE Control \/ Edits
    <3>1. active' = active \/ active' = AllAborted
      BY <2>2 DEF Control, Pause, Resume, Close, SelectSession, Edits, schedulerVars
    <3>2. AllAborted[run.workflow].refs = active[run.workflow].refs
      BY <2>1 DEF AllAborted, Jobs
    <3> QED BY <3>1, <3>2
  <2>3. ASSUME NEW w \in Workflows, NEW result, NEW timeout, Answer(w, result, timeout)
        PROVE active'[run.workflow].refs = active[run.workflow].refs
    <3>1. active[w].phase = "asked"
      BY <2>3 DEF Answer
    <3>2. active'[run.workflow] = active[run.workflow]
      BY <1>2, <2>1, <2>3, <3>1 DEF Answer
    <3> QED BY <3>2
  <2>4. ASSUME NEW w \in Workflows, FinishWorkflow(w)
        PROVE active'[run.workflow].refs = active[run.workflow].refs
    <3> DEFINE jobs == [active EXCEPT ![w] = NoJob]
    <3>1. active[w].phase = "finished" /\ Pump(queue, jobs)
      BY <2>4 DEF FinishWorkflow
    <3>2. jobs[run.workflow] = active[run.workflow] /\ run.workflow \notin Free(jobs)
      BY <1>2, <2>1, <3>1 DEF Free
    <3> HIDE DEF jobs
    <3>3. CASE PumpsNothing(queue, jobs)
      BY <3>2, <3>3 DEF PumpsNothing
    <3>4. ASSUME NEW v \in Workflows, PumpsOne(queue, jobs, v)
          PROVE active'[run.workflow] = jobs[run.workflow]
      <4>1. v # run.workflow /\ active' = [jobs EXCEPT ![v] = Started(Head(queue))]
        BY <3>2, <3>4 DEF PumpsOne
      <4> QED BY <4>1
    <3> QED BY <3>1, <3>2, <3>3, <3>4, PumpCases
  <2> QED BY <2>2, <2>3, <2>4 DEF Answers, Finishing
<1> QED BY <1>1, <1>3, RunStays

\* Decisions, acceptances and dispatches end an operation or move it on.
LEMMA DecisionEvidence ==
  ASSUME SchedulerInv, EvidenceInv,
         \/ DecideNothing \/ DecideEvent \/ DecideReconcile \/ DecideFlush \/ DecideRefresh
         \/ Acceptance \/ Dispatch \/ \E again \in Rereads : DecideTool(again)
  PROVE  EvidenceInv'
<1>1. UNCHANGED <<records, lineageId, known>>
  <2>1. CASE DecideNothing \/ DecideEvent \/ DecideReconcile \/ DecideFlush \/ DecideRefresh
             \/ \E again \in Rereads : DecideTool(again)
    BY <2>1 DEF DecideNothing, DecideEvent, DecideReconcile, DecideFlush, DecideRefresh,
                DecideTool, storeVars
  <2>2. CASE Acceptance
    BY <2>2 DEF Acceptance, SetAside, JudgeIrrelevant, AcceptAnswer, Leave, LeaveDeferred, storeVars
  <2>3. CASE Dispatch
    BY <2>3 DEF Dispatch, SkipGroup, DeferGroup, SupersedeGroup, DropGroup, QueueGroup,
                DispatchNext, storeVars
  <2> QED BY <2>1, <2>2, <2>3
<1>2. NoRun.step = "idle" /\ NoRun.seen = {} /\ NoRun.op = "none"
  BY DEF NoRun
<1>3. CASE run' = NoRun /\ run.step # "capture"
  BY <1>1, <1>2, <1>3, RunMoves
<1>4. CASE DecideNothing \/ DecideRefresh \/ Acceptance
  <2>1. run' = NoRun /\ run.step = "decide"
    BY <1>4 DEF DecideNothing, DecideRefresh, Acceptance, SetAside, JudgeIrrelevant,
                AcceptAnswer, Leave, LeaveDeferred, Proceed, Deciding
  <2> QED BY <1>3, <2>1
<1>5. CASE DecideEvent \/ DecideReconcile \/ DecideFlush
  <2>1. /\ run.step = "decide" /\ run.op # "apply"
        /\ run' = NoRun \/ \E groups, refs : run' = Dispatching(groups, refs)
    BY <1>5 DEF DecideEvent, DecideReconcile, DecideFlush, Deciding, Proceed
  <2>2. ASSUME NEW groups, NEW refs, run' = Dispatching(groups, refs) PROVE EvidenceInv'
    <3>1. run'.seen = {} /\ run'.step \notin {"capture", "decide"} /\ run'.op # "apply"
      BY <2>1, <2>2, DispatchingStarts
    <3> QED BY <1>1, <2>1, <3>1, RunMoves
  <2> QED BY <1>3, <2>1, <2>2
<1>6. ASSUME NEW again, DecideTool(again) PROVE EvidenceInv'
  <2>1. run.step = "decide" /\ run \in Runs
        /\ run' = [run EXCEPT !.op = "again", !.step = "capture", !.todo = again,
                              !.seen = {}, !.changed = {}, !.refs = Candidates]
    BY <1>6 DEF DecideTool, Deciding, SchedulerInv, TypeOK
  <2>2. run'.step = "capture" /\ run'.seen = {} /\ run'.op = "again"
    BY <2>1 DEF Runs
  <2> QED BY <1>1, <2>1, <2>2, RunMoves
<1>7. CASE Dispatch
  <2>1. PICK group \in run.groups : DispatchNext(group)
    BY <1>7 DEF Dispatch, SkipGroup, DeferGroup, SupersedeGroup, DropGroup, QueueGroup
  <2>2. /\ run.step = "dispatch" /\ run \in Runs
        /\ run' = NoRun \/ run' = [run EXCEPT !.groups = run.groups \ {group}]
    BY <2>1 DEF DispatchNext, Proceed, SchedulerInv, TypeOK
  <2>3. CASE run' = [run EXCEPT !.groups = run.groups \ {group}]
    <3>1. run'.step = "dispatch" /\ run'.seen = run.seen /\ run'.op = run.op
      BY <2>2, <2>3 DEF Runs
    <3>2. run.op # "apply"
      BY <2>2 DEF EvidenceInv, AppliedIsReread
    <3> QED BY <1>1, <2>2, <3>1, <3>2, RunMoves
  <2> QED BY <1>3, <2>2, <2>3
<1> QED BY <1>4, <1>5, <1>6, <1>7

\* The operations of the serial queue: an acceptance captures every file of its job.
LEMMA StartingEvidence ==
  ASSUME SchedulerInv, EvidenceInv, StartNext
  PROVE  EvidenceInv'
<1>1. run = NoRun /\ NoRun.step = "idle" /\ NoRun.seen = {} /\ NoRun.op = "none"
  BY DEF StartNext, StartFlush, StartRefresh, StartApply, Starting, Quiet, NoRun
<1>2. UNCHANGED <<records, lineageId, known>>
  BY DEF StartNext, StartFlush, StartRefresh, StartApply, Leave, LeaveDeferred, CaptureFor,
         storeVars
<1>3. CASE run' = NoRun
  BY <1>1, <1>2, <1>3, RunMoves
<1>4. CASE StartFlush
  <2>1. \/ run' = run
        \/ \E files : run' = [Capture(Head(ops).op, files) EXCEPT !.work = deferred]
    BY <1>4 DEF StartFlush
  <2>2. Head(ops).op # "apply"
    BY <1>4 DEF StartFlush, Starting
  <2>3. ASSUME NEW files, run' = [Capture(Head(ops).op, files) EXCEPT !.work = deferred]
        PROVE EvidenceInv'
    <3>1. run'.step = "capture" /\ run'.seen = {} /\ run'.op = Head(ops).op
      BY <2>3 DEF Capture, NoRun
    <3> QED BY <1>1, <1>2, <2>2, <3>1, RunMoves
  <2> QED BY <1>1, <1>3, <2>1, <2>3
<1>5. ASSUME CaptureFor(Files(active[Worker].refs)) PROVE EvidenceInv'
  <2>1. active' = active
        /\ run' = [Capture(Head(ops).op, Files(active[Worker].refs)) EXCEPT !.workflow = Worker]
    BY <1>5 DEF CaptureFor, schedulerVars
  <2>2. run'.step = "capture" /\ run'.seen = {} /\ run'.todo = Files(active[Worker].refs)
        /\ run'.workflow = Worker
    BY <2>1 DEF Capture, NoRun
  <2>3. Files(active'[run'.workflow].refs) \subseteq run'.todo
    BY <2>1, <2>2
  <2> QED BY <1>1, <1>2, <2>2, <2>3, RunMoves
<1>6. CASE StartRefresh \/ StartApply
  <2>1. run' = NoRun \/ CaptureFor(Files(active[Worker].refs))
    BY <1>6 DEF StartRefresh, StartApply, Leave, LeaveDeferred, Proceed
  <2> QED BY <1>3, <1>5, <2>1
<1> QED BY <1>4, <1>6 DEF StartNext

LEMMA NextKeepsEvidence ==
  ASSUME SchedulerInv, EvidenceInv, [Next]_vars
  PROVE  EvidenceInv'
<1>1. CASE Hooks \/ Reconciliation \/ Revalidation
  BY <1>1, RequestEvidence
<1>2. CASE Checkout
  BY <1>2, CheckoutEvidence DEF Checkout
<1>3. CASE Control \/ Edits \/ Answers \/ Finishing
  BY <1>3, BesideEvidence
<1>4. CASE (\E a \in Artifacts : CaptureFile(a)) \/ RegisterSeen
  BY <1>4, CaptureFileEvidence, RegisterSeenEvidence
<1>5. CASE \/ DecideNothing \/ DecideEvent \/ DecideReconcile \/ DecideFlush \/ DecideRefresh
           \/ Acceptance \/ Dispatch \/ \E again \in Rereads : DecideTool(again)
  BY <1>5, DecisionEvidence
<1>6. CASE StartNext
  BY <1>6, StartingEvidence
<1>7. CASE UNCHANGED vars
  BY <1>7, RunStays DEF vars, storeVars, schedulerVars
<1> QED BY <1>1, <1>2, <1>3, <1>4, <1>5, <1>6, <1>7 DEF Next, Environment, Continue

LEMMA InitEvidence == Init => EvidenceInv
BY DEF Init, StoreInit, Unseen, Unknown, NoRun, EvidenceInv, KnownIsBehind, SeenIsOfCheckout,
       DecidedIsKnown, PresentIsRecorded, AppliedIsReread
----
(***************************************************************************)
(* The diagrams: what invalidation and compilation do to the claims.        *)
(***************************************************************************)

\* A session that is gone keeps no diagram.
GoneDrawNothing == \A s \in Sessions : session[s] = 0 => graph[s] = EmptyGraph

EndsDrawn(g) == \A c \in Drawn(g) : \A a \in c : {a} \in Drawn(g)

DrawnInv ==
    /\ GoneDrawNothing
    /\ CurrentClaimsMatchKnown
    /\ RelationshipEndsDrawn

LEMMA EmptyGraphClaims ==
    /\ \A c \in ClaimIds : EmptyGraph[c].refs = NoRefs /\ ~ EmptyGraph[c].current
    /\ EndsDrawn(EmptyGraph)
BY DEF EmptyGraph, NoClaim, EndsDrawn, Drawn

\* invalidateArtifacts never makes a claim current, and leaves as current only
\* what no observation disturbs.
LEMMA InvalidateCurrent ==
  ASSUME NEW g \in Graphs, NEW changed \in SUBSET Artifacts, NEW obs, NEW c \in ClaimIds,
         Invalidate(g, changed, obs)[c].current
  PROVE  /\ Invalidate(g, changed, obs)[c] = g[c]
         /\ \A a \in changed : ~ Disturbs(g[c].refs, a, obs)
<1> DEFINE claim == [d \in ClaimIds |-> InvalidClaim(g[d], changed, obs)]
           Removed(n) == n \in Drawn(g) /\ claim[n].refs = NoRefs
<1>1. Invalidate(g, changed, obs)[c] = IF \E a \in c : Removed({a}) THEN NoClaim ELSE claim[c]
  BY DEF Invalidate
<1>2. ~ NoClaim.current
  BY DEF NoClaim
<1>3. Invalidate(g, changed, obs)[c] = InvalidClaim(g[c], changed, obs)
  BY <1>1, <1>2
<1>4. ~ \E a \in changed : Disturbs(g[c].refs, a, obs)
  <2>1. SUFFICES ASSUME \E a \in changed : Disturbs(g[c].refs, a, obs)
                 PROVE  ~ InvalidClaim(g[c], changed, obs).current
    BY <1>3
  <2> QED BY <2>1 DEF InvalidClaim
<1> QED BY <1>3, <1>4 DEF InvalidClaim

\* invalidateArtifacts removes a relationship with the first of its nodes.
LEMMA InvalidateEnds ==
  ASSUME NEW g \in Graphs, NEW changed \in SUBSET Artifacts, NEW obs, EndsDrawn(g)
  PROVE  EndsDrawn(Invalidate(g, changed, obs))
<1> DEFINE claim == [d \in ClaimIds |-> InvalidClaim(g[d], changed, obs)]
           Removed(n) == n \in Drawn(g) /\ claim[n].refs = NoRefs
           h == Invalidate(g, changed, obs)
<1>1. \A c \in ClaimIds : h[c] = IF \E a \in c : Removed({a}) THEN NoClaim ELSE claim[c]
  BY DEF Invalidate
<1>2. ASSUME NEW c \in ClaimIds, g[c].refs = NoRefs PROVE claim[c].refs = NoRefs
  <2>1. \A a \in changed : ~ Disturbs(g[c].refs, a, obs)
    BY <1>2 DEF NoRefs, Disturbs
  <2> QED BY <1>2, <2>1 DEF InvalidClaim
<1>3. ASSUME NEW c \in ClaimIds, h[c].refs # NoRefs, NEW a \in c
      PROVE {a} \in ClaimIds /\ h[{a}].refs # NoRefs
  <2> HIDE DEF claim, h
  <2>0. NoClaim.refs = NoRefs
    BY DEF NoClaim
  <2>1. ~ Removed({a}) /\ claim[c].refs # NoRefs
    BY <1>1, <1>3, <2>0
  <2>2. c \in Drawn(g)
    BY <1>2, <1>3, <2>1 DEF Drawn
  <2>3. {a} \in Drawn(g) /\ {a} \in ClaimIds
    BY <1>3, <2>2 DEF EndsDrawn, Drawn
  <2>4. claim[{a}].refs # NoRefs
    BY <2>1, <2>3
  <2>5. h[{a}] = claim[{a}]
    BY <1>1, <2>1, <2>3
  <2> QED BY <2>3, <2>4, <2>5
<1> HIDE DEF h
<1> QED BY <1>3 DEF EndsDrawn, Drawn, h

LEMMA InvalidateEmpty ==
  ASSUME NEW changed \in SUBSET Artifacts, NEW obs
  PROVE  Invalidate(EmptyGraph, changed, obs) = EmptyGraph
<1>1. ASSUME NEW c \in ClaimIds PROVE InvalidClaim(EmptyGraph[c], changed, obs) = NoClaim
  <2>1. EmptyGraph[c] = NoClaim
    BY DEF EmptyGraph
  <2>2. \A a \in changed : ~ Disturbs(NoClaim.refs, a, obs)
    BY DEF NoClaim, NoRefs, Disturbs
  <2> QED BY <2>1, <2>2 DEF InvalidClaim
<1>2. Invalidate(EmptyGraph, changed, obs) = [c \in ClaimIds |-> NoClaim]
  BY <1>1 DEF Invalidate
<1> QED BY <1>2 DEF EmptyGraph

\* compileDecision: a claim is as it was, or cites what was asked about.
LEMMA CompileClaims ==
  ASSUME NEW g \in Graphs, NEW refs \in References, NEW answer \in SUBSET ClaimIds,
         answer \subseteq AnswerableClaims(refs), NEW c \in ClaimIds
  PROVE  \/ Compile(g, refs, answer)[c] = g[c]
         \/ /\ c \in Admitted(g, refs, answer) /\ c \subseteq Files(refs)
            /\ Compile(g, refs, answer)[c].refs = [a \in Artifacts |-> IF a \in c THEN refs[a] ELSE 0]
<1>1. c \in Admitted(g, refs, answer) => c \in answer
  BY DEF Admitted
<1> QED BY <1>1 DEF Compile, AnswerableClaims

\* compileDecision admits a relationship only with its nodes.
LEMMA CompileEnds ==
  ASSUME NEW g \in Graphs, NEW refs \in References, NEW answer \in SUBSET ClaimIds,
         answer \subseteq AnswerableClaims(refs), EndsDrawn(g)
  PROVE  EndsDrawn(Compile(g, refs, answer))
<1> DEFINE h == Compile(g, refs, answer)
           admitted == Admitted(g, refs, answer)
<1>1. \A c \in admitted : c \in ClaimIds /\ c \subseteq Files(refs)
  BY DEF Admitted, AnswerableClaims
<1>2. \A c \in ClaimIds : h[c] = IF c \in admitted
        THEN [refs |-> [a \in Artifacts |-> IF a \in c THEN refs[a] ELSE 0], current |-> TRUE]
        ELSE g[c]
  BY DEF Compile
<1>3. ASSUME NEW c \in admitted, NEW a \in c PROVE {a} \in admitted
  <2> DEFINE open == {d \in answer : ~ Blocked(g, d, refs)}
  <2>1. admitted = {d \in open : \A b \in d : {b} \in open}
    BY DEF Admitted
  <2> HIDE DEF admitted, open
  <2>2. {a} \in open
    BY <1>3, <2>1
  <2>3. \A b \in {a} : {b} \in open
    <3> SUFFICES ASSUME NEW b \in {a} PROVE {b} \in open
      OBVIOUS
    <3>1. b = a
      OBVIOUS
    <3> QED BY <2>2, <3>1
  <2> QED BY <2>1, <2>2, <2>3
<1>4. ASSUME NEW c \in admitted, NEW a \in c PROVE h[c].refs # NoRefs
  <2>1. a \in Artifacts /\ refs[a] # 0 /\ c \in ClaimIds
    BY <1>1, <1>4 DEF Files
  <2>2. h[c].refs = [b \in Artifacts |-> IF b \in c THEN refs[b] ELSE 0]
    BY <1>4, <2>1 DEF Compile
  <2> HIDE DEF admitted, h
  <2>3. h[c].refs[a] = refs[a]
    BY <1>4, <2>1, <2>2
  <2> QED BY <2>1, <2>3 DEF NoRefs
<1> HIDE DEF admitted, h
<1>5. ASSUME NEW c \in ClaimIds, h[c].refs # NoRefs, NEW a \in c
      PROVE {a} \in ClaimIds /\ h[{a}].refs # NoRefs
  <2>1. CASE c \in admitted
    <3>1. {a} \in admitted
      BY <1>3, <1>5, <2>1
    <3> QED BY <1>1, <1>4, <3>1
  <2>2. CASE c \notin admitted
    <3>1. c \in Drawn(g)
      BY <1>2, <1>5, <2>2 DEF Drawn
    <3>2. {a} \in Drawn(g)
      BY <1>5, <3>1 DEF EndsDrawn
    <3>3. {a} \in ClaimIds /\ g[{a}].refs # NoRefs
      BY <3>2 DEF Drawn
    <3>4. CASE {a} \in admitted
      BY <1>4, <3>3, <3>4
    <3>5. CASE {a} \notin admitted
      BY <1>2, <3>3, <3>5
    <3> QED BY <3>3, <3>4, <3>5
  <2> QED BY <2>1, <2>2
<1> QED BY <1>5 DEF EndsDrawn, Drawn, h
----
(***************************************************************************)
(* The diagrams of all sessions, step by step.                              *)
(***************************************************************************)
NothingRevived == \A s \in Sessions, c \in ClaimIds : ~ Revived(s, c)

\* Steps that at most clear diagrams.
LEMMA GraphsStay ==
  ASSUME DrawnInv, known' = known,
         \A s \in Sessions : graph'[s] = graph[s] \/ graph'[s] = EmptyGraph,
         \A s \in Sessions : session'[s] = 0 => session[s] = 0 \/ graph'[s] = EmptyGraph
  PROVE  DrawnInv' /\ NothingRevived
<1>1. GoneDrawNothing'
  BY DEF DrawnInv, GoneDrawNothing
<1>2. CurrentClaimsMatchKnown'
  BY EmptyGraphClaims DEF DrawnInv, CurrentClaimsMatchKnown
<1>3. RelationshipEndsDrawn'
  <2> SUFFICES ASSUME NEW s \in Sessions PROVE EndsDrawn(graph'[s])
    BY DEF RelationshipEndsDrawn, EndsDrawn
  <2>1. EndsDrawn(graph[s])
    BY DEF DrawnInv, RelationshipEndsDrawn, EndsDrawn
  <2> QED BY <2>1, EmptyGraphClaims
<1>4. NothingRevived
  BY EmptyGraphClaims DEF NothingRevived, Revived
<1> QED BY <1>1, <1>2, <1>3, <1>4 DEF DrawnInv

\* Observations as new as what is known, brought to every diagram.
LEMMA ObservationsReachGraphs ==
  ASSUME TypeOK, DrawnInv, NEW observed \in SUBSET Artifacts,
         NEW changed \in SUBSET Artifacts, NEW obs \in [Artifacts -> Observations],
         \A a \in Artifacts : a \in changed <=> a \in observed /\ known[a] # obs[a],
         \A a \in observed : known[a].gen <= obs[a].gen,
         \A a \in Artifacts : known'[a] = IF a \in observed THEN obs[a] ELSE known[a],
         \A s \in Sessions :
            graph'[s] = Invalidate(graph[s], changed, obs) \/ graph'[s] = EmptyGraph,
         GoneDrawNothing'
  PROVE  DrawnInv' /\ NothingRevived
<1>0. graph \in [Sessions -> Graphs]
  BY DEF TypeOK
<1>1. ASSUME NEW s \in Sessions, NEW c \in ClaimIds, graph'[s][c].current
      PROVE /\ graph'[s][c] = graph[s][c]
            /\ \A a \in Files(graph[s][c].refs) :
                    known'[a] = [gen |-> graph[s][c].refs[a], status |-> "present"]
  <2>1. graph'[s] = Invalidate(graph[s], changed, obs)
    BY <1>1, EmptyGraphClaims
  <2>2. /\ graph'[s][c] = graph[s][c]
        /\ \A a \in changed : ~ Disturbs(graph[s][c].refs, a, obs)
    BY <1>0, <1>1, <2>1, InvalidateCurrent
  <2>3. ASSUME NEW a \in Files(graph[s][c].refs)
        PROVE known'[a] = [gen |-> graph[s][c].refs[a], status |-> "present"]
    <3>1. a \in Artifacts /\ graph[s][c].refs[a] # 0
          /\ known[a] = [gen |-> graph[s][c].refs[a], status |-> "present"]
      BY <1>1, <2>2 DEF Files, DrawnInv, CurrentClaimsMatchKnown
    <3>2. CASE a \in changed
      <4>1. obs[a].gen >= graph[s][c].refs[a]
        BY <3>1, <3>2 DEF Observations, TypeOK
      <4>2. obs[a].status = "present" /\ obs[a].gen = graph[s][c].refs[a]
        BY <2>2, <3>1, <3>2, <4>1 DEF Disturbs
      <4>3. obs[a] = known[a]
        BY <3>1, <4>2 DEF Observations
      <4> QED BY <3>2, <4>3
    <3>3. CASE a \notin changed
      BY <3>1, <3>3
    <3> QED BY <3>2, <3>3
  <2> QED BY <2>2, <2>3
<1>2. CurrentClaimsMatchKnown'
  BY <1>1 DEF CurrentClaimsMatchKnown
<1>3. NothingRevived
  BY <1>1 DEF NothingRevived, Revived
<1>4. RelationshipEndsDrawn'
  <2> SUFFICES ASSUME NEW s \in Sessions PROVE EndsDrawn(graph'[s])
    BY DEF RelationshipEndsDrawn, EndsDrawn
  <2>1. EndsDrawn(graph[s])
    BY DEF DrawnInv, RelationshipEndsDrawn, EndsDrawn
  <2>2. graph[s] \in Graphs
    BY <1>0
  <2> QED BY <1>0, <2>1, <2>2, EmptyGraphClaims, InvalidateEnds
<1> QED BY <1>2, <1>3, <1>4 DEF DrawnInv

\* The steps that write no diagram, or only clear those of evicted sessions.
LEMMA OtherGraphs ==
  ASSUME TypeOK, DrawnInv,
         \/ Hooks \/ UNCHANGED <<known, session, graph>>
  PROVE  DrawnInv' /\ NothingRevived
<1>1. CASE UNCHANGED <<known, session, graph>>
  BY <1>1, GraphsStay
<1>2. ASSUME NEW s \in Sessions, EnsureSession(s), known' = known
      PROVE  DrawnInv' /\ NothingRevived
  <2>1. PICK victims \in SUBSET Sessions :
            /\ session' = [x \in Sessions |-> IF x \in victims THEN 0
                             ELSE IF x = s /\ session[s] = 0 THEN created + 1 ELSE session[x]]
            /\ graph' = [x \in Sessions |-> IF x \in victims THEN EmptyGraph ELSE graph[x]]
    BY <1>2 DEF EnsureSession, Evictable, Live
  <2> QED BY <1>2, <2>1, GraphsStay
<1> QED BY <1>1, <1>2 DEF Hooks, Ingest

\* A reread reaches the diagram of every session.
LEMMA RegisterSeenGraphs ==
  ASSUME SchedulerInv, EvidenceInv, DrawnInv, RegisterSeen
  PROVE  DrawnInv' /\ NothingRevived
<1> DEFINE obs == [a \in Artifacts |-> Observed(a)]
           changed == {a \in run.seen : known[a] # obs[a]}
           g == [s \in Sessions |->
                   IF s \in Live THEN Invalidate(graph[s], changed, obs) ELSE graph[s]]
           d == [s \in Sessions |->
                   IF s \in Live /\ paused /\ TransmitSource
                   THEN deferred[s] \union (changed \intersect Supported(graph[s]))
                   ELSE deferred[s]]
<1>1. TypeOK /\ obs \in [Artifacts -> Observations] /\ run.seen \in SUBSET Artifacts
  BY ObservedType DEF SchedulerInv, TypeOK, Runs
<1>2. /\ known' = [a \in Artifacts |-> IF a \in run.seen THEN obs[a] ELSE known[a]]
      /\ \E victims \in Overflows(g) : Retain(victims, g, d, completed)
  BY DEF RegisterSeen, Register
<1>3. PICK victims : Retain(victims, g, d, completed)
  BY <1>2
<1>4. \A a \in run.seen : known[a].gen <= obs[a].gen
  BY <1>1 DEF EvidenceInv, KnownIsBehind, Observed
<1>5. ASSUME NEW s \in Sessions
      PROVE /\ graph'[s] = Invalidate(graph[s], changed, obs) \/ graph'[s] = EmptyGraph
            /\ session'[s] = 0 => graph'[s] = EmptyGraph
  <2>1. /\ session'[s] = IF s \in victims THEN 0 ELSE session[s]
        /\ graph'[s] = IF s \in victims THEN EmptyGraph ELSE g[s]
    BY <1>3 DEF Retain
  <2>2. g[s] = IF session[s] # 0 THEN Invalidate(graph[s], changed, obs) ELSE graph[s]
    BY DEF Live
  <2>3. session[s] = 0 => graph[s] = EmptyGraph
    BY DEF DrawnInv, GoneDrawNothing
  <2> HIDE DEF g, changed, obs
  <2> QED BY <2>1, <2>2, <2>3
<1>6. GoneDrawNothing'
  BY <1>5 DEF GoneDrawNothing
<1>7. \A a \in Artifacts : known'[a] = IF a \in run.seen THEN obs[a] ELSE known[a]
  BY <1>2
<1>8. /\ changed \in SUBSET Artifacts
      /\ \A a \in Artifacts : a \in changed <=> a \in run.seen /\ known[a] # obs[a]
  BY <1>1
<1>9. \A s \in Sessions : graph'[s] = Invalidate(graph[s], changed, obs) \/ graph'[s] = EmptyGraph
  BY <1>5
<1> HIDE DEF obs, changed, g, d
<1> QED BY <1>1, <1>4, <1>6, <1>7, <1>8, <1>9, ObservationsReachGraphs

\* A checkout change reaches the diagram of every session.
LEMMA CheckoutGraphs ==
  ASSUME SchedulerInv, EvidenceInv, DrawnInv, NEW id, NEW usable, ObserveLineage(id, usable)
  PROVE  DrawnInv' /\ NothingRevived
<1>1. TypeOK
  BY DEF SchedulerInv
<1>2. CASE id = lineageId
  BY <1>1, <1>2, OtherGraphs DEF ObserveLineage
<1>3. CASE id # lineageId
  <2> DEFINE obs == [a \in Artifacts |-> Withdrawn(a)]
             changed == {a \in Tracked : known[a] # obs[a]}
             g == [s \in Sessions |-> Invalidate(graph[s], changed, obs)]
  <2>1. obs \in [Artifacts -> Observations] /\ Tracked \in SUBSET Artifacts
    BY <1>1, ObservedType DEF Tracked
  <2>2. /\ known' = [a \in Artifacts |-> IF a \in Tracked THEN obs[a] ELSE known[a]]
        /\ \E victims, e, f : Retain(victims, g, e, f)
    BY <1>3 DEF ObserveLineage
  <2>3. PICK victims, e, f : Retain(victims, g, e, f)
    BY <2>2
  <2>4. \A a \in Tracked : known[a].gen <= obs[a].gen
    BY <2>1 DEF EvidenceInv, KnownIsBehind, Withdrawn
  <2>5. changed \in SUBSET Artifacts
    BY <2>1
  <2>6. \A a \in Artifacts : a \in changed <=> a \in Tracked /\ known[a] # obs[a]
    OBVIOUS
  <2>7. \A a \in Artifacts : known'[a] = IF a \in Tracked THEN obs[a] ELSE known[a]
    BY <2>2
  <2> HIDE DEF obs, changed
  <2>8. ASSUME NEW s \in Sessions
        PROVE /\ graph'[s] = Invalidate(graph[s], changed, obs) \/ graph'[s] = EmptyGraph
              /\ session'[s] = 0 => graph'[s] = EmptyGraph
    <3>1. /\ session'[s] = IF s \in victims THEN 0 ELSE session[s]
          /\ graph'[s] = IF s \in victims THEN EmptyGraph ELSE g[s]
      BY <2>3 DEF Retain
    <3>2. g[s] = Invalidate(graph[s], changed, obs)
      OBVIOUS
    <3>3. session[s] = 0 => graph[s] = EmptyGraph
      BY DEF DrawnInv, GoneDrawNothing
    <3>4. Invalidate(EmptyGraph, changed, obs) = EmptyGraph
      BY <2>5, InvalidateEmpty
    <3> HIDE DEF g
    <3> QED BY <3>1, <3>2, <3>3, <3>4
  <2>9. GoneDrawNothing'
    BY <2>8 DEF GoneDrawNothing
  <2>10. \A s \in Sessions : graph'[s] = Invalidate(graph[s], changed, obs) \/ graph'[s] = EmptyGraph
    BY <2>8
  <2> HIDE DEF g
  <2> QED BY <1>1, <2>1, <2>4, <2>5, <2>6, <2>7, <2>9, <2>10, ObservationsReachGraphs
<1> QED BY <1>2, <1>3

RevivedWhileRunning == \A s \in Sessions, c \in ClaimIds : Revived(s, c) => ~ Stopped

\* An accepted answer draws what was reread for it, in the session that asked.
LEMMA AcceptGraphs ==
  ASSUME SchedulerInv, JobsInv, EvidenceInv, DrawnInv,
         NEW answer \in SUBSET ClaimIds, AcceptAnswer(answer)
  PROVE  DrawnInv' /\ AcceptedByOwner /\ RevivedWhileRunning
<1> DEFINE w == run.workflow
           job == active[w]
           g == [graph EXCEPT ![job.owner] = Compile(@, job.refs, answer)]
<1>1. /\ run.op = "apply" /\ run.step = "decide" /\ known' = known
      /\ Judgeable(job) /\ answer \subseteq AnswerableClaims(job.refs)
  BY DEF AcceptAnswer, Deciding
<1>2. w \in Workflows /\ job.phase = "answered" /\ job \in Jobs
      /\ graph \in [Sessions -> Graphs]
  BY <1>1, RunningWorkflow DEF PhaseFor, SchedulerInv, TypeOK
<1>3. PICK victims :
        /\ session' = [s \in Sessions |-> IF s \in victims THEN 0 ELSE session[s]]
        /\ graph' = [s \in Sessions |-> IF s \in victims THEN EmptyGraph ELSE g[s]]
  BY DEF AcceptAnswer
<1>4. ~ Stopped /\ session[job.owner] = job.object
  BY <1>1 DEF Judgeable, ApplyDead, OwnerAlive, SameCheckout, Stopped
<1>5. job.owner \in Sessions /\ session[job.owner] # 0
  <2>1. w \in Busy
    BY <1>2 DEF Busy, Free
  <2> QED BY <1>4, <2>1 DEF JobsInv, JobsAreOwned, IsOwned
<1>6. ASSUME NEW a \in Files(job.refs)
      PROVE known[a] = [gen |-> job.refs[a], status |-> "present"]
  <2>1. a \in run.seen /\ known[a] = Observed(a)
    BY <1>1, <1>6 DEF EvidenceInv, AppliedIsReread, DecidedIsKnown
  <2>2. records[a].gen = job.refs[a] /\ records[a].seen.status = "present"
    BY <1>1, <1>6 DEF Judgeable, IsCurrent
  <2> QED BY <2>1, <2>2 DEF Observed
<1>7. ASSUME NEW s \in Sessions
      PROVE \/ graph'[s] = EmptyGraph
            \/ graph'[s] = graph[s]
            \/ s = job.owner /\ graph'[s] = Compile(graph[s], job.refs, answer)
  BY <1>2, <1>3, <1>5
<1>8. job.refs \in References
  BY <1>2 DEF Jobs
<1>9. GoneDrawNothing'
  <2> SUFFICES ASSUME NEW s \in Sessions, session'[s] = 0 PROVE graph'[s] = EmptyGraph
    BY DEF GoneDrawNothing
  <2>1. CASE s \in victims
    BY <1>3, <2>1
  <2>2. CASE s \notin victims
    <3>1. session[s] = 0 /\ s # job.owner
      BY <1>3, <1>5, <2>2
    <3>2. graph'[s] = graph[s]
      BY <1>2, <1>3, <1>5, <2>2, <3>1
    <3> QED BY <3>1, <3>2 DEF DrawnInv, GoneDrawNothing
  <2> QED BY <2>1, <2>2
<1> HIDE DEF job, g
<1>10. CurrentClaimsMatchKnown'
  <2> SUFFICES ASSUME NEW s \in Sessions, NEW c \in ClaimIds, graph'[s][c].current,
                      NEW a \in Files(graph'[s][c].refs)
               PROVE  known[a] = [gen |-> graph'[s][c].refs[a], status |-> "present"]
    BY <1>1 DEF CurrentClaimsMatchKnown, Files
  <2>1. CASE graph'[s][c] = graph[s][c]
    BY <2>1 DEF DrawnInv, CurrentClaimsMatchKnown
  <2>2. CASE graph'[s][c] # graph[s][c]
    <3>1. graph'[s] = Compile(graph[s], job.refs, answer) /\ graph[s] \in Graphs
      BY <1>2, <1>7, <2>2, EmptyGraphClaims
    <3>2. /\ c \subseteq Files(job.refs)
          /\ graph'[s][c].refs = [b \in Artifacts |-> IF b \in c THEN job.refs[b] ELSE 0]
      BY <1>1, <1>8, <2>2, <3>1, CompileClaims
    <3>3. a \in c /\ graph'[s][c].refs[a] = job.refs[a] /\ a \in Files(job.refs)
      BY <3>2 DEF Files
    <3> QED BY <1>6, <3>3
  <2> QED BY <2>1, <2>2
<1>11. RelationshipEndsDrawn'
  <2> SUFFICES ASSUME NEW s \in Sessions PROVE EndsDrawn(graph'[s])
    BY DEF RelationshipEndsDrawn, EndsDrawn
  <2>1. EndsDrawn(graph[s]) /\ graph[s] \in Graphs
    BY <1>2 DEF DrawnInv, RelationshipEndsDrawn, EndsDrawn
  <2> QED BY <1>1, <1>7, <1>8, <2>1, EmptyGraphClaims, CompileEnds
<1>12. ASSUME NEW s \in Sessions, NEW c \in ClaimIds, Revived(s, c) PROVE s = job.owner
  BY <1>7, <1>12, EmptyGraphClaims DEF Revived
<1>13. AcceptedByOwner
  BY <1>1, <1>4, <1>12 DEF AcceptedByOwner, job
<1> QED BY <1>4, <1>9, <1>10, <1>11, <1>13 DEF DrawnInv, RevivedWhileRunning

LEMMA NextKeepsDiagrams ==
  ASSUME SchedulerInv, JobsInv, EvidenceInv, DrawnInv, [Next]_vars
  PROVE  DrawnInv' /\ AcceptedByOwner /\ RevivedWhileRunning
<1>0. NothingRevived => AcceptedByOwner /\ RevivedWhileRunning
  BY DEF NothingRevived, AcceptedByOwner, RevivedWhileRunning
<1>1. TypeOK
  BY DEF SchedulerInv
<1>2. CASE Hooks
  BY <1>0, <1>1, <1>2, OtherGraphs
<1>3. CASE Checkout
  BY <1>0, <1>3, CheckoutGraphs DEF Checkout
<1>4. CASE RegisterSeen
  BY <1>0, <1>4, RegisterSeenGraphs
<1>5. ASSUME NEW answer \in SUBSET ClaimIds, AcceptAnswer(answer)
      PROVE DrawnInv' /\ AcceptedByOwner /\ RevivedWhileRunning
  BY <1>5, AcceptGraphs
<1>6. CASE UNCHANGED <<known, session, graph>>
  BY <1>0, <1>1, <1>6, OtherGraphs
<1>7. CASE Reconciliation \/ Revalidation \/ Control \/ Edits \/ Answers \/ StartNext \/ Finishing
  <2>1. UNCHANGED <<known, session, graph>>
    BY <1>7 DEF Reconciliation, Reconcile, Revalidation, Revalidate, Control, Pause, Resume, Close,
                SelectSession, Edits, Answers, Answer, StartNext, StartFlush, StartRefresh,
                StartApply, Leave, LeaveDeferred, CaptureFor, Finishing, FinishWorkflow,
                sessionVars, memoryVars
  <2> QED BY <1>6, <2>1
<1>8. CASE Continue /\ ~ RegisterSeen /\ ~ \E answer \in SUBSET ClaimIds : AcceptAnswer(answer)
  <2>1. UNCHANGED <<known, session, graph>>
    BY <1>8 DEF Continue, CaptureFile, DecideNothing, DecideEvent, DecideReconcile, DecideFlush,
                DecideRefresh, DecideTool, Acceptance, SetAside, JudgeIrrelevant, Leave,
                LeaveDeferred, Dispatch, SkipGroup, DeferGroup, SupersedeGroup, DropGroup,
                QueueGroup, DispatchNext, sessionVars, memoryVars
  <2> QED BY <1>6, <2>1
<1>9. CASE UNCHANGED vars
  BY <1>6, <1>9 DEF vars, sessionVars, memoryVars
<1> QED BY <1>2, <1>3, <1>4, <1>5, <1>7, <1>8, <1>9 DEF Next, Environment

LEMMA InitDiagrams == Init => DrawnInv
BY EmptyGraphClaims DEF Init, DrawnInv, GoneDrawNothing, CurrentClaimsMatchKnown,
                        RelationshipEndsDrawn, EndsDrawn
----
(***************************************************************************)
(* A pause loses no work.                                                   *)
(***************************************************************************)
PauseKeepsWaiting ==
    ~ paused /\ paused' =>
        \A i \in DOMAIN queue : Files(queue[i].refs) \subseteq deferred'[queue[i].owner]

PauseKeepsAnswered ==
    \A w \in Workflows :
        /\ paused
        /\ active[w].phase = "answered" /\ active'[w].phase = "finished"
        /\ OwnerAlive(active[w]) /\ SameCheckout(active[w])
        => Files(active[w].refs) \subseteq deferred'[active[w].owner]

NoAnswerFinishes ==
    \A w \in Workflows : active[w].phase = "answered" => active'[w].phase # "finished"

LEMMA WithDeferredKeeps ==
  ASSUME NEW jobs, NEW job \in jobs, job.owner \in Sessions
  PROVE  Files(job.refs) \subseteq WithDeferred(jobs)[job.owner]
BY DEF WithDeferred

LEMMA PauseDefersQueue ==
  ASSUME SchedulerInv, JobsInv, [Next]_vars
  PROVE  PauseKeepsWaiting
<1>1. CASE Pause
  <2>1. ASSUME NEW i \in DOMAIN queue
        PROVE  Files(queue[i].refs) \subseteq deferred'[queue[i].owner]
    <3>1. queue[i] \in Waiting /\ queue # <<>>
      BY <2>1 DEF Waiting, SchedulerInv, TypeOK
    <3>2. TransmitSource /\ queue[i].owner \in Sessions
      BY <2>1, <3>1 DEF JobsInv, NothingWithheldWaits, JobsAreOwned, IsOwned
    <3>3. deferred' = WithDeferred(Waiting)
      BY <1>1, <3>2 DEF Pause
    <3> QED BY <3>1, <3>2, <3>3, WithDeferredKeeps
  <2> QED BY <2>1 DEF PauseKeepsWaiting
<1>2. CASE paused' = paused
  BY <1>2 DEF PauseKeepsWaiting
<1>3. CASE Resume
  BY <1>3 DEF Resume, PauseKeepsWaiting
<1>4. CASE Hooks \/ Reconciliation \/ Revalidation \/ Checkout \/ Close \/ Edits \/ Answers
           \/ (\E s \in Sessions : SelectSession(s)) \/ StartNext \/ Finishing \/ UNCHANGED vars
  <2>1. paused' = paused
    BY <1>4 DEF Hooks, Ingest, Reconciliation, Reconcile, Revalidation, Revalidate, Checkout,
                ObserveLineage, Close, Edits, Answers, Answer, SelectSession, StartNext, StartFlush,
                StartRefresh, StartApply, Leave, LeaveDeferred, CaptureFor, Finishing,
                FinishWorkflow, vars, modeVars
  <2> QED BY <1>2, <2>1
<1>5. CASE Continue
  <2>1. paused' = paused
    BY <1>5 DEF Continue, CaptureFile, RegisterSeen, DecideNothing, DecideEvent, DecideReconcile,
                DecideFlush, DecideRefresh, DecideTool, Acceptance, SetAside, JudgeIrrelevant,
                AcceptAnswer, Leave, LeaveDeferred, Dispatch, SkipGroup, DeferGroup, SupersedeGroup,
                DropGroup, QueueGroup, DispatchNext, modeVars
  <2> QED BY <1>2, <2>1
<1> QED BY <1>1, <1>3, <1>4, <1>5 DEF Next, Environment, Control

\* One workflow leaves with its answer: its files are deferred, or the session
\* or the checkout is gone.
LEMMA LeavingKeepsAnswer ==
  ASSUME SchedulerInv, JobsInv, NEW w \in Workflows, ~ closed,
         active[w].phase = "answered", active' = Left(w),
         \/ deferred' = WithDeferred({active[w]})
         \/ ~ paused \/ ~ OwnerAlive(active[w]) \/ ~ SameCheckout(active[w])
  PROVE  PauseKeepsAnswered
<1>1. active \in [Workflows -> Jobs] /\ active[w].owner \in Sessions
  <2>1. w \in Busy
    BY DEF Busy, Free
  <2> QED BY <2>1 DEF SchedulerInv, TypeOK, JobsInv, JobsAreOwned, IsOwned
<1>2. \A v \in Workflows : v # w => active'[v] = active[v]
  BY <1>1 DEF Left
<1>3. Files(active[w].refs) \subseteq WithDeferred({active[w]})[active[w].owner]
  BY <1>1, WithDeferredKeeps
<1> QED BY <1>2, <1>3 DEF PauseKeepsAnswered

LEMMA PauseDefersAnswers ==
  ASSUME SchedulerInv, JobsInv, [Next]_vars, ~ closed
  PROVE  PauseKeepsAnswered
<1>0. active \in [Workflows -> Jobs]
  BY DEF SchedulerInv, TypeOK
<1>1. ASSUME NoAnswerFinishes PROVE PauseKeepsAnswered
  BY <1>1 DEF NoAnswerFinishes, PauseKeepsAnswered
<1>2. ASSUME active' = active PROVE PauseKeepsAnswered
  BY <1>1, <1>2 DEF NoAnswerFinishes
<1>3. CASE Hooks \/ Reconciliation \/ Revalidation \/ Edits \/ Pause \/ Resume
           \/ (\E s \in Sessions : SelectSession(s)) \/ StartFlush \/ UNCHANGED vars
  <2>1. active' = active
    BY <1>3 DEF Hooks, Ingest, Reconciliation, Reconcile, Revalidation, Revalidate, Edits, Pause,
                Resume, SelectSession, StartFlush, vars, schedulerVars
  <2> QED BY <1>2, <2>1
<1>4. CASE Checkout \/ Close
  <2>1. active' = active \/ active' = AllAborted
    BY <1>4 DEF Checkout, ObserveLineage, Close, schedulerVars
  <2>2. \A w \in Workflows : AllAborted[w].phase = active[w].phase
    BY <1>0 DEF AllAborted, Jobs
  <2>3. NoAnswerFinishes
    BY <2>1, <2>2 DEF NoAnswerFinishes
  <2> QED BY <1>1, <2>3
<1>5. ASSUME NEW w \in Workflows, NEW result, NEW timeout, Answer(w, result, timeout)
      PROVE PauseKeepsAnswered
  <2>1. \A v \in Workflows : active'[v] = active[v] \/ active'[v].phase = "answered"
    BY <1>0, <1>5 DEF Answer
  <2> QED BY <1>1, <2>1 DEF NoAnswerFinishes
<1>6. ASSUME NEW w \in Workflows, FinishWorkflow(w) PROVE PauseKeepsAnswered
  <2> DEFINE jobs == [active EXCEPT ![w] = NoJob]
  <2>1. jobs \in [Workflows -> Jobs] /\ queue \in Seq(Jobs) /\ Pump(queue, jobs)
    BY <1>0, <1>6, EmptyGraphType DEF FinishWorkflow, NoJob, Jobs, Phases, Results, SchedulerInv,
                                      TypeOK
  <2>2. \A v \in Workflows : jobs[v].phase = "free" \/ jobs[v] = active[v]
    BY <1>0 DEF NoJob
  <2> HIDE DEF jobs
  <2>3. CASE PumpsNothing(queue, jobs)
    <3>1. NoAnswerFinishes
      BY <2>2, <2>3 DEF PumpsNothing, NoAnswerFinishes
    <3> QED BY <1>1, <3>1
  <2>4. ASSUME NEW v \in Workflows, PumpsOne(queue, jobs, v) PROVE PauseKeepsAnswered
    <3>1. Head(queue) \in Jobs /\ active' = [jobs EXCEPT ![v] = Started(Head(queue))]
      BY <2>1, <2>4 DEF PumpsOne
    <3>2. Started(Head(queue)).phase # "finished"
      BY <3>1, StartedType
    <3>3. NoAnswerFinishes
      BY <2>1, <2>2, <3>1, <3>2 DEF NoAnswerFinishes
    <3> QED BY <1>1, <3>3
  <2> QED BY <2>1, <2>3, <2>4, PumpCases
<1>7. CASE StartRefresh \/ StartApply
  <2>1. ops # <<>> /\ Head(ops).op \in {"refresh", "apply"}
    BY <1>7 DEF StartRefresh, StartApply, Starting
  <2>2. Worker \in Workflows /\ active[Worker].phase = PhaseFor(Head(ops).op)
    BY <2>1, StartingFacts
  <2>3. CASE CaptureFor(Files(active[Worker].refs))
    BY <1>2, <2>3 DEF CaptureFor, schedulerVars
  <2>4. CASE StartRefresh /\ active' = Left(Worker)
    <3>1. active[Worker].phase = "refresh"
      BY <2>2, <2>4 DEF PhaseFor, StartRefresh, Starting
    <3>2. \A v \in Workflows : v # Worker => active'[v] = active[v]
      BY <1>0, <2>4 DEF Left
    <3>3. NoAnswerFinishes
      BY <3>1, <3>2 DEF NoAnswerFinishes
    <3> QED BY <1>1, <3>3
  <2>5. CASE StartApply /\ active' = Left(Worker)
    <3>1. active[Worker].phase = "answered"
      BY <2>2, <2>5 DEF PhaseFor, StartApply, Starting
    <3>2. OwnerAlive(active[Worker]) => active[Worker].owner \in Live
      <4>1. Worker \in Busy
        BY <2>2, <3>1 DEF Busy, Free
      <4> QED BY <4>1 DEF JobsInv, JobsAreOwned, IsOwned, OwnerAlive, Live
    <3>3. CASE LeaveDeferred(Worker, NoRun)
      <4>1. deferred' = WithDeferred({active[Worker]})
        BY <3>3 DEF LeaveDeferred
      <4> QED BY <2>2, <2>5, <3>1, <4>1, LeavingKeepsAnswer
    <3>4. CASE ~ paused \/ ~ OwnerAlive(active[Worker]) \/ ~ SameCheckout(active[Worker])
      BY <2>2, <2>5, <3>1, <3>4, LeavingKeepsAnswer
    <3>5. CASE CaptureFor(Files(active[Worker].refs))
      BY <2>3, <3>5
    <3>6. ASSUME ~ (paused /\ ~ (closed \/ active[Worker].owner \notin Live
                                  \/ ~ SameCheckout(active[Worker])))
          PROVE ~ paused \/ ~ OwnerAlive(active[Worker]) \/ ~ SameCheckout(active[Worker])
      BY <3>2, <3>6
    <3> QED BY <2>5, <3>3, <3>4, <3>5, <3>6 DEF StartApply
  <2> QED BY <1>7, <2>3, <2>4, <2>5 DEF StartRefresh, StartApply, Leave, LeaveDeferred
<1>8. CASE Acceptance
  <2> DEFINE w == run.workflow
  <2>1. run.op = "apply"
    BY <1>8 DEF Acceptance, SetAside, JudgeIrrelevant, AcceptAnswer, Deciding
  <2>2. w \in Workflows /\ active[w].phase = "answered"
    BY <2>1, RunningWorkflow DEF PhaseFor
  <2>3. active' = Left(w)
    BY <1>8 DEF Acceptance, SetAside, JudgeIrrelevant, AcceptAnswer, Leave, LeaveDeferred
  <2>4. CASE ~ paused
    BY <2>2, <2>3, <2>4, LeavingKeepsAnswer
  <2>5. CASE paused
    <3>1. SetAside
      BY <1>8, <2>5 DEF Acceptance, JudgeIrrelevant, AcceptAnswer, Judgeable
    <3>2. CASE ApplyDead(active[w])
      <4>1. ~ OwnerAlive(active[w]) \/ ~ SameCheckout(active[w])
        BY <3>2 DEF ApplyDead
      <4> QED BY <2>2, <2>3, <4>1, LeavingKeepsAnswer
    <3>3. CASE ~ ApplyDead(active[w])
      <4>1. deferred' = WithDeferred({active[w]})
        BY <2>5, <3>1, <3>3 DEF SetAside, LeaveDeferred
      <4> QED BY <2>2, <2>3, <4>1, LeavingKeepsAnswer
    <3> QED BY <3>2, <3>3
  <2> QED BY <2>4, <2>5
<1>9. CASE DecideRefresh
  <2>1. run.op = "refresh"
    BY <1>9 DEF DecideRefresh, Deciding
  <2>2. run.workflow \in Workflows /\ active[run.workflow].phase = "refresh"
    BY <2>1, RunningWorkflow DEF PhaseFor
  <2>3. \A v \in Workflows : v # run.workflow => active'[v] = active[v]
    BY <1>0, <1>9 DEF DecideRefresh
  <2>4. NoAnswerFinishes
    BY <2>2, <2>3 DEF NoAnswerFinishes
  <2> QED BY <1>1, <2>4
<1>10. CASE Dispatch
  <2>1. PICK group \in run.groups : \/ SkipGroup(group) \/ DeferGroup(group)
                                    \/ SupersedeGroup(group) \/ DropGroup(group)
                                    \/ QueueGroup(group)
    BY <1>10 DEF Dispatch
  <2>2. \/ active' = active
        \/ \E waiting : Pump(waiting, active)
    BY <2>1 DEF SkipGroup, DeferGroup, SupersedeGroup, DropGroup, QueueGroup, schedulerVars
  <2>3. ASSUME NEW waiting, Pump(waiting, active) PROVE PauseKeepsAnswered
    <3>1. CASE PumpsNothing(waiting, active)
      BY <1>2, <3>1 DEF PumpsNothing
    <3>2. ASSUME NEW v \in Workflows, PumpsOne(waiting, active, v) PROVE PauseKeepsAnswered
      <4>1. active[v].phase = "free" /\ \A u \in Workflows : u # v => active'[u] = active[u]
        BY <1>0, <3>2 DEF PumpsOne, Free
      <4>2. NoAnswerFinishes
        BY <4>1 DEF NoAnswerFinishes
      <4> QED BY <1>1, <4>2
    <3> QED BY <2>3, <3>1, <3>2, PumpCases
  <2> QED BY <1>2, <2>2, <2>3
<1>11. CASE \/ RegisterSeen \/ DecideNothing \/ DecideEvent \/ DecideReconcile \/ DecideFlush
            \/ (\E a \in Artifacts : CaptureFile(a)) \/ \E again \in Rereads : DecideTool(again)
  <2>1. active' = active
    BY <1>11 DEF RegisterSeen, DecideNothing, DecideEvent, DecideReconcile, DecideFlush,
                 CaptureFile, DecideTool, schedulerVars
  <2> QED BY <1>2, <2>1
<1> QED BY <1>3, <1>4, <1>5, <1>6, <1>7, <1>8, <1>9, <1>10, <1>11
        DEF Next, Environment, Control, Answers, Finishing, StartNext, Continue
----
(***************************************************************************)
(* What follows.                                                            *)
(***************************************************************************)
CoordinatorInv == SchedulerInv /\ JobsInv /\ EvidenceInv /\ DrawnInv

\* The jobs, the observations and the diagrams stay consistent in every step.
THEOREM CoordinatorCorrect == Spec => []CoordinatorInv
<1>1. Init => CoordinatorInv
  BY InitScheduler, InitJobs, InitEvidence, InitDiagrams DEF CoordinatorInv
<1>2. CoordinatorInv /\ [Next]_vars => CoordinatorInv'
  BY NextScheduler, NextKeepsJobs, NextKeepsEvidence, NextKeepsDiagrams DEF CoordinatorInv
<1> QED BY <1>1, <1>2, PTL DEF Spec

\* coverageReason keeps two workflows from asking the same of one session object.
THEOREM NeverAskedTwice == Spec => []NoDuplicateInFlight
<1>1. CoordinatorInv => NoDuplicateInFlight
  BY DEF CoordinatorInv, JobsInv
<1> QED BY <1>1, CoordinatorCorrect, PTL

\* What is drawn as current cites the versions observed last, of this checkout,
\* and no relationship outlives its nodes (invalidateArtifacts, compileDecision
\* and the reread before an acceptance).
THEOREM DrawnIsCurrent == Spec => []DiagramIsCurrent
<1>1. ASSUME CoordinatorInv PROVE CurrentClaimsOfThisCheckout
  <2> SUFFICES ASSUME Quiet, NEW s \in Sessions, NEW c \in ClaimIds, graph[s][c].current,
                      NEW a \in Files(graph[s][c].refs)
               PROVE  /\ records[a].gen = graph[s][c].refs[a]
                      /\ records[a].seen.status = "present"
                      /\ records[a].seen.lineage = lineageId
    BY DEF CurrentClaimsOfThisCheckout, IsCurrent
  <2>1. known[a] = [gen |-> graph[s][c].refs[a], status |-> "present"] /\ a \in Artifacts
    BY <1>1 DEF CoordinatorInv, DrawnInv, CurrentClaimsMatchKnown, Files
  <2>2. known[a] = Observed(a) /\ records[a].seen.lineage = lineageId
    BY <1>1, <2>1 DEF CoordinatorInv, EvidenceInv, PresentIsRecorded, Captured, Quiet, NoRun
  <2> QED BY <2>1, <2>2 DEF Observed
<1>2. CoordinatorInv => DiagramIsCurrent
  BY <1>1 DEF DiagramIsCurrent, CoordinatorInv, DrawnInv
<1> QED BY <1>2, CoordinatorCorrect, PTL

\* Questions and answers are of one session object that lives at both ends.
THEOREM AnswersReachTheirOwner == Spec => JudgedForOwner
<1>1. CoordinatorInv /\ [Next]_vars => AcceptedByOwner /\ AskedOnlyWhileRunning
  BY NextKeepsJobs, NextKeepsDiagrams DEF CoordinatorInv
<1> QED BY <1>1, CoordinatorCorrect, PTL DEF Spec, JudgedForOwner

\* No claim appears or becomes current while paused, closed or out of the
\* checkout's reach.
THEOREM NothingDrawnWhileStopped == Spec => AcceptedOnlyWhileRunning
<1>1. CoordinatorInv /\ [Next]_vars
        => \A s \in Sessions, c \in ClaimIds : Revived(s, c) => ~ Stopped
  BY NextKeepsDiagrams DEF CoordinatorInv, RevivedWhileRunning
<1> QED BY <1>1, CoordinatorCorrect, PTL DEF Spec, AcceptedOnlyWhileRunning

\* Pausing defers every file of a waiting job, and of an answer that arrives
\* while paused.
THEOREM PausesKeepWork == Spec => PauseKeepsWork
<1> DEFINE Kept ==
      ~ closed /\ ~ closed' =>
        /\ ~ paused /\ paused' =>
            \A i \in DOMAIN queue : Files(queue[i].refs) \subseteq deferred'[queue[i].owner]
        /\ \A w \in Workflows :
            /\ paused
            /\ active[w].phase = "answered" /\ active'[w].phase = "finished"
            /\ OwnerAlive(active[w]) /\ SameCheckout(active[w])
            => Files(active[w].refs) \subseteq deferred'[active[w].owner]
<1>1. CoordinatorInv /\ [Next]_vars => Kept
  BY PauseDefersQueue, PauseDefersAnswers
     DEF CoordinatorInv, PauseKeepsWaiting, PauseKeepsAnswered
<1>2. CoordinatorInv /\ [Next]_vars => [Kept]_vars
  BY <1>1
<1>3. Spec => [][Kept]_vars
  BY <1>2, CoordinatorCorrect, PTL DEF Spec
<1> QED BY <1>3 DEF PauseKeepsWork
====
