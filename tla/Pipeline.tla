---- MODULE Pipeline ----
(***************************************************************************)
(* The coordinator (runtime/pipeline.mjs): one serial queue of local        *)
(* operations that observe files and rewrite the diagrams, and a pool of    *)
(* workflows that ask a remote classifier outside of it.                    *)
(*                                                                         *)
(* JavaScript runs each callback to completion, so a step here is the code  *)
(* between two awaits.  An operation of the serial queue captures its files *)
(* one await at a time (step "capture"), during which pause, close, answers *)
(* and edits interleave; what it then does with the observations is         *)
(* synchronous, and is split into the steps "decide" and "dispatch" only to *)
(* keep each definition small: no other action is enabled in them.          *)
(*                                                                         *)
(* Operations the outside world asks for (ingest, reconcile, revalidate,    *)
(* observeLineage) have no effect before their turn, so they are modelled   *)
(* at their turn: whenever the serial queue runs nothing.  The operations   *)
(* the coordinator appends itself wait in ops, first in, first out.         *)
(***************************************************************************)
EXTENDS ClaimGraph, Sequences

CONSTANTS
    Sessions,          \* session identifiers
    NoSession,         \* selectedSession before any session exists
    MaxActive,         \* MAX_CLASSIFICATIONS
    MaxQueue,          \* MAX_CLASSIFICATION_QUEUE
    MaxSessions,       \* MAX_SESSIONS
    GroupSize,         \* files classified together
    ReconcileLimit,    \* tracked files reread by a periodic reconciliation
    TransmitSource,    \* policy.transmitSource
    RetentionOverflow, \* whether MAX_RETENTION_BYTES can be exceeded
    MaxCreated,        \* bound: sessions ever created
    MaxEpoch           \* bound: lineage changes

ASSUME PipelineAssumption ==
    /\ NoSession \notin Sessions
    /\ MaxActive \in Nat \ {0} /\ MaxQueue \in Nat \ {0} /\ MaxSessions \in Nat \ {0}
    /\ GroupSize \in Nat \ {0} /\ ReconcileLimit \in Nat \ {0}
    /\ TransmitSource \in BOOLEAN /\ RetentionOverflow \in BOOLEAN
    /\ MaxCreated \in Nat /\ MaxEpoch \in Nat

VARIABLES
    known,            \* knownArtifacts: the last registered observation of each file
    session,          \* sessions: 0, or the position in which the object was created
    created,          \* session objects created so far
    selected,         \* selectedSession
    graph,            \* the live graph of each session
    queue,            \* classificationQueue
    active,           \* activeClassifications: the job of each workflow
    pending,          \* the pending counter of the status
    deferred,         \* deferredWork: files to classify again, per session
    completed,        \* completedClassifications: inputs judged, per session
    paused, closed,
    available,        \* lineageAvailable
    epoch,            \* lineageEpoch
    lineageWork,      \* files whose classification a checkout change canceled
    resumeScheduled,
    ops,              \* operations the coordinator appended to the serial queue
    run               \* the running operation of the serial queue

schedulerVars == <<queue, active, pending>>
modeVars == <<paused, closed, available, epoch>>
sessionVars == <<session, created, selected>>
memoryVars == <<graph, deferred, completed>>
vars == <<storeVars, known, sessionVars, memoryVars, schedulerVars, modeVars,
          lineageWork, resumeScheduled, ops, run>>

Workflows == 1..MaxActive

Observations == [gen : Nat, status : Statuses]

Unknown == [gen |-> 0, status |-> "missing"]

Phases == {"free", "queued", "refresh", "asked", "answered", "finished"}

Results == {"none", "claims", "irrelevant", "failed"}

Jobs == [owner : Sessions \union {NoSession}, object : Nat, refs : References, epoch : Nat,
         refresh : BOOLEAN, phase : Phases, result : Results, aborted : BOOLEAN]

NoJob == [owner |-> NoSession, object |-> 0, refs |-> NoRefs, epoch |-> 0,
          refresh |-> FALSE, phase |-> "free", result |-> "none", aborted |-> FALSE]

\* 0 stands for no workflow.
Operations == [op : {"refresh", "apply"}, workflow : Workflows]
              \union [op : {"flush", "resume"}, workflow : {0}]

Groups == [owner : Sessions, files : SUBSET Artifacts]

Runs == [op : {"none", "started", "requested", "tool", "again", "reconcile", "revalidate",
               "refresh", "apply", "flush", "resume"},
         step : {"idle", "capture", "decide", "dispatch"},
         workflow : Workflows \union {0}, owner : Sessions \union {NoSession},
         todo : SUBSET Artifacts, seen : SUBSET Artifacts, changed : SUBSET Artifacts,
         named : SUBSET Artifacts, refs : References,
         work : [Sessions -> SUBSET Artifacts], groups : SUBSET Groups]

NoWork == [s \in Sessions |-> {}]

NoRun == [op |-> "none", step |-> "idle", workflow |-> 0, owner |-> NoSession,
          todo |-> {}, seen |-> {}, changed |-> {}, named |-> {}, refs |-> NoRefs,
          work |-> NoWork, groups |-> {}]

TypeOK ==
    /\ StoreTypeOK
    /\ known \in [Artifacts -> Observations]
    /\ session \in [Sessions -> Nat]
    /\ created \in Nat
    /\ selected \in Sessions \union {NoSession}
    /\ graph \in [Sessions -> Graphs]
    /\ queue \in Seq(Jobs)
    /\ active \in [Workflows -> Jobs]
    /\ pending \in Nat
    /\ deferred \in [Sessions -> SUBSET Artifacts]
    /\ completed \in [Sessions -> SUBSET References]
    /\ paused \in BOOLEAN /\ closed \in BOOLEAN /\ available \in BOOLEAN
    /\ epoch \in Nat
    /\ lineageWork \in SUBSET Artifacts
    /\ resumeScheduled \in BOOLEAN
    /\ ops \in Seq(Operations)
    /\ run \in Runs

Init ==
    /\ StoreInit
    /\ known = [a \in Artifacts |-> Unknown]
    /\ session = [s \in Sessions |-> 0]
    /\ created = 0
    /\ selected = NoSession
    /\ graph = [s \in Sessions |-> EmptyGraph]
    /\ queue = <<>>
    /\ active = [w \in Workflows |-> NoJob]
    /\ pending = 0
    /\ deferred = NoWork
    /\ completed = [s \in Sessions |-> {}]
    /\ paused = FALSE /\ closed = FALSE /\ available = TRUE
    /\ epoch = 0
    /\ lineageWork = {}
    /\ resumeScheduled = FALSE
    /\ ops = <<>>
    /\ run = NoRun
----
Live == {s \in Sessions : session[s] # 0}

Evictable == Live \ {selected}

\* Eviction goes by age: no younger session goes before an older one.
OldestFirst(victims) ==
    \A v \in victims, s \in Evictable : session[s] < session[v] => s \in victims

\* The sessions a retained patch may push over MAX_RETENTION_BYTES.
Overflows(g) ==
    IF RetentionOverflow /\ g # graph
    THEN {victims \in SUBSET Evictable : OldestFirst(victims)}
    ELSE {{}}

\* evictSession of victims, after g, d and c replaced the session memories.
Retain(victims, g, d, c) ==
    /\ session' = [s \in Sessions |-> IF s \in victims THEN 0 ELSE session[s]]
    /\ graph' = [s \in Sessions |-> IF s \in victims THEN EmptyGraph ELSE g[s]]
    /\ deferred' = [s \in Sessions |-> IF s \in victims THEN {} ELSE d[s]]
    /\ completed' = [s \in Sessions |-> IF s \in victims THEN {} ELSE c[s]]

\* registerArtifacts: observations that differ from the known ones reach the
\* graph of every session; while paused they also become deferred work.
Register(observed, obs) ==
    LET changed == {a \in observed : known[a] # obs[a]}
        g == [s \in Sessions |->
                IF s \in Live THEN Invalidate(graph[s], changed, obs) ELSE graph[s]]
        d == [s \in Sessions |->
                IF s \in Live /\ paused /\ TransmitSource
                THEN deferred[s] \union (changed \intersect Supported(graph[s]))
                ELSE deferred[s]]
    IN  /\ known' = [a \in Artifacts |-> IF a \in observed THEN obs[a] ELSE known[a]]
        /\ \E victims \in Overflows(g) : Retain(victims, g, d, completed)
----
(***************************************************************************)
(* The classification queue and its workflows.                              *)
(***************************************************************************)
Free(jobs) == {w \in Workflows : jobs[w].phase = "free"}

Busy == Workflows \ Free(active)

Waiting == {queue[i] : i \in DOMAIN queue}

\* scheduleClassification, flushDeferred and the workflows all stop here.
Stopped == closed \/ paused \/ ~ available

OwnerAlive(job) == session[job.owner] = job.object

\* The work of a pause is not kept.
MutantForgottenWork(jobs) == deferred

\* deferClassification of jobs. Its bounds (128 files of each of 16 sessions)
\* are above what an instance of this module reaches.
WithDeferred(jobs) ==
    [s \in Sessions |-> deferred[s] \union
        UNION {Files(job.refs) : job \in {j \in jobs : j.owner = s}}]

\* Only finished judgments count.
MutantCoveredByHistory(job, others) == job.refs \in completed[job.owner]

\* coverageReason: the same input was judged, or is being judged, for the
\* same session object.
Covered(job, others) ==
    \/ job.refs \in completed[job.owner]
    \/ \E other \in others :
        /\ other.owner = job.owner /\ other.object = job.object
        /\ ~ other.aborted
        /\ other.epoch = job.epoch
        /\ other.refs = job.refs

\* Queued jobs about the same files, of which some version has moved on.
Superseded(job) ==
    {i \in DOMAIN queue :
        /\ queue[i].owner = job.owner /\ queue[i].object = job.object
        /\ Files(queue[i].refs) = Files(job.refs)
        /\ queue[i].refs # job.refs}

\* A job that waited is reread first.
Started(job) == [job EXCEPT !.phase = IF job.refresh THEN "refresh" ELSE "asked"]

\* pumpClassifications. A workflow can only be free while the queue is empty
\* (WaitsOnlyBehindFullPool), so after one arrival or one departure the loop of
\* the code runs its body at most once.
Pump(waiting, jobs) ==
    IF waiting = <<>> \/ Free(jobs) = {} \/ Stopped
    THEN /\ queue' = waiting
         /\ active' = jobs
         /\ ops' = ops
    ELSE LET job == Head(waiting)
             w == CHOOSE v \in Free(jobs) : TRUE
         IN  /\ queue' = Tail(waiting)
             /\ active' = [jobs EXCEPT ![w] = Started(job)]
             /\ ops' = IF job.refresh
                       THEN Append(ops, [op |-> "refresh", workflow |-> w]) ELSE ops

\* The running operation goes on as next; flushDeferred().finally at its end.
Proceed(next) ==
    /\ run' = next
    /\ resumeScheduled' = (resumeScheduled /\ ~ (run.op = "resume" /\ next = NoRun))

NewJob(group) ==
    [owner |-> group.owner, object |-> session[group.owner],
     refs |-> [a \in Artifacts |-> IF a \in group.files THEN run.refs[a] ELSE 0],
     epoch |-> epoch, refresh |-> Free(active) = {}, phase |-> "queued",
     result |-> "none", aborted |-> FALSE]

DispatchNext(group) ==
    LET left == run.groups \ {group}
    IN  /\ run.step = "dispatch"
        /\ group \in run.groups
        /\ Proceed(IF left = {} THEN NoRun ELSE [run EXCEPT !.groups = left])
        /\ UNCHANGED <<storeVars, known, sessionVars, graph, completed, modeVars, lineageWork>>

Unwanted(group) == closed \/ ~ TransmitSource \/ group.owner \notin Live

\* scheduleClassification of one group, by outcome.
SkipGroup(group) ==
    /\ DispatchNext(group)
    /\ \/ Unwanted(group)
       \/ ~ Unwanted(group) /\ ~ Stopped
            /\ Covered(NewJob(group), {active[w] : w \in Busy} \union Waiting)
    /\ UNCHANGED <<deferred, schedulerVars, ops>>

DeferGroup(group) ==
    /\ DispatchNext(group)
    /\ ~ Unwanted(group) /\ Stopped
    /\ deferred' = WithDeferred({NewJob(group)})
    /\ UNCHANGED <<schedulerVars, ops>>

Schedulable(group) ==
    /\ ~ Unwanted(group) /\ ~ Stopped
    /\ ~ Covered(NewJob(group), {active[w] : w \in Busy} \union Waiting)

SupersedeGroup(group) ==
    /\ DispatchNext(group)
    /\ Schedulable(group)
    /\ \E i \in Superseded(NewJob(group)) :
        /\ \A j \in Superseded(NewJob(group)) : i <= j
        /\ Pump([queue EXCEPT ![i] = [NewJob(group) EXCEPT !.refresh = TRUE]], active)
    /\ UNCHANGED <<deferred, pending>>

DropGroup(group) ==
    /\ DispatchNext(group)
    /\ Schedulable(group)
    /\ Superseded(NewJob(group)) = {}
    /\ Len(queue) >= MaxQueue
    /\ UNCHANGED <<deferred, schedulerVars, ops>>

QueueGroup(group) ==
    /\ DispatchNext(group)
    /\ Schedulable(group)
    /\ Superseded(NewJob(group)) = {}
    /\ Len(queue) < MaxQueue
    /\ pending' = pending + 1
    /\ Pump(Append(queue, NewJob(group)), active)
    /\ UNCHANGED deferred
----
(***************************************************************************)
(* Operations asked for from outside: hook events, the periodic             *)
(* reconciliation, and the reads of the parser and of architecture          *)
(* discovery.                                                               *)
(***************************************************************************)
Quiet == run = NoRun

Capture(op, files) == [NoRun EXCEPT !.op = op, !.step = "capture", !.todo = files]

\* ensureSession: the oldest session that is not selected makes room.
EnsureSession(s) ==
    LET full == session[s] = 0 /\ Cardinality(Live) >= MaxSessions
        victims == IF full THEN {v \in Evictable : OldestFirst({v})} ELSE {}
    IN  /\ session[s] = 0 => created < MaxCreated
        /\ created' = IF session[s] = 0 THEN created + 1 ELSE created
        /\ session' = [x \in Sessions |-> IF x \in victims THEN 0
                        ELSE IF x = s /\ session[s] = 0 THEN created + 1 ELSE session[x]]
        /\ graph' = [x \in Sessions |-> IF x \in victims THEN EmptyGraph ELSE graph[x]]
        /\ deferred' = [x \in Sessions |-> IF x \in victims THEN {} ELSE deferred[x]]
        /\ completed' = [x \in Sessions |-> IF x \in victims THEN {} ELSE completed[x]]

\* Files the registry knows to be present are read again by a new session.
KnownPresent == {a \in Artifacts : known[a].status = "present"}

\* ingest of a hook event of session s that names files; "tool" stands for
\* every event that reports the end of a tool call.
Ingest(s, kind, named, found) ==
    /\ Quiet /\ ~ closed
    /\ kind = "requested" => found = {}
    /\ EnsureSession(s)
    /\ selected' = IF kind = "started" \/ selected = NoSession THEN s ELSE selected
    /\ run' = [Capture(kind, named \union found \union
                    (IF kind = "started" THEN KnownPresent ELSE {}))
                EXCEPT !.owner = s, !.named = named]
    /\ UNCHANGED <<storeVars, known, schedulerVars, modeVars, lineageWork,
                   resumeScheduled, ops>>

\* The tracked files the next reconciliation of at most ReconcileLimit reads.
Rereads ==
    {files \in SUBSET Tracked :
        \/ files = Tracked /\ Cardinality(files) <= ReconcileLimit
        \/ Cardinality(files) = ReconcileLimit}

Reconcile(found, again) ==
    /\ Quiet /\ ~ closed
    /\ run' = Capture("reconcile", found \union again)
    /\ UNCHANGED <<storeVars, known, sessionVars, memoryVars, schedulerVars, modeVars,
                   lineageWork, resumeScheduled, ops>>

Revalidate(files) ==
    /\ Quiet /\ ~ closed /\ available
    /\ files # {}
    /\ run' = Capture("revalidate", files)
    /\ UNCHANGED <<storeVars, known, sessionVars, memoryVars, schedulerVars, modeVars,
                   lineageWork, resumeScheduled, ops>>

CaptureFile(a) ==
    /\ run.step = "capture" /\ a \in run.todo
    /\ CaptureOne(a)
    /\ run' = [run EXCEPT !.todo = @ \ {a}, !.seen = @ \union {a}]
    /\ UNCHANGED <<disk, lineageId, known, sessionVars, memoryVars, schedulerVars, modeVars,
                   lineageWork, resumeScheduled, ops>>

RegisterSeen ==
    /\ run.step = "capture" /\ run.todo = {}
    /\ Register(run.seen, [a \in Artifacts |-> Observed(a)])
    /\ run' = [run EXCEPT !.step = "decide",
                          !.changed = {a \in run.seen : known[a] # Observed(a)}]
    /\ UNCHANGED <<storeVars, created, selected, schedulerVars, modeVars,
                   lineageWork, resumeScheduled, ops>>

\* Candidates come from the captured files that are present.
Candidates ==
    [a \in Artifacts |->
        IF a \in run.seen /\ records[a].seen.status = "present" THEN records[a].gen ELSE 0]

\* Groups of GroupSize files, the last one shorter.
Chunkings(files) ==
    {parts \in SUBSET (SUBSET files) :
        /\ UNION parts = files
        /\ \A p, q \in parts : p # q => p \intersect q = {}
        /\ \A p \in parts : p # {} /\ Cardinality(p) <= GroupSize
        /\ \A p, q \in parts : p # q =>
                Cardinality(p) = GroupSize \/ Cardinality(q) = GroupSize}

Chunks(files) == CHOOSE parts \in Chunkings(files) : TRUE

GroupsOf(s, sets) == {group \in Groups : group.owner = s /\ group.files \in sets}

\* Classify groups one after another; a group without candidates is skipped.
Dispatching(groups, refs) ==
    LET useful == {group \in groups : \E a \in group.files : refs[a] # 0}
    IN  IF useful = {} THEN NoRun
        ELSE [NoRun EXCEPT !.op = run.op, !.step = "dispatch", !.refs = refs, !.groups = useful]

Deciding(op) == run.step = "decide" /\ run.op = op

DecideNothing ==
    /\ Deciding("requested") \/ Deciding("revalidate")
    /\ Proceed(NoRun)
    /\ UNCHANGED <<storeVars, known, sessionVars, memoryVars, schedulerVars, modeVars,
                   lineageWork, ops>>

\* The end of a tool call also rereads earlier support.
DecideTool(again) ==
    /\ Deciding("tool")
    /\ run' = [run EXCEPT !.op = "again", !.step = "capture", !.todo = again,
                          !.seen = {}, !.changed = {}, !.refs = Candidates]
    /\ UNCHANGED <<storeVars, known, sessionVars, memoryVars, schedulerVars, modeVars,
                   lineageWork, resumeScheduled, ops>>

\* Named files are classified together, incidental ones each alone.
DecideEvent ==
    LET refs == IF run.op = "started" THEN Candidates ELSE run.refs
    IN  /\ Deciding("started") \/ Deciding("again")
        /\ Proceed(Dispatching(
                GroupsOf(run.owner, Chunks(run.named) \union
                            {{a} : a \in Files(refs) \ run.named}), refs))
        /\ UNCHANGED <<storeVars, known, sessionVars, memoryVars, schedulerVars, modeVars,
                       lineageWork, ops>>

DecideReconcile ==
    /\ Deciding("reconcile")
    /\ lineageWork' = lineageWork \ run.seen
    /\ Proceed(IF selected = NoSession THEN NoRun
               ELSE Dispatching(GroupsOf(selected,
                        Chunks(run.changed \union (lineageWork \intersect run.seen))), Candidates))
    /\ UNCHANGED <<storeVars, known, sessionVars, memoryVars, schedulerVars, modeVars, ops>>
----
(***************************************************************************)
(* Pause, checkout changes, session selection and close.                    *)
(***************************************************************************)
\* Callbacks run between two awaits, never inside a synchronous section.
Between == run.step \in {"idle", "capture"}

\* Queued jobs are thrown away without being counted out.
MutantNotDrained == pending

\* classificationQueue.splice(0) counts every job out.
Drained == pending - Len(queue)

Pause ==
    /\ Between /\ ~ paused
    /\ paused' = TRUE
    /\ deferred' = IF TransmitSource THEN WithDeferred(Waiting) ELSE deferred
    /\ pending' = Drained
    /\ queue' = <<>>
    /\ UNCHANGED <<storeVars, known, sessionVars, graph, completed, active, closed, available,
                   epoch, lineageWork, resumeScheduled, ops, run>>

Resume ==
    /\ Between /\ paused
    /\ paused' = FALSE
    /\ resumeScheduled' = TRUE
    /\ ops' = IF resumeScheduled THEN ops ELSE Append(ops, [op |-> "resume", workflow |-> 0])
    /\ UNCHANGED <<storeVars, known, sessionVars, memoryVars, schedulerVars, closed, available,
                   epoch, lineageWork, run>>

AllAborted == [w \in Workflows |-> IF w \in Busy THEN [active[w] EXCEPT !.aborted = TRUE] ELSE active[w]]

\* observeLineage: cancels what was asked about the other checkout, withdraws
\* every observation, and after an outage flushes what was deferred.
ObserveLineage(id, usable) ==
    LET changed == id # lineageId
    IN  /\ Quiet /\ ~ closed
        /\ changed \/ usable # available
        /\ ~ usable => ~ changed
        /\ available' = usable
        /\ lineageId' = id
        /\ IF changed \/ ~ usable
           THEN /\ epoch < MaxEpoch
                /\ epoch' = epoch + 1
                /\ active' = AllAborted
                /\ queue' = <<>>
                /\ pending' = Drained
           ELSE UNCHANGED <<epoch, schedulerVars>>
        /\ IF changed
           THEN LET withdrawn == [a \in Artifacts |-> Withdrawn(a)]
                    differ == {a \in Tracked : known[a] # withdrawn[a]}
                    g == [s \in Sessions |-> Invalidate(graph[s], differ, withdrawn)]
                    d == [s \in Sessions |->
                            IF s \in Live /\ paused /\ TransmitSource
                            THEN deferred[s] \union (differ \intersect Supported(graph[s]))
                            ELSE deferred[s]]
                IN  /\ known' = [a \in Artifacts |-> IF a \in Tracked THEN withdrawn[a] ELSE known[a]]
                    /\ lineageWork' = lineageWork \union {a \in Artifacts : known[a].gen # 0}
                    /\ \E victims \in Overflows(g) :
                            Retain(victims, g, d, [s \in Sessions |-> {}])
           ELSE /\ deferred' = IF usable THEN deferred
                               ELSE WithDeferred({active[w] : w \in Busy} \union Waiting)
                /\ UNCHANGED <<known, lineageWork, session, graph, completed>>
        /\ ops' = IF usable /\ ~ available /\ ~ paused
                  THEN Append(ops, [op |-> "flush", workflow |-> 0]) ELSE ops
        /\ UNCHANGED <<disk, records, created, selected, paused, closed, resumeScheduled, run>>

SelectSession(s) ==
    /\ Between /\ s \in Live
    /\ selected' = s
    /\ UNCHANGED <<storeVars, known, session, created, memoryVars, schedulerVars, modeVars,
                   lineageWork, resumeScheduled, ops, run>>

Close ==
    /\ Between /\ ~ closed
    /\ closed' = TRUE
    /\ deferred' = NoWork
    /\ pending' = Drained
    /\ queue' = <<>>
    /\ active' = AllAborted
    /\ UNCHANGED <<storeVars, known, sessionVars, graph, completed, paused, available, epoch,
                   lineageWork, resumeScheduled, ops, run>>
----
(***************************************************************************)
(* Operations the coordinator appends itself: flushing deferred work,       *)
(* rereading a job that waited, and applying an answer.                     *)
(***************************************************************************)
Starting(op) == Quiet /\ ops # <<>> /\ Head(ops).op = op

Worker == Head(ops).workflow

\* A job leaves its workflow; the slot is freed by a later callback.
Left(w) == [active EXCEPT ![w].phase = "finished", ![w].result = "none"]

Leave(w, next) ==
    /\ active' = Left(w)
    /\ Proceed(next)
    /\ UNCHANGED <<storeVars, known, sessionVars, memoryVars, queue, pending, modeVars,
                   lineageWork>>

LeaveDeferred(w, next) ==
    /\ active' = Left(w)
    /\ deferred' = WithDeferred({active[w]})
    /\ Proceed(next)
    /\ UNCHANGED <<storeVars, known, sessionVars, graph, completed, queue, pending, modeVars,
                   lineageWork>>

CaptureFor(files) ==
    /\ run' = [Capture(Head(ops).op, files) EXCEPT !.workflow = Worker]
    /\ UNCHANGED <<storeVars, known, sessionVars, memoryVars, schedulerVars, modeVars,
                   lineageWork, resumeScheduled>>

\* Edges that lean on deferred files bring in their other file.
RelatedFiles(s, files) ==
    {f \in {Files(graph[s][c].refs) : c \in EdgeIds} : f \intersect files # {}}

Deferring == {s \in Sessions : deferred[s] # {}}

StartFlush ==
    /\ Starting("flush") \/ Starting("resume")
    /\ ops' = Tail(ops)
    /\ IF Stopped \/ Deferring = {}
       THEN /\ resumeScheduled' = (resumeScheduled /\ Head(ops).op # "resume")
            /\ UNCHANGED <<deferred, run>>
       ELSE LET needed == UNION {deferred[s] : s \in Deferring}
                related == UNION UNION {RelatedFiles(s, needed) : s \in Deferring}
            IN  /\ run' = [Capture(Head(ops).op, (needed \union related) \intersect Tracked)
                            EXCEPT !.work = deferred]
                /\ deferred' = NoWork
                /\ UNCHANGED resumeScheduled
    /\ UNCHANGED <<storeVars, known, sessionVars, graph, completed, schedulerVars, modeVars,
                   lineageWork>>

\* A relationship is classified from all of its files, the rest in chunks.
FlushGroups(s) ==
    LET joint == {f \intersect run.seen : f \in RelatedFiles(s, run.work[s])}
        covered == UNION RelatedFiles(s, run.work[s])
    IN  GroupsOf(s, joint \union Chunks((run.work[s] \intersect run.seen) \ covered))

DecideFlush ==
    /\ Deciding("flush") \/ Deciding("resume")
    /\ Proceed(Dispatching(UNION {FlushGroups(s) : s \in Live}, Candidates))
    /\ UNCHANGED <<storeVars, known, sessionVars, memoryVars, schedulerVars, modeVars,
                   lineageWork, ops>>

\* refreshQueuedJob, up to its reread; leaving without it is the queue TTL.
StartRefresh ==
    /\ Starting("refresh")
    /\ LET job == active[Worker]
           gone == closed \/ ~ OwnerAlive(job)
       IN  \/ ~ (Stopped /\ ~ gone) /\ Leave(Worker, NoRun)
           \/ ~ gone /\ Stopped /\ LeaveDeferred(Worker, NoRun)
           \/ ~ gone /\ ~ Stopped /\ CaptureFor(Files(job.refs))
    /\ ops' = Tail(ops)

\* refreshQueuedJob after its reread, and the checks of runClassification;
\* finishing for no other reason is the queue TTL.
Refreshed == [active[run.workflow] EXCEPT !.refs = Candidates]

RefreshUseless ==
    \/ Files(Refreshed.refs) = {}
    \/ Covered(Refreshed, {active[w] : w \in Busy \ {run.workflow}} \union Waiting)
    \/ closed \/ Refreshed.aborted
    \/ ~ OwnerAlive(Refreshed)

DecideRefresh ==
    /\ Deciding("refresh")
    /\ \E phase \in {"finished", "asked"} :
        /\ active' = [active EXCEPT ![run.workflow] = [Refreshed EXCEPT !.phase = phase]]
        /\ phase = "asked" => ~ RefreshUseless /\ ~ Stopped
    /\ deferred' = IF Stopped /\ ~ RefreshUseless THEN WithDeferred({Refreshed}) ELSE deferred
    /\ Proceed(NoRun)
    /\ UNCHANGED <<storeVars, known, sessionVars, graph, completed, queue, pending, modeVars,
                   lineageWork, ops>>

\* A workflow whose classifier ignores the abort is never released.
MutantAbortIgnored(w, result, timeout) ==
    /\ Between
    /\ active[w].phase = "asked" /\ ~ active[w].aborted
    /\ active' = [active EXCEPT ![w].phase = "answered", ![w].result = result]
    /\ ops' = Append(ops, [op |-> "apply", workflow |-> w])
    /\ UNCHANGED <<storeVars, known, sessionVars, memoryVars, queue, pending, modeVars,
                   lineageWork, resumeScheduled, run>>

\* The classifier answers, fails, or is cut off by an abort or the deadline,
\* and the workflow appends the acceptance of its answer.
Answer(w, result, timeout) ==
    /\ Between
    /\ active[w].phase = "asked"
    /\ active[w].aborted \/ timeout => result = "failed"
    /\ active' = [active EXCEPT ![w].phase = "answered", ![w].result = result,
                                ![w].aborted = @ \/ timeout]
    /\ ops' = Append(ops, [op |-> "apply", workflow |-> w])
    /\ UNCHANGED <<storeVars, known, sessionVars, memoryVars, queue, pending, modeVars,
                   lineageWork, resumeScheduled, run>>

\* The lineage part of the guard of an acceptance.
SameCheckout(job) == available /\ job.epoch = epoch

\* Acceptance up to its reread; leaving without it is the deadline.
StartApply ==
    /\ Starting("apply")
    /\ LET job == active[Worker]
           dead == closed \/ job.owner \notin Live \/ ~ SameCheckout(job)
       IN  \/ ~ (paused /\ ~ dead) /\ Leave(Worker, NoRun)
           \/ ~ dead /\ paused /\ LeaveDeferred(Worker, NoRun)
           \/ /\ ~ dead /\ ~ paused /\ job.result # "failed"
              /\ CaptureFor(Files(job.refs))
    /\ ops' = Tail(ops)

\* The session is looked up by name only.
MutantSameName(job) == closed \/ job.owner \notin Live \/ ~ SameCheckout(job)

\* The guards of an acceptance are read again after its reread.
ApplyDead(job) == closed \/ ~ OwnerAlive(job) \/ ~ SameCheckout(job)

\* The files are reread, but their versions are not compared.
MutantUnchecked(job) == ~ ApplyDead(job) /\ ~ paused

\* A pause that begins during the reread is not noticed.
MutantPauseUnseen(job) == ~ ApplyDead(job) /\ IsCurrent(job.refs)

Judgeable(job) == ~ ApplyDead(job) /\ ~ paused /\ IsCurrent(job.refs)

SetAside ==
    /\ Deciding("apply")
    /\ LET job == active[run.workflow]
       IN  \/ ~ (paused /\ ~ ApplyDead(job)) /\ Leave(run.workflow, NoRun)
           \/ ~ ApplyDead(job) /\ paused /\ LeaveDeferred(run.workflow, NoRun)
    /\ UNCHANGED ops

Judged(job, c) == [c EXCEPT ![job.owner] = @ \union {job.refs}]

JudgeIrrelevant ==
    /\ Deciding("apply")
    /\ LET job == active[run.workflow]
       IN  /\ Judgeable(job) /\ job.result = "irrelevant"
           /\ completed' = Judged(job, completed)
    /\ active' = Left(run.workflow)
    /\ Proceed(NoRun)
    /\ UNCHANGED <<storeVars, known, sessionVars, graph, deferred, queue, pending, modeVars,
                   lineageWork, ops>>

\* compileDecision, recordPatch and remember, in that order: retention may
\* evict the very session the answer was for before the judgment is kept.
AcceptAnswer(answer) ==
    /\ Deciding("apply")
    /\ LET job == active[run.workflow]
           g == [graph EXCEPT ![job.owner] = Compile(@, job.refs, answer)]
       IN  /\ Judgeable(job) /\ job.result = "claims"
           /\ answer \subseteq AnswerableClaims(job.refs)
           /\ \E victims \in Overflows(g) :
                /\ session' = [s \in Sessions |-> IF s \in victims THEN 0 ELSE session[s]]
                /\ graph' = [s \in Sessions |-> IF s \in victims THEN EmptyGraph ELSE g[s]]
                /\ deferred' = [s \in Sessions |-> IF s \in victims THEN {} ELSE deferred[s]]
                /\ completed' = Judged(job,
                        [s \in Sessions |-> IF s \in victims THEN {} ELSE completed[s]])
    /\ active' = Left(run.workflow)
    /\ Proceed(NoRun)
    /\ UNCHANGED <<storeVars, known, created, selected, queue, pending, modeVars,
                   lineageWork, ops>>

\* The last callback of a workflow frees its slot for a waiting job.
FinishWorkflow(w) ==
    /\ Between
    /\ active[w].phase = "finished"
    /\ pending' = pending - 1
    /\ Pump(queue, [active EXCEPT ![w] = NoJob])
    /\ UNCHANGED <<storeVars, known, sessionVars, memoryVars, modeVars, lineageWork,
                   resumeScheduled, run>>
----
Hooks ==
    \E s \in Sessions, kind \in {"started", "requested", "tool"},
       named \in SUBSET Artifacts : \E found \in SUBSET (Artifacts \ named) :
            Ingest(s, kind, named, found)

Reconciliation ==
    \E found \in SUBSET Artifacts, again \in Rereads : Reconcile(found, again)

Revalidation == \E files \in SUBSET Tracked : Revalidate(files)

Checkout == \E id \in Lineages, usable \in BOOLEAN : ObserveLineage(id, usable)

Control == Pause \/ Resume \/ Close \/ \E s \in Sessions : SelectSession(s)

Edits == \E a \in Artifacts : EditFile(a) /\
    UNCHANGED <<known, sessionVars, memoryVars, schedulerVars, modeVars, lineageWork,
                resumeScheduled, ops, run>>

Answers ==
    \E w \in Workflows, result \in {"claims", "irrelevant", "failed"}, timeout \in BOOLEAN :
        Answer(w, result, timeout)

Acceptance == SetAside \/ JudgeIrrelevant \/ \E answer \in SUBSET ClaimIds : AcceptAnswer(answer)

Dispatch ==
    \E group \in run.groups :
        \/ SkipGroup(group) \/ DeferGroup(group) \/ SupersedeGroup(group)
        \/ DropGroup(group) \/ QueueGroup(group)

\* The steps of the operation that runs.
Continue ==
    \/ \E a \in Artifacts : CaptureFile(a)
    \/ RegisterSeen
    \/ DecideNothing \/ DecideEvent \/ DecideReconcile \/ DecideFlush \/ DecideRefresh
    \/ \E again \in Rereads : DecideTool(again)
    \/ Acceptance
    \/ Dispatch

StartNext == StartFlush \/ StartRefresh \/ StartApply

Environment == Hooks \/ Reconciliation \/ Revalidation \/ Checkout \/ Control \/ Edits

Finishing == \E w \in Workflows : FinishWorkflow(w)

Next == Environment \/ Answers \/ Continue \/ StartNext \/ Finishing

Spec == Init /\ [][Next]_vars
====
