---- MODULE PipelineProperties ----
(***************************************************************************)
(* What the coordinator promises (docs/module-contracts.md, "Coordinator",  *)
(* and the comments of runtime/pipeline.mjs).                               *)
(***************************************************************************)
EXTENDS Pipeline

\* status.pending includes waiting and active jobs, whatever drained the queue.
PendingAccounting == pending = Len(queue) + Cardinality(Busy)

\* A job waits only while every workflow is taken, and never through a pause,
\* an outage of the checkout or a close: pumpClassifications is called wherever
\* a slot becomes free.
WaitsOnlyBehindFullPool == queue # <<>> => Free(active) = {} /\ ~ Stopped

\* The queue never holds a job that would be asked with the source it was
\* scheduled with: "Queued snippets may no longer describe the worktree."
WaitingJobsReread == \A i \in DOMAIN queue : queue[i].refresh

\* A workflow waits for at most one operation of the serial queue, and its
\* phase tells which: no answer is applied twice and no reread is left over.
OneOperationPerWorkflow ==
    /\ \A i, j \in DOMAIN ops :
        i # j /\ ops[i].workflow # 0 => ops[i].workflow # ops[j].workflow
    /\ \A i \in DOMAIN ops : ops[i].workflow # 0 =>
        /\ ops[i].workflow # run.workflow
        /\ active[ops[i].workflow].phase =
                IF ops[i].op = "refresh" THEN "refresh" ELSE "answered"
    /\ run.workflow # 0 =>
        active[run.workflow].phase = IF run.op = "refresh" THEN "refresh" ELSE "answered"

\* The discipline of the queue as one promise: pending is exact, nothing waits
\* beside a free workflow, what waits is reread, and a workflow and the serial
\* queue agree about who has to act next.
QueueDiscipline ==
    /\ PendingAccounting
    /\ WaitsOnlyBehindFullPool
    /\ WaitingJobsReread
    /\ OneOperationPerWorkflow

\* Two workflows never ask about the same input for the same session object.
NoDuplicateInFlight ==
    \A v, w \in Workflows :
        /\ v # w
        /\ active[v].phase \in {"asked", "answered"} /\ active[w].phase \in {"asked", "answered"}
        /\ active[v].owner = active[w].owner /\ active[v].object = active[w].object
        /\ active[v].refs = active[w].refs
        => active[v].aborted \/ active[w].aborted

\* A claim shown as current cites, of each of its files, the version that was
\* observed last: no late answer and no missed invalidation leaves it behind.
CurrentClaimsMatchKnown ==
    \A s \in Sessions, c \in ClaimIds :
        graph[s][c].current =>
            \A a \in Files(graph[s][c].refs) :
                known[a] = [gen |-> graph[s][c].refs[a], status |-> "present"]

\* While nothing runs, a current claim cites evidence of this checkout.
CurrentClaimsOfThisCheckout ==
    Quiet => \A s \in Sessions, c \in ClaimIds :
                graph[s][c].current => IsCurrent(graph[s][c].refs)

\* validGraph: a drawn relationship has both of its nodes.
RelationshipEndsDrawn ==
    \A s \in Sessions : \A c \in Drawn(graph[s]) : \A a \in c : {a} \in Drawn(graph[s])

\* What is drawn as current is current: it cites the versions observed last, of
\* this checkout, and no relationship outlives its nodes.
DiagramIsCurrent ==
    /\ CurrentClaimsMatchKnown
    /\ CurrentClaimsOfThisCheckout
    /\ RelationshipEndsDrawn

Revived(s, c) == graph'[s][c].current /\ graph'[s][c] # graph[s][c]

\* A claim appears or becomes current only while classification runs.
AcceptedOnlyWhileRunning ==
    [][\A s \in Sessions, c \in ClaimIds : Revived(s, c) => ~ Stopped]_vars

\* ... and only in the session object that asked, never in a later session
\* that took over its name.
AcceptedByOwner ==
    \A s \in Sessions, c \in ClaimIds :
        Revived(s, c) =>
            /\ run.op = "apply"
            /\ active[run.workflow].owner = s
            /\ active[run.workflow].object = session[s]

\* The classifier is asked only while classification runs, about the current
\* checkout, for a session that still exists.
AskedOnlyWhileRunning ==
    \A w \in Workflows :
        active[w].phase # "asked" /\ active'[w].phase = "asked" =>
            /\ ~ Stopped
            /\ ~ active'[w].aborted
            /\ active'[w].epoch = epoch
            /\ active'[w].object = session[active'[w].owner]

\* Question and answer belong to one session object, which lives at both ends:
\* neither is for the session that took over the name meanwhile.
JudgedForOwner == [][AcceptedByOwner /\ AskedOnlyWhileRunning]_vars

\* "Pausing retains bounded references for resume": a pause never loses the
\* files of a waiting job, nor those of an answer that arrives during it.
PauseKeepsWork ==
    [][~ closed /\ ~ closed' =>
        /\ ~ paused /\ paused' =>
            \A i \in DOMAIN queue : Files(queue[i].refs) \subseteq deferred'[queue[i].owner]
        /\ \A w \in Workflows :
            /\ paused
            /\ active[w].phase = "answered" /\ active'[w].phase = "finished"
            /\ OwnerAlive(active[w]) /\ SameCheckout(active[w])
            => Files(active[w].refs) \subseteq deferred'[active[w].owner]]_vars

\* Once requests stop, every job is finished: no workflow waits for the serial
\* queue while the queue waits for it, and close() returns.
PendingDrains == pending > 0 ~> pending = 0
----
(***************************************************************************)
(* Statements of the repository that the code does not keep.                *)
(***************************************************************************)
Settled == Quiet /\ ops = <<>> /\ Busy = {}

\* tests/integration/discovery-queue.test.mjs:380, "resume preserves every
\* file": when everything has settled and nothing is paused, no file still
\* waits to be classified.
ResumePreservesEveryFile ==
    Settled /\ ~ Stopped => \A s \in Live : deferred[s] = {}

\* evidence.mjs:156, after a checkout change: "The next real capture advances
\* each generation, even if its bytes are identical."
CaptureAfterCheckoutAdvances ==
    [][\A a \in Artifacts :
        /\ known[a] = Withdrawn(a) /\ records[a].seen.status = "present"
        /\ run.step = "capture" /\ a \in run.todo /\ a \notin run'.todo
        => records'[a].gen > records[a].gen]_vars

\* tests/integration/review-regressions.test.mjs:157, a deferred relationship
\* is refreshed: an accepted answer about the present versions of both files
\* makes the relationship it supports current again.
AnswerRefreshesRelationship ==
    [][\A answer \in SUBSET ClaimIds :
        AcceptAnswer(answer) =>
            \A c \in answer \intersect EdgeIds :
                (\A a \in c : {a} \in answer) =>
                    \A s \in Sessions : s = active[run.workflow].owner =>
                        session'[s] = 0 \/ graph'[s][c].current]_vars
====
