---- MODULE MCPipeline ----
(***************************************************************************)
(* Small instances of the coordinator for TLC.  What the environment does   *)
(* is bounded per kind; what the coordinator does itself is not.            *)
(***************************************************************************)
EXTENDS PipelineProperties, TLC

CONSTANTS
    FirstLineages, \* the checkouts observed before anything else, if any
    HookKinds,    \* the hook events that occur
    MaxRequests,  \* bound: hook events, reconciliations and revalidations
    MaxControls,  \* bound: pauses, resumes, checkout changes, selections, close
    MaxEdits      \* bound: edits of the worktree

VARIABLES requests, controls, edits

bounds == <<requests, controls, edits>>

mcVars == <<vars, bounds>>

MCInit == Init /\ lineageId \in FirstLineages /\ requests = 0 /\ controls = 0 /\ edits = 0

HooksOf(kinds) ==
    \E s \in Sessions, kind \in kinds, named \in SUBSET Artifacts :
        \E found \in SUBSET (Artifacts \ named) : Ingest(s, kind, named, found)

Requested ==
    /\ requests < MaxRequests
    /\ requests' = requests + 1
    /\ HooksOf(HookKinds) \/ Reconciliation \/ Revalidation
    /\ UNCHANGED <<controls, edits>>

Controlled ==
    /\ controls < MaxControls
    /\ controls' = controls + 1
    /\ Checkout \/ Control
    /\ UNCHANGED <<requests, edits>>

Edited ==
    /\ edits < MaxEdits
    /\ edits' = edits + 1
    /\ Edits
    /\ UNCHANGED <<requests, controls>>

Own == Answers \/ Continue \/ StartNext \/ Finishing

MCNext == Requested \/ Controlled \/ Edited \/ (Own /\ UNCHANGED bounds)

MCSpec == MCInit /\ [][MCNext]_mcVars

AnswerOf(w) ==
    \E result \in Results \ {"none"}, timeout \in BOOLEAN : Answer(w, result, timeout)

\* Every file operation ends, the serial queue runs what was appended to it,
\* every request to the classifier ends (by an answer or by its deadline), and
\* the callbacks of a settled promise run.
MCFairSpec ==
    /\ MCSpec
    /\ WF_mcVars(Continue /\ UNCHANGED bounds)
    /\ WF_mcVars(StartNext /\ UNCHANGED bounds)
    /\ \A w \in Workflows :
        /\ WF_mcVars(AnswerOf(w) /\ UNCHANGED bounds)
        /\ WF_mcVars(FinishWorkflow(w) /\ UNCHANGED bounds)

\* Files are interchangeable as long as one group holds all of them.
FileSymmetry == Permutations(Artifacts)
====
