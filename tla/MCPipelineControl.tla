---- MODULE MCPipelineControl ----
(***************************************************************************)
(* Instances that have nothing to do with one another, in one run: the      *)
(* coordinator under its controls, ChangeHistory and Layout.                *)
(***************************************************************************)
EXTENDS MCPipeline, ChangeHistory, Layout

CONSTANT shown  \* the session that is selected at first

VARIABLE way  \* the instance that runs, which does not change

wayVars == <<mcVars, historyVars, layoutVars, way>>

\* What does not run has one initial state.
WayInit ==
    /\ way \in {"control", "history", "layout"}
    /\ MCInit
    /\ HistoryInit /\ chosen = shown
    /\ IF way = "layout" THEN LayoutInit ELSE diagram = Nowhere /\ placed = Nowhere

InControl == way = "control" /\ MCNext /\ UNCHANGED <<historyVars, layoutVars, way>>
InHistory == way = "history" /\ HistoryNext /\ UNCHANGED <<mcVars, layoutVars, way>>
InLayout == way = "layout" /\ layoutGraph /\ UNCHANGED <<mcVars, historyVars, way>>

\* A step of the coordinator, which alone is fair.
Fairly(step) == way = "control" /\ step /\ UNCHANGED bounds

\* The fairness is that of MCFairSpec.
WaySpec ==
    /\ WayInit /\ [][InControl \/ InHistory \/ InLayout]_wayVars
    /\ WF_mcVars(Fairly(Continue))
    /\ WF_mcVars(Fairly(StartNext))
    /\ \A w \in Workflows :
        /\ WF_mcVars(Fairly(AnswerOf(w)))
        /\ WF_mcVars(Fairly(FinishWorkflow(w)))
====
