---- MODULE MCDecisions ----
(***************************************************************************)
(* Instances of EvaluationCache over DecisionService for TLC.               *)
(***************************************************************************)
EXTENDS EvaluationCache

\* Every request asks the same question of the same evidence.
SameKey == [r \in Requests |-> "k"]
====
