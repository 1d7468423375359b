---- MODULE MCPipelineDiagram ----
(***************************************************************************)
(* One instance of the coordinator for two questions: what is drawn of two  *)
(* files of one session, with an edit or a control; and what becomes of one *)
(* file of several sessions, with a checkout change.                        *)
(***************************************************************************)
EXTENDS MCPipeline

VARIABLE way  \* the question, which does not change

wayVars == <<mcVars, way>>

WayInit == MCInit /\ way \in {"files", "sessions"}

InFiles ==
    /\ created' <= 1 /\ requests' < MaxRequests /\ edits' + controls' <= 1
    /\ lineageId' = lineageId /\ available' = available
    /\ run'.op \notin {"started", "requested"}

InSessions ==
    /\ Cardinality(Tracked' \union run'.todo) <= 1
    /\ edits' = 0 /\ run'.op # "tool"

WayNext ==
    /\ MCNext
    /\ way' = way
    /\ way = "files" => InFiles
    /\ way = "sessions" => InSessions

WaySpec == WayInit /\ [][WayNext]_wayVars

\* Files are interchangeable as long as one group holds all of them; so are
\* the names of sessions.
Symmetry == Permutations(Artifacts) \union Permutations(Sessions)
====
