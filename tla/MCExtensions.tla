---- MODULE MCExtensions ----
(***************************************************************************)
(* Instances that have nothing to do with one another, in one run:          *)
(* AnalysisBroker over ExtensionRegistry; Activity, with the calls of one    *)
(* session, of which one alone names all files; Viewer; and Panels.         *)
(***************************************************************************)
EXTENDS AnalysisBroker, Activity, Viewer, Panels, TLC

CONSTANTS
    busy,      \* the session of the calls
    wide,      \* the call that names all files
    source,    \* the file that the other calls name
    MaxShared  \* bound: what is spent while there are several calls, or the most snapshots

VARIABLE way  \* the instance that runs, which does not change

Owners == [c \in Calls |-> busy]

Named == [c \in Calls |-> IF c = wide THEN Artifacts ELSE {source}]

Heard == {report[1] : report \in heard}

pageVars == <<viewerVars, panelVars>>
wayVars == <<vars, activityVars, pageVars, way>>

\* What does not run has one initial state.
WayInit ==
    /\ way \in {"extension", "activity", "viewer", "panels"}
    /\ Init /\ ActivityInit /\ ViewerInit /\ PanelInit
    /\ way # "activity" => lineageId = NoLineage
    /\ way # "viewer" => log = <<CHOOSE s \in Snapshots : s.nodes = {}>>

\* While there is an analysis, one process writes at a time; before, two race.
InExtension ==
    /\ way = "extension" /\ Next
    /\ \/ \A a \in Analyses : at'[a] = "new"
       \/ Cardinality({p \in Procs : pc'[p] \notin {"idle", "dead"}}) <= 1
    /\ UNCHANGED <<activityVars, pageVars, way>>

\* More happens to one call than while there are two, or than to the one that names all files,
\* which is there alone.
InActivity ==
    /\ way = "activity" /\ ActivityNext
    /\ wide \in Heard' => Heard' = {wide}
    /\ spent' > MaxShared => wide \notin Heard' /\ Cardinality(Heard') <= 1
    /\ wide \in Heard' \/ \A a \in Artifacts \ {source} : disk'[a] = disk[a]
    /\ UNCHANGED <<vars, pageVars, way>>

\* The last snapshot is published where little else has happened.
InViewer ==
    /\ way = "viewer" /\ ViewerNext
    /\ Len(log') = MaxVersions => MaxActs - acts' <= MaxShared
    /\ UNCHANGED <<vars, activityVars, panelVars, way>>

InPanels == way = "panels" /\ PanelNext /\ UNCHANGED <<vars, activityVars, viewerVars, way>>

WaySpec == WayInit /\ [][InExtension \/ InActivity \/ InViewer \/ InPanels]_wayVars

Swaps(S) == {p \in Permutations(S) : \A x \in S : p[x] # x}

\* Versions, processes, calls and checkouts are interchangeable; the calls do not change while
\* the versions do.
Swapped == {p @@ q : p \in Swaps(Digests), q \in Swaps(Calls \ {wide})}

Symmetry ==
    UNION {Permutations(Procs), Swapped, Swaps(Lineages), {p @@ q : p \in Swapped, q \in Swaps(Lineages)}}
====
