---- MODULE MCArchitecture ----
(***************************************************************************)
(* Instances of Architecture and of Boundaries, which have nothing to do    *)
(* with one another here, in one run.                                       *)
(***************************************************************************)
EXTENDS Architecture, Boundaries

CONSTANTS app, left, right  \* source files, of which the first may import the others

VARIABLE way  \* the instance that runs, which does not change

Pairs == {<<app, left>>, <<app, right>>}

Changes == FoldSet(LAMBDA f, sum : sum + source[f].gen - 1, 0, Sources)

wayVars == <<vars, boundaryVars, way>>

WayInit ==
    /\ way \in {"controller", "boundaries"} /\ Init /\ BoundaryInit
    /\ way = "controller" => imported = {}

InController == way = "controller" /\ Next /\ UNCHANGED <<boundaryVars, way>>

\* One change of a file, or two and no more than one analysis.
InBoundaries ==
    /\ way = "boundaries" /\ BoundaryNext
    /\ Changes' <= 1 \/ (Changes' = 2 /\ analyses' <= 1)
    /\ UNCHANGED <<vars, way>>

\* The fairness is that of Spec, for the controller.
WaySpec == WayInit /\ [][InController \/ InBoundaries]_wayVars /\ WF_vars(way = "controller" /\ Due)
====
