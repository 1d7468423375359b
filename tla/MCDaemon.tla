---- MODULE MCDaemon ----
(***************************************************************************)
(* Instances that have nothing to do with one another, in one run: Daemon,  *)
(* DiagnosticLog, ModelOrder, and ModelAccess with two holders, one of whom *)
(* is granted less than the other.                                          *)
(***************************************************************************)
EXTENDS Daemon, DiagnosticLog, ModelOrder, ModelAccess, TLC

CONSTANTS
    part,   \* the holder of a grant for the first kind
    whole   \* ... and the one of a grant for both

VARIABLE way  \* the instance that runs, which does not change

KindsOf == [h \in Holders |-> IF h = part THEN {1} ELSE {1, 2}]

Counts == <<2, 1>>

wayVars == <<vars, logVars, orderVars, accessVars, way>>

\* What does not run has one initial state.
WayInit ==
    /\ way \in {"daemon", "log", "order", "access"}
    /\ Init /\ LogInit /\ AccessInit
    /\ IF way = "order" THEN OrderInit
       ELSE /\ parent = [e \in Entities |-> 0] /\ members = {} /\ withdrawn = {}
            /\ touched = [i \in 1..Rows |-> {}] /\ scope = 0 /\ answer = Unanswered

InDaemon == way = "daemon" /\ Next /\ UNCHANGED <<logVars, orderVars, accessVars, way>>
InLog == way = "log" /\ LogNext /\ UNCHANGED <<vars, orderVars, accessVars, way>>
InOrder == way = "order" /\ OrderNext /\ UNCHANGED <<vars, logVars, accessVars, way>>
InAccess == way = "access" /\ AccessNext /\ UNCHANGED <<vars, logVars, orderVars, way>>

WaySpec == WayInit /\ [][InDaemon \/ InLog \/ InOrder \/ InAccess]_wayVars

\* Processes are interchangeable.
Symmetry == Permutations(Procs)
====
