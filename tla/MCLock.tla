---- MODULE MCLock ----
(***************************************************************************)
(* Instances that have nothing to do with one another, in one run:          *)
(* PublicationLock, and Onboarding.                                         *)
(***************************************************************************)
EXTENDS PublicationLock, Onboarding, TLC

CONSTANT first  \* the repository in which setup begins

VARIABLE way  \* the instance that runs, which does not change

wayVars == <<vars, setupVars, way>>

WayInit == way \in {"lock", "setup"} /\ Init /\ SetupInit

InLock == way = "lock" /\ Next /\ UNCHANGED <<setupVars, way>>

\* The last command runs alone, and other repositories name one host at a time.
InSetup ==
    /\ way = "setup" /\ SetupNext
    /\ spent'.commands = MaxCommands =>
          Cardinality({r \in Repos : cmd'[r] # NoCommand}) <= 1
    /\ spent'.commands = 1 /\ spent.commands = 0 => cmd'[first] # NoCommand
    /\ \A r \in Repos \ {first} :
          Cardinality(receipt'[r].hosts \union cmd'[r].todo \union cmd'[r].pending) <= 1
    /\ UNCHANGED <<vars, way>>

WaySpec == WayInit /\ [][InLock \/ InSetup]_wayVars
           /\ \A p \in Procs : WF_vars(Step(p))
====
