---- MODULE OwnerRegister ----
(***************************************************************************)
(* What the lock of a project promises to its daemons: one recorded owner,  *)
(* which stays until it has died or has itself asked to be released.        *)
(***************************************************************************)
CONSTANTS
    Procs,   \* the processes that may become the daemon
    NoOwner

VARIABLES
    owner,   \* the recorded owner
    alive,   \* the processes that run
    leaving  \* the processes that have asked to be released

registerVars == <<owner, alive, leaving>>

Init == owner = NoOwner /\ alive = Procs /\ leaving = {}

Acquire(p) ==
    /\ p \in alive \ leaving /\ owner = NoOwner
    /\ owner' = p
    /\ UNCHANGED <<alive, leaving>>

Leave(p) ==
    /\ p \in alive \ leaving /\ owner = p
    /\ leaving' = leaving \union {p}
    /\ UNCHANGED <<owner, alive>>

\* The record of a dead owner goes, or that of one that asked for it.
Forget ==
    /\ owner \notin alive \/ owner \in leaving
    /\ owner' = NoOwner
    /\ UNCHANGED <<alive, leaving>>

Crash(p) ==
    /\ p \in alive
    /\ alive' = alive \ {p}
    /\ UNCHANGED <<owner, leaving>>

Next == Forget \/ \E p \in Procs : Acquire(p) \/ Leave(p) \/ Crash(p)

Spec == Init /\ [][Next]_registerVars
====
