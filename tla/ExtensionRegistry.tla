---- MODULE ExtensionRegistry ----
(***************************************************************************)
(* The catalogue of extensions on disk (runtime/extensions/registry.mjs).   *)
(*                                                                         *)
(* The daemons of several projects and the command line share it.  A write  *)
(* makes the lock directory, reads the catalogue, changes what it read,     *)
(* renames the result over the file and removes the directory; it gives up  *)
(* when the directory stays.  A process may die in the middle; nothing      *)
(* removes the directory it leaves.  Readers take no lock.  Versions are    *)
(* stored beside the catalogue, are never overwritten, and stay.            *)
(***************************************************************************)
EXTENDS Naturals, FiniteSets

CONSTANTS
    Digests,    \* versions of the extension, by the digest of their bundles
    Projects,
    Procs,      \* processes with a registry
    None,
    MaxWrites,  \* bounds the operations
    MaxCrashes  \* bounds the processes that die

ASSUME RegistryAssumption ==
    /\ None \notin Digests
    /\ MaxWrites \in Nat /\ MaxCrashes \in Nat

VARIABLES
    installed, \* catalogue.json: the installed version
    grants,    \* catalogue.json: each project's approval
    bundles,   \* versions in the bundles directory
    lock,      \* whether write.lock exists
    pc,        \* where a process is in locked()
    op,        \* what it was asked to write
    read,      \* the catalogue it has read, and then changed
    clock      \* operations begun: their times, which tell approvals apart

registryVars == <<installed, grants, bundles, lock, pc, op, read, clock>>

NoGrant == [digest |-> None, at |-> 0]

GrantsType == [digest : Digests \union {None}, at : 0..MaxWrites]

CatalogueType == [installed : Digests \union {None}, grants : [Projects -> GrantsType]]

Ops == [kind : {"install", "remove", "grant", "revoke", "none"},
        digest : Digests \union {None}, project : Projects \union {None}, at : 0..MaxWrites]

Operation(kind, digest, project, time) ==
    [kind |-> kind, digest |-> digest, project |-> project, at |-> time]

NoOp == Operation("none", None, None, 0)

Blank == [installed |-> None, grants |-> [p \in Projects |-> NoGrant]]

Inside == {p \in Procs : pc[p] \in {"reading", "acting", "writing", "unlocking"}}

\* The types; one process at a time is past the lock directory, which then exists.
RegistryTypeOK ==
    /\ [installed |-> installed, grants |-> grants] \in CatalogueType
    /\ bundles \subseteq Digests
    /\ lock \in BOOLEAN
    /\ pc \in [Procs -> {"idle", "locking", "reading", "acting", "writing", "unlocking", "dead"}]
    /\ op \in [Procs -> Ops]
    /\ read \in [Procs -> CatalogueType]
    /\ clock \in 0..MaxWrites
    /\ Cardinality(Inside) <= 1 /\ (Inside # {} => lock)

RegistryInit ==
    /\ installed = None /\ grants = Blank.grants
    /\ bundles = {} /\ lock = FALSE
    /\ pc = [p \in Procs |-> "idle"]
    /\ op = [p \in Procs |-> NoOp]
    /\ read = [p \in Procs |-> Blank]
    /\ clock = 0

Go(p, place) == pc' = [pc EXCEPT ![p] = place]

\* locked is over: its process holds nothing any more.
Over(p) ==
    /\ Go(p, "idle")
    /\ op' = [op EXCEPT ![p] = NoOp]
    /\ read' = [read EXCEPT ![p] = Blank]
----
(***************************************************************************)
(* locked                                                                   *)
(***************************************************************************)
\* install (its package has been read and checked), remove, grant or revoke.
Begin(p) ==
    /\ pc[p] = "idle" /\ clock < MaxWrites
    /\ clock' = clock + 1
    /\ \/ \E d \in Digests : op' = [op EXCEPT ![p] = Operation("install", d, None, 0)]
       \/ op' = [op EXCEPT ![p] = Operation("remove", None, None, 0)]
       \/ \E q \in Projects, d \in Digests : op' = [op EXCEPT ![p] = Operation("grant", d, q, clock')]
       \/ \E q \in Projects : op' = [op EXCEPT ![p] = Operation("revoke", None, q, 0)]
    /\ Go(p, "locking")
    /\ UNCHANGED <<installed, grants, bundles, lock, read>>

\* The lock directory of another process is no obstacle.
MutantAcquire(p) ==
    /\ pc[p] = "locking"
    /\ lock' = TRUE
    /\ Go(p, "reading")
    /\ UNCHANGED <<installed, grants, bundles, op, read, clock>>

\* mkdir, which fails while the directory exists.
Acquire(p) ==
    /\ pc[p] = "locking" /\ ~lock
    /\ lock' = TRUE
    /\ Go(p, "reading")
    /\ UNCHANGED <<installed, grants, bundles, op, read, clock>>

\* A hundred attempts, or the cancellation of an installation between them.
GiveUp(p) ==
    /\ pc[p] = "locking" /\ (lock \/ op[p].kind = "install")
    /\ Over(p)
    /\ UNCHANGED <<installed, grants, bundles, lock, clock>>

ReadState(p) ==
    /\ pc[p] = "reading"
    /\ read' = [read EXCEPT ![p] = [installed |-> installed, grants |-> grants]]
    /\ Go(p, "acting")
    /\ UNCHANGED <<installed, grants, bundles, lock, op, clock>>

\* An update keeps the approvals that were given.
MutantInstallRow(state, d) ==
    [state EXCEPT !.installed = d]

\* An update to another digest clears the approvals of every project.
InstallRow(state, d) ==
    [installed |-> d, grants |-> IF d = state.installed THEN state.grants ELSE Blank.grants]

\* What an operation makes of the catalogue it read; its guard is rowFor and the digest.
Allowed(o, state) ==
    o.kind = "install" \/ (state.installed # None /\ (o.kind = "grant" => o.digest = state.installed))

Apply(o, state) ==
    CASE o.kind = "install" -> InstallRow(state, o.digest)
      [] o.kind = "remove" -> Blank
      [] o.kind = "grant" ->
           [state EXCEPT !.grants[o.project] = [digest |-> o.digest, at |-> o.at]]
      [] o.kind = "revoke" -> [state EXCEPT !.grants[o.project] = NoGrant]
      [] OTHER -> state

\* The operation on what was read; an installation has its bundle in place before.
Act(p) ==
    /\ pc[p] = "acting" /\ Allowed(op[p], read[p])
    /\ bundles' = IF op[p].kind = "install" THEN bundles \union {op[p].digest} ELSE bundles
    /\ read' = [read EXCEPT ![p] = Apply(op[p], read[p])]
    /\ Go(p, "writing")
    /\ UNCHANGED <<installed, grants, lock, op, clock>>

\* The operation is refused, or cancelled before it is written: the catalogue stays.
Refuse(p) ==
    /\ \/ pc[p] = "acting" /\ ~Allowed(op[p], read[p])
       \/ pc[p] \in {"acting", "writing"} /\ op[p].kind = "install"
    /\ Go(p, "unlocking")
    /\ UNCHANGED <<installed, grants, bundles, lock, op, read, clock>>

\* atomicJSON: the rename of the new catalogue over the old one.
Write(p) ==
    /\ pc[p] = "writing"
    /\ installed' = read[p].installed
    /\ grants' = read[p].grants
    /\ Go(p, "unlocking")
    /\ UNCHANGED <<bundles, lock, op, read, clock>>

Unlock(p) ==
    /\ pc[p] = "unlocking"
    /\ lock' = FALSE
    /\ Over(p)
    /\ UNCHANGED <<installed, grants, bundles, clock>>

\* The process dies; a lock directory it made stays.
Crash(p) ==
    /\ pc[p] \notin {"idle", "dead"}
    /\ Cardinality({q \in Procs : pc[q] = "dead"}) < MaxCrashes
    /\ Go(p, "dead")
    /\ op' = [op EXCEPT ![p] = NoOp]
    /\ read' = [read EXCEPT ![p] = Blank]
    /\ UNCHANGED <<installed, grants, bundles, lock, clock>>

RegistryStep ==
    \E p \in Procs :
       \/ Begin(p) \/ Acquire(p) \/ GiveUp(p) \/ ReadState(p) \/ Act(p) \/ Refuse(p)
       \/ Write(p) \/ Unlock(p) \/ Crash(p)
----
(***************************************************************************)
(* Properties                                                               *)
(***************************************************************************)
\* The catalogue changes by whole operations one after the other, whoever writes and dies when:
\* the registry implements ExtensionCatalogue.
Catalogue == INSTANCE ExtensionCatalogue

WritesAreAtomic == Catalogue!CatalogueSpec

\* Every approval is one of the installed version, whose bundle is in place.
ApprovalsAreOfInstalled ==
    /\ \A q \in Projects : grants[q] # NoGrant => grants[q].digest = installed
    /\ installed # None => installed \in bundles
====
