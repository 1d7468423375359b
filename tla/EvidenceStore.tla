---- MODULE EvidenceStore ----
(***************************************************************************)
(* The registry of observed file versions of one worktree                   *)
(* (runtime/core/evidence.mjs) and the worktree it observes.                *)
(*                                                                         *)
(* A record never holds source bytes: it holds the generation, and the      *)
(* version the last capture hashed into it, [lineage, status, hash, stamp]. *)
(* Hash and stamp are abstracted to one number per file that every edit     *)
(* advances (the stamp contains the inode times, so rewriting the same      *)
(* bytes is a new version); a missing file has the one stamp "missing".     *)
(***************************************************************************)
EXTENDS Naturals

CONSTANTS
    Artifacts,        \* the files of the worktree
    Lineages,         \* identities of a checkout (branch and HEAD)
    NoLineage,        \* #lineage before the first observation
    GenerationFloor,  \* highest generation restored from an earlier daemon
    MaxStamp          \* bound: edits of one file

ASSUME StoreAssumption ==
    /\ NoLineage \notin Lineages
    /\ GenerationFloor \in Nat
    /\ MaxStamp \in Nat

VARIABLES
    disk,       \* what the worktree holds: status and stamp of every file
    records,    \* #records: generation (0: untracked) and the version seen
    lineageId   \* #lineage; the coordinator's lineageId is set with it

storeVars == <<disk, records, lineageId>>

Statuses == {"present", "missing", "unavailable"}

AnyLineage == Lineages \union {NoLineage}

Versions == [lineage : AnyLineage, status : Statuses, stamp : 0..MaxStamp]

StoreTypeOK ==
    /\ disk \in [Artifacts -> [status : Statuses, stamp : 0..MaxStamp]]
    /\ records \in [Artifacts -> [gen : Nat, seen : Versions]]
    /\ lineageId \in AnyLineage

Unseen == [lineage |-> NoLineage, status |-> "missing", stamp |-> 0]

\* The first checkout may be observed before the first file is.
StoreInit ==
    /\ disk = [a \in Artifacts |-> [status |-> "present", stamp |-> 0]]
    /\ records = [a \in Artifacts |-> [gen |-> 0, seen |-> Unseen]]
    /\ lineageId \in AnyLineage

Tracked == {a \in Artifacts : records[a].gen # 0}

\* The observation of a capture: its generation and status.
Observed(a) == [gen |-> records[a].gen, status |-> records[a].seen.status]

\* What setLineage returns for every record: same generation, unavailable.
Withdrawn(a) == [gen |-> records[a].gen, status |-> "unavailable"]

\* The version #inspect finds now.
Inspect(a) ==
    [lineage |-> lineageId, status |-> disk[a].status,
     stamp |-> IF disk[a].status = "missing" THEN 0 ELSE disk[a].stamp]

NextGeneration(a) ==
    IF records[a].gen = 0 THEN GenerationFloor + 1
    ELSE IF records[a].seen = Inspect(a) THEN records[a].gen
    ELSE records[a].gen + 1

CaptureOne(a) ==
    records' = [records EXCEPT ![a] = [gen |-> NextGeneration(a), seen |-> Inspect(a)]]

\* A set of source references: the generation cited of each file, 0 if none.
References == [Artifacts -> Nat]

NoRefs == [a \in Artifacts |-> 0]

Files(refs) == {a \in Artifacts : refs[a] # 0}

IsCurrent(refs) ==
    \A a \in Files(refs) :
        /\ records[a].gen = refs[a]
        /\ records[a].seen.status = "present"
        /\ records[a].seen.lineage = lineageId

\* Anyone may write, delete or make unreadable a file at any time.
EditFile(a) ==
    /\ disk[a].stamp < MaxStamp
    /\ \E status \in Statuses :
        /\ ~ (status = "missing" /\ disk[a].status = "missing")
        /\ disk' = [disk EXCEPT ![a] = [status |-> status, stamp |-> @.stamp + 1]]
    /\ UNCHANGED <<records, lineageId>>
====
