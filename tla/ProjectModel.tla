---- MODULE ProjectModel ----
(***************************************************************************)
(* The facts recorded about a worktree (runtime/model/project-model.mjs)    *)
(* and their comparison with a checkpoint (runtime/model/changes.mjs).      *)
(*                                                                         *)
(* The entities of a file are its summary, Root, and the symbols an         *)
(* enumeration of one of its versions found; a file may import another.     *)
(* A hash stands for what the version declares: symbols and Import.  The    *)
(* inventory is taken as complete, the limits of records other than         *)
(* entities and of bytes as not reached, so that only the number of         *)
(* entities is bounded.  A summary may displace a symbol, which one is left *)
(* open.  A relationship is the resolution of an import, from the summary   *)
(* of the file to the summary of its target; "stale" stands for every way   *)
(* an import or a relationship can have lost its support.                   *)
(***************************************************************************)
EXTENDS EvidenceStore, FiniteSets

CONSTANTS
    Symbols, Root,
    Import,          \* a version of a file imports the target of the file
    Content,         \* what each stamp of a file declares
    Target,          \* the file each file imports, when it imports one
    MaxEntities,     \* limits.entities, without project and directories
    MaxCheckpoints   \* bound: checkpoints made

\* limits.entities exceeds limits.artifacts: a summary displaces symbols only.
ASSUME ModelAssumption ==
    /\ Root \notin Symbols /\ Import \notin Symbols
    /\ Content \in [Artifacts -> [0..MaxStamp -> SUBSET (Symbols \union {Import})]]
    /\ Target \in [Artifacts -> Artifacts]
    /\ IsFiniteSet(Artifacts) /\ IsFiniteSet(Symbols)
    /\ MaxEntities \in Nat /\ MaxEntities >= Cardinality(Artifacts)
    /\ MaxCheckpoints \in Nat

VARIABLES
    artifacts,   \* the version of each file observed last and the last enumeration
    entities,    \* validity of each entity, "none" if it is not held
    imports,     \* validity of the import record of each file
    relations,   \* validity of the relationship it resolved to
    checkpoints  \* baselines: the part of a checkpoint that is about one file

modelVars == <<artifacts, entities, imports, relations, checkpoints>>

Names == Symbols \union {Root}

Ids == Artifacts \X Names

Validities == {"none", "current", "stale", "retracted"}

Hashes == SUBSET (Symbols \union {Import})

Certificates == [gen : Nat, hash : Hashes, complete : BOOLEAN]

NoCertificate == [gen |-> 0, hash |-> {}, complete |-> FALSE]

Records == [gen : Nat, status : Statuses, hash : Hashes, fresh : BOOLEAN, cert : Certificates]

NoRecord == [gen |-> 0, status |-> "missing", hash |-> {}, fresh |-> FALSE, cert |-> NoCertificate]

Baselines == [of : Artifacts, held : SUBSET Names, gone : SUBSET Names,
              cert : Certificates, lineage : AnyLineage]

ModelTypeOK ==
    /\ artifacts \in [Artifacts -> Records]
    /\ entities \in [Ids -> Validities]
    /\ imports \in [Artifacts -> Validities \ {"retracted"}]
    /\ relations \in [Artifacts -> Validities \ {"retracted"}]
    /\ checkpoints \in SUBSET Baselines

ModelInit ==
    /\ artifacts = [a \in Artifacts |-> NoRecord]
    /\ entities = [e \in Ids |-> "none"]
    /\ imports = [a \in Artifacts |-> "none"]
    /\ relations = [a \in Artifacts |-> "none"]
    /\ checkpoints = {}

Held == {e \in Ids : entities[e] # "none"}

IfHeld(validity, new) == IF validity = "none" THEN "none" ELSE new

Aged(validity) == IF validity = "current" THEN "stale" ELSE validity

----
(* Observations of versions. *)

HashOf(a, status, stamp) == IF status = "present" THEN Content[a][stamp] ELSE {}

\* What a capture now observes of a file, and what a checkout change withdraws.
Capture(a) ==
    [gen |-> NextGeneration(a), status |-> disk[a].status,
     hash |-> HashOf(a, disk[a].status, disk[a].stamp)]

Withdrawal(a) ==
    [gen |-> Withdrawn(a).gen, status |-> Withdrawn(a).status,
     hash |-> HashOf(a, records[a].seen.status, records[a].seen.stamp)]

SameVersion(record, seen) == record.gen = seen.gen /\ record.hash = seen.hash

\* Older versions are not news.
Applies(a, seen) ==
    /\ seen.gen >= artifacts[a].gen
    /\ ~ (seen.gen = artifacts[a].gen /\ artifacts[a].hash # {} /\ seen.hash # {}
            /\ seen.hash # artifacts[a].hash)

\* Facts about a file outlive a change of it.
MutantDisturbed(a, seen) == seen.status # "present"

\* Facts that cite a file lose their support unless its version is the one known.
Disturbed(a, seen) == seen.status # "present" \/ ~ SameVersion(artifacts[a], seen)

\* Only a confirmed absence retracts; anything else leaves facts stale.
Freshness(seen) == IF seen.status = "missing" THEN "retracted" ELSE "stale"

Renewed(a, seen) ==
    [gen |-> seen.gen, status |-> seen.status, hash |-> seen.hash,
     fresh |-> seen.status = "present" /\ SameVersion(artifacts[a], seen) /\ artifacts[a].fresh,
     cert |-> artifacts[a].cert]

\* observed is a function from some of the files to their observation.  A
\* relationship goes with either of its ends.
InvalidateArtifacts(observed) ==
    LET news == {a \in DOMAIN observed : Applies(a, observed[a])}
        lost == {a \in news : Disturbed(a, observed[a])}
    IN  /\ artifacts' = [a \in Artifacts |->
                IF a \in news THEN Renewed(a, observed[a]) ELSE artifacts[a]]
        /\ entities' = [e \in Ids |->
                IF e[1] \in lost THEN IfHeld(entities[e], Freshness(observed[e[1]])) ELSE entities[e]]
        /\ imports' = [a \in Artifacts |->
                IF a \in lost THEN Aged(imports[a]) ELSE imports[a]]
        /\ relations' = [a \in Artifacts |->
                IF {a, Target[a]} \cap lost # {} THEN Aged(relations[a]) ELSE relations[a]]

----
(* Enumeration of a version. *)

FreshFile(a) == artifacts[a].status = "present" /\ artifacts[a].fresh

\* A summary takes the place of a symbol when there is none left.
Evictions(a) ==
    IF <<a, Root>> \in Held \/ Cardinality(Held) < MaxEntities THEN {{}}
    ELSE {{e} : e \in {e \in Held : e[2] # Root}}

Omits(all, some) == all # some

\* The parts of found that get a place, when some may not.
Admissions(wanted, kept) ==
    LET free == MaxEntities - Cardinality(kept)
    IN  {s \in SUBSET wanted : Cardinality(s) = IF Cardinality(wanted) <= free THEN Cardinality(wanted)
                                                ELSE free}

\* The certificate of a file that loses an entity is not complete any more.
Decertified(record) == [record EXCEPT !.cert.complete = FALSE]

Enumerated(a, complete) ==
    [artifacts[a] EXCEPT !.fresh = TRUE,
        !.cert = [gen |-> artifacts[a].gen, hash |-> artifacts[a].hash, complete |-> complete]]

\* An import resolves to the summary of its target, while both are current.
Resolves(a, files, facts, import) ==
    /\ import[a] = "current"
    /\ files[a].fresh /\ files[Target[a]].fresh
    /\ files[Target[a]].status = "present"
    /\ facts[<<Target[a], Root>>] = "current"

Wanted(a, found) == {<<a, s>> : s \in found \cap Symbols} \union {<<a, Root>>}

Kept(a, evicted) == (Held \ evicted) \union {<<a, Root>>}

(***************************************************************************)
(* observeStructure of the known version of a file: what was found of it    *)
(* and whether that is all.  A symbol of an earlier version that was not    *)
(* found is retracted only if nothing was left out; then the imports that   *)
(* the change concerns are resolved again.                                  *)
(***************************************************************************)
ObserveStructure(a, found, complete, evicted, admitted) ==
    LET kept == Kept(a, evicted)
        wanted == Wanted(a, found)
        certain == complete /\ ~ Omits(wanted \ kept, admitted)
        scheduled == {c \in Artifacts : Target[c] = a}
                     \union {c \in {a} : Import \in found /\ imports[c] # "current"}
    IN  /\ artifacts' = [c \in Artifacts |->
                IF c = a THEN Enumerated(a, certain)
                ELSE IF \E e \in evicted : e[1] = c THEN Decertified(artifacts[c])
                ELSE artifacts[c]]
        /\ entities' = [e \in Ids |->
                IF e \in wanted /\ e \in kept \union admitted THEN "current"
                ELSE IF e \notin kept THEN "none"
                ELSE IF e[1] # a THEN entities[e]
                ELSE IF certain THEN "retracted" ELSE "stale"]
        /\ imports' = [imports EXCEPT ![a] =
                IF Import \in found THEN "current" ELSE IF certain THEN "none" ELSE Aged(@)]
        /\ relations' = [c \in Artifacts |->
                IF c \in scheduled /\ Resolves(c, artifacts', entities', imports') THEN "current"
                ELSE IF c = a /\ Import \notin found THEN Aged(relations[c])
                ELSE relations[c]]
        /\ UNCHANGED checkpoints

\* deferred.entities grows: something was evicted or not admitted.
Displaces(a, found, evicted, admitted) ==
    evicted # {} \/ Omits(Wanted(a, found) \ Kept(a, evicted), admitted)

----
(* A checkout change, and checkpoints. *)

\* observeLineage, followed by the withdrawal of what is known of every file.
WithdrawAll(lost) ==
    LET Gone(record, a) == [record EXCEPT !.fresh = FALSE, !.cert.complete = FALSE,
                                          !.status = IF a \in lost THEN "unavailable" ELSE @]
    IN  /\ artifacts' = [a \in Artifacts |-> Gone(artifacts[a], a)]
        /\ entities' = [e \in Ids |->
                IF e[1] \in lost THEN IfHeld(entities[e], "stale") ELSE Aged(entities[e])]
        /\ imports' = [a \in Artifacts |-> Aged(imports[a])]
        /\ relations' = [a \in Artifacts |-> Aged(relations[a])]

Baseline(a) ==
    [of |-> a, held |-> {s \in Names : <<a, s>> \in Held},
     gone |-> {s \in Names : entities[<<a, s>>] = "retracted"},
     cert |-> artifacts[a].cert, lineage |-> lineageId]

Checkpoint(a) ==
    /\ Cardinality(checkpoints) < MaxCheckpoints
    /\ checkpoints' = checkpoints \union {Baseline(a)}
    /\ UNCHANGED <<artifacts, entities, imports, relations>>

\* A new entity of a file enumerated completely then and now did not exist then.
PriorAbsence(base) ==
    LET now == artifacts[base.of].cert
    IN  /\ base.cert.complete /\ now.complete
        /\ base.cert.hash # now.hash /\ base.cert.gen < now.gen
        /\ base.lineage = lineageId

Creations(base) ==
    {s \in Names \ base.held : entities[<<base.of, s>>] = "current" /\ PriorAbsence(base)}

Removals(base) ==
    {s \in base.held \ base.gone : entities[<<base.of, s>>] = "retracted"}
====
