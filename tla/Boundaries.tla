---- MODULE Boundaries ----
(***************************************************************************)
(* What an architecture analysis concludes and what the model keeps of it   *)
(* (runtime/architecture/analysis.mjs and evidence.mjs, the interpretations *)
(* of runtime/model/project-model.mjs, commitArchitecture of                *)
(* runtime/pipeline.mjs).                                                   *)
(*                                                                         *)
(* A source file has one canonical module, which the file stands for.  The  *)
(* analysis reads a snapshot and may be long: files change before its       *)
(* answer is committed.  Services may answer anything or fail.  Which files *)
(* and which pairs come first within the limits is left open, and so are    *)
(* the bytes that a run may read; what is reported of the rest is in the    *)
(* controller's module, Architecture.                                       *)
(***************************************************************************)
EXTENDS Naturals, FiniteSets, FiniteSetsExt

CONSTANTS
    Sources,      \* source files
    Imports,      \* pairs of files of which the first may import the second
    MaxTaken,     \* ARCHITECTURE_LIMITS.artifacts
    MaxChecks,    \* ARCHITECTURE_LIMITS.membershipChecks
    Places,       \* limits.interpretations
    Legacy,       \* records of the namespace graphlin.legacy-role at the start
    MaxGeneration, \* bound: generations of a file
    MaxAnalyses   \* bound: analyses

ASSUME BoundaryAssumption == Imports \subseteq Sources \X Sources

VARIABLES
    source,    \* the generation of each file, and whether it is missing, read or parsed
    imported,  \* the parsed relations between current modules
    roles,     \* the boundary kept of each file, with the generation it rests on
    links,     \* the membership kept of each pair, with the generations it rests on
    legacy,    \* records of the earlier namespace, which give way
    job,       \* the answer that waits for its commit
    owed,      \* ghost: pairs that the last answer about them did not get to
    analyses

boundaryVars == <<source, imported, roles, links, legacy, job, owed, analyses>>

Kinds == {"application", "component"}

\* A role that is not known well enough, and an answer that cannot be used.
Answers == Kinds \union {"unknown", "failed"}

NoRole == [kind |-> "none", gen |-> 0]
StaleRole == [kind |-> "stale", gen |-> 0]

NoLink == [support |-> "none", gens |-> <<0, 0>>]
StaleLink == [support |-> "stale", gens |-> <<0, 0>>]

NoJob == [captured |-> <<>>]

Ends(pair) == {pair[1], pair[2]}

BoundaryInit ==
    /\ source = [f \in Sources |-> [gen |-> 1, status |-> "parsed"]]
    /\ imported \in SUBSET Imports
    /\ roles = [f \in Sources |-> NoRole]
    /\ links = [p \in Imports |-> NoLink]
    /\ legacy = Legacy
    /\ job = NoJob /\ owed = {} /\ analyses = 0

-----------------------------------------------------------------------------
(* Files. *)

\* Interpretations that cite f are stale from then on: artifactDependents, and
\* invalidateEntitySupport for those that have its module among their entities.
MakeStale(f) ==
    /\ roles' = [roles EXCEPT ![f] = IF @ = NoRole THEN @ ELSE StaleRole]
    /\ links' = [p \in Imports |-> IF f \in Ends(p) /\ links[p] # NoLink THEN StaleLink ELSE links[p]]

\* invalidateArtifacts with another version of f.
Registers(f, status) ==
    /\ source[f].gen < MaxGeneration
    /\ source' = [source EXCEPT ![f] = [gen |-> @.gen + 1, status |-> status]]
    /\ imported' = {p \in imported : f \notin Ends(p)}
    /\ MakeStale(f)
    /\ UNCHANGED <<legacy, job, owed, analyses>>

\* observeStructure: what f imports and what imports it are resolved.
Parses(f) ==
    /\ source[f].status = "read"
    /\ source' = [source EXCEPT ![f].status = "parsed"]
    /\ \E found \in SUBSET {p \in Imports : f \in Ends(p) /\ \A e \in Ends(p) : source'[e].status = "parsed"} :
          imported' = imported \union found
    /\ UNCHANGED <<roles, links, legacy, job, owed, analyses>>

-----------------------------------------------------------------------------
(* The analysis, on the snapshot it is given. *)

\* currentRefs of the index: the version that is present and parsed.
IsCurrent(f, gen) == source[f] = [gen |-> gen, status |-> "parsed"]

priorRoles == {f \in Sources : roles[f].kind \in Kinds /\ IsCurrent(f, roles[f].gen)}

\* A role that was not confirmed counts as long as its file is unchanged.
MutantKindAfter(f, answer, missing) ==
    IF f \in DOMAIN answer /\ answer[f] \in Kinds THEN answer[f]
    ELSE IF f \in priorRoles \ missing THEN roles[f].kind ELSE "unknown"

\* The kinds of the modules after the answers: a file that was answered has the
\* kind of its answer, and a file that is missing none.
KindAfter(f, answer, missing) ==
    IF f \in DOMAIN answer /\ answer[f] # "failed" THEN answer[f]
    ELSE IF f \in priorRoles \ missing THEN roles[f].kind ELSE "unknown"

\* membershipPairs: an application that imports a component, one of them processed.
membershipPairs(kind, processed) ==
    {p \in imported : /\ kind[p[1]] = "application" /\ kind[p[2]] = "component"
                      /\ Ends(p) \intersect processed # {}}

Gens(p) == <<source[p[1]].gen, source[p[2]].gen>>

\* priorMembership: the pair was assessed in the versions that are current.
priorMembership(p) == links[p].support \in {"supported", "unknown"} /\ links[p].gens = Gens(p)

(***************************************************************************)
(* analyzeArchitecture for a batch: some of its files are taken; those that *)
(* are not parsed are unavailable; the rest are answered or fail.  Pairs    *)
(* that were not assessed before are asked about, at most MaxChecks.        *)
(***************************************************************************)
Analyzes(batch, taken) ==
    LET missing == {f \in taken : source[f].status = "missing"}
        asked == {f \in taken : source[f].status = "parsed"}
    IN  \E answer \in [asked -> Answers] :
        \E processed \in {{f \in asked : answer[f] # "failed"}} :
        \E pairs \in {membershipPairs([f \in Sources |-> KindAfter(f, answer, missing)], processed)} :
        \E kept \in {{p \in pairs : priorMembership(p)}} :
        \E checked \in kSubset(Min({MaxChecks, Cardinality(pairs \ kept)}), pairs \ kept) :
        \E answered \in {checked, {}}, accepted \in SUBSET checked :
            /\ accepted \subseteq answered
            /\ job' = [captured |-> [f \in batch |-> source[f].gen],
                       roles |-> [f \in processed |-> answer[f]],
                       links |-> [p \in kept \union answered |->
                                    IF p \in kept THEN links[p].support
                                    ELSE IF p \in accepted THEN "supported" ELSE "unknown"],
                       guards |-> [f \in processed \union UNION {Ends(p) : p \in kept \union checked} |-> source[f].gen],
                       missing |-> missing,
                       left |-> pairs \ (kept \union answered)]

Analysis ==
    /\ job = NoJob /\ analyses < MaxAnalyses
    /\ \E batch \in SUBSET Sources \ {{}} : \E taken \in SUBSET batch :
          Cardinality(taken) <= MaxTaken /\ Analyzes(batch, taken)
    /\ analyses' = analyses + 1
    /\ UNCHANGED <<source, imported, roles, links, legacy, owed>>

-----------------------------------------------------------------------------
(* The commit. *)

Touched(files) == {p \in Imports : Ends(p) \intersect files # {}}

\* commitArchitecture rereads what was captured and what is cited, and compares.
Unchanged ==
    /\ \A f \in DOMAIN job.captured : source[f].gen = job.captured[f]
    /\ \A f \in DOMAIN job.guards : IsCurrent(f, job.guards[f])
    /\ \A f \in job.missing : source[f].status = "missing"

\* What replaceInterpretations would leave, with the scope it is given.
NewRoles == [f \in Sources |->
    IF f \notin DOMAIN job.roles THEN roles[f]
    ELSE IF job.roles[f] \in Kinds THEN [kind |-> job.roles[f], gen |-> job.guards[f]] ELSE NoRole]

NewLinks == [p \in Imports |->
    IF p \in DOMAIN job.links
    THEN [support |-> job.links[p], gens |-> <<job.guards[p[1]], job.guards[p[2]]>>]
    ELSE IF p \in Touched(DOMAIN job.roles) THEN NoLink ELSE links[p]]

Count(some, more) == Cardinality({f \in Sources : some[f] # NoRole}) + Cardinality({p \in Imports : more[p] # NoLink})

\* The second replacement, which clears what is about files that are missing.
Cleared(some, more) ==
    /\ roles' = [f \in Sources |-> IF f \in job.missing THEN NoRole ELSE some[f]]
    /\ links' = [p \in Imports |-> IF p \in Touched(job.missing) THEN NoLink ELSE more[p]]

\* The whole answer is kept, records of the earlier namespace giving way, or none of it.
CommitAnswer ==
    /\ job # NoJob
    /\ job' = NoJob
    /\ UNCHANGED <<source, imported, analyses>>
    /\ IF ~ Unchanged THEN UNCHANGED <<roles, links, legacy, owed>>
       ELSE LET free == Places - Count(NewRoles, NewLinks)
            IN  IF DOMAIN job.roles = {} \/ Count(NewRoles, NewLinks) > Places
                THEN Cleared(roles, links) /\ UNCHANGED <<legacy, owed>>
                ELSE /\ Cleared(NewRoles, NewLinks)
                     /\ legacy' = Min({legacy, free})
                     /\ owed' = (owed \ Touched(DOMAIN job.roles)) \union job.left

\* The run is aborted, by a file, the checkout or the user: nothing is committed.
Drop == job # NoJob /\ job' = NoJob /\ UNCHANGED <<source, imported, roles, links, legacy, owed, analyses>>

BoundaryNext ==
    \/ \E f \in Sources : Parses(f) \/ \E status \in {"read", "missing"} : Registers(f, status)
    \/ Analysis \/ CommitAnswer \/ Drop

-----------------------------------------------------------------------------
JoinsRoles(p) == roles[p[1]].kind = "application" /\ roles[p[2]].kind = "component"

\* A membership that is kept joins an application and a component that are kept, on
\* the versions that it and they rest on.
LinksJoinRoles ==
    \A p \in Imports : links[p].support \in {"supported", "unknown"} =>
        /\ JoinsRoles(p) /\ links[p].gens = <<roles[p[1]].gen, roles[p[2]].gen>>
        /\ p \in imported /\ links[p].gens = Gens(p)

\* An application that imports a component has been assessed as a pair, or the last
\* answer about one of them did not get to it.
PairsAreSettled ==
    \A p \in imported : JoinsRoles(p) => links[p].support \in {"supported", "unknown"} \/ p \in owed

\* What is kept goes only for a change of its files or an answer that says otherwise.
GoesForCause ==
    /\ \A f \in Sources : roles[f].kind \in Kinds /\ roles'[f] # roles[f] =>
           source'[f] # source[f] \/ (job # NoJob /\ f \in DOMAIN job.roles)
    /\ \A p \in Imports : links[p].support \in {"supported", "unknown"} /\ links'[p] # links[p] =>
           (\E f \in Ends(p) : source'[f] # source[f]) \/ ~ JoinsRoles(p)'

(***************************************************************************)
(* However batches follow one another, whatever fails, and whatever changes *)
(* between an analysis and its commit: memberships join current roles, no   *)
(* pair is forgotten, and nothing that is still true is withdrawn because a *)
(* service failed, a limit was reached or there was no room                 *)
(* (analysis.mjs:292, 303-307, project-model.mjs:628-667).                  *)
(***************************************************************************)
BoundariesHold == [](LinksJoinRoles /\ PairsAreSettled) /\ [][GoesForCause]_boundaryVars
====
