---- MODULE ClaimGraph ----
(***************************************************************************)
(* The live diagram of a session, as the compiler and the invalidator of    *)
(* runtime/core/graph.mjs read and rewrite it.                              *)
(*                                                                         *)
(* A claim is a drawn node, which cites one file, or a drawn relationship   *)
(* between the nodes of two files, which cites both; its identity is the    *)
(* set of files it is about. The data of a claim is what decides its        *)
(* validity: the version it cites of each file, and whether it is current.  *)
(* Labels, roles, probabilities and coordinates are abstracted; capacity    *)
(* rejections are one of the reasons an answer may leave a claim out.       *)
(***************************************************************************)
EXTENDS EvidenceStore, FiniteSets

NodeIds == {{a} : a \in Artifacts}

EdgeIds == {{a, b} : a, b \in Artifacts} \ NodeIds

ClaimIds == NodeIds \union EdgeIds

Claims == [refs : References, current : BOOLEAN]

NoClaim == [refs |-> NoRefs, current |-> FALSE]

Graphs == [ClaimIds -> Claims]

EmptyGraph == [c \in ClaimIds |-> NoClaim]

Drawn(graph) == {c \in ClaimIds : graph[c].refs # NoRefs}

\* The files the drawn claims cite.
Supported(graph) == UNION {Files(graph[c].refs) : c \in ClaimIds}

(***************************************************************************)
(* invalidateArtifacts: an observation at least as new as the version a     *)
(* claim cites, that is not that version, makes the claim stale; a          *)
(* confirmed absence also takes the citation away, and a claim that cites   *)
(* nothing is removed with the relationships that end in it.                *)
(***************************************************************************)
Disturbs(refs, a, obs) ==
    /\ refs[a] # 0
    /\ obs[a].gen >= refs[a]
    /\ obs[a].status # "present" \/ obs[a].gen # refs[a]

Retracts(refs, a, obs) ==
    /\ Disturbs(refs, a, obs)
    /\ obs[a].status = "missing"

InvalidClaim(claim, observed, obs) ==
    LET kept == [a \in Artifacts |->
                    IF a \in observed /\ Retracts(claim.refs, a, obs) THEN 0 ELSE claim.refs[a]]
    IN  IF \E a \in observed : Disturbs(claim.refs, a, obs)
        THEN [refs |-> kept, current |-> FALSE]
        ELSE claim

Invalidate(graph, observed, obs) ==
    LET claim == [c \in ClaimIds |-> InvalidClaim(graph[c], observed, obs)]
        Removed(n) == n \in Drawn(graph) /\ claim[n].refs = NoRefs
    IN  [c \in ClaimIds |->
            IF \E a \in c : Removed({a}) THEN NoClaim ELSE claim[c]]

(***************************************************************************)
(* compileDecision: the claims of an answer that cite the candidates refs.  *)
(* A claim that holds a newer version, or is stale at the very version      *)
(* offered, is skipped ("stale_generation"); a relationship needs both of   *)
(* its ends admitted by the same answer.                                    *)
(***************************************************************************)
Blocked(graph, c, refs) ==
    \E a \in c :
        /\ graph[c].refs[a] # 0
        /\ \/ graph[c].refs[a] > refs[a]
           \/ ~ graph[c].current /\ graph[c].refs[a] = refs[a]

AnswerableClaims(refs) == {c \in ClaimIds : c \subseteq Files(refs)}

Admitted(graph, refs, answer) ==
    LET open == {c \in answer : ~ Blocked(graph, c, refs)}
    IN  {c \in open : \A a \in c : {a} \in open}

Compile(graph, refs, answer) ==
    [c \in ClaimIds |->
        IF c \in Admitted(graph, refs, answer)
        THEN [refs |-> [a \in Artifacts |-> IF a \in c THEN refs[a] ELSE 0], current |-> TRUE]
        ELSE graph[c]]
====
