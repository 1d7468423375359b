---- MODULE ModelOrder ----
(***************************************************************************)
(* The order in which the model API gives out the entities of a model       *)
(* (runtime/daemon/model-api.mjs): parents first, then what carries an       *)
(* accepted architecture, then what the latest calls are about.  A bounded  *)
(* answer is a prefix of that order, and a tree can be drawn from a prefix  *)
(* only if no child is in it without its parent.                            *)
(*                                                                          *)
(* An entity is its place in the order of identifiers; activity is one      *)
(* record for each call, the newest last.                                   *)
(***************************************************************************)
EXTENDS Naturals, FiniteSets, SequencesExt

CONSTANTS
    Size,         \* bound: entities of the model
    Rows,         \* bound: records of activity
    LatestCalls,  \* 16: calls that are brought forward
    MaxAnchors    \* 192: entities brought forward for them

VARIABLES
    parent,     \* parentId: 0 if there is none; Size + 1 is not in the model
    members,    \* entityIds of the interpretations that are accepted and supported
    withdrawn,  \* entities that are not current
    touched,    \* the entities that each record of activity names
    scope,      \* the entity whose subtree was asked for, 0 for all
    answer      \* the entities given out, or what the request failed with

orderVars == <<parent, members, withdrawn, touched, scope, answer>>

Entities == 1..Size

Unanswered == <<0>>

Root(e) == parent[e] \notin Entities

\* Whether a is e or above it, by way of entities in among.
RECURSIVE Above(_, _)
Above(among, e) ==
    IF e \notin among THEN {} ELSE {e} \union Above(among \ {e}, parent[e])

-----------------------------------------------------------------------------
Children(e) == SetToSortSeq({child \in Entities : parent[child] = e}, <)

\* The queue of containmentOrder: whoever it reaches appends its children.
containmentOrder ==
    FoldLeft(LAMBDA queue, i : IF i > Len(queue) THEN queue ELSE queue \o Children(queue[i]),
             SetToSortSeq({e \in Entities : Root(e)}, <), [i \in Entities |-> i])

\* The subtree of the scope and what is above it.
Scoped(top, ordered) ==
    IF top = 0 THEN ordered
    ELSE SelectSeq(ordered, LAMBDA e : top \in Above(Entities, e) \/ e \in Above(Entities, top))

Promote(first, ordered) ==
    SelectSeq(ordered, LAMBDA e : e \in first) \o SelectSeq(ordered, LAMBDA e : e \notin first)

\* Only the members are brought forward, not what they are in.
MutantPrioritizeArchitecture(ordered) ==
    LET here == ToSet(ordered)
    IN  Promote(UNION {m \in members : m \subseteq here \ withdrawn}, ordered)

\* prioritizeArchitecture: an interpretation counts when all its members are current.
prioritizeArchitecture(ordered) ==
    LET here == ToSet(ordered)
        of == {m \in members : m \subseteq here \ withdrawn}
    IN  Promote(UNION {Above(here, e) : e \in UNION of}, ordered)

\* The entities one record adds to the anchors: whole chains, as many as fit.
RECURSIVE Anchored(_, _, _)
Anchored(here, anchors, ids) ==
    IF ids = {} THEN anchors
    ELSE LET e == CHOOSE least \in ids : \A other \in ids : least <= other
             chain == Above(here \ anchors, e)
         IN  Anchored(here, IF Cardinality(anchors) + Cardinality(chain) <= MaxAnchors
                            THEN anchors \union chain ELSE anchors, ids \ {e})

\* prioritizeActivity: the latest calls that name an entity given out, newest first.
prioritizeActivity(ordered) ==
    LET here == ToSet(ordered)
        about == SelectSeq([i \in DOMAIN touched |-> touched[Len(touched) + 1 - i]],
                           LAMBDA ids : ids \intersect here # {})
        latest == SubSeq(about, 1, IF Len(about) < LatestCalls THEN Len(about) ELSE LatestCalls)
    IN  Promote(FoldLeft(LAMBDA anchors, ids : Anchored(here, anchors, ids), {}, latest), ordered)

\* read: a cycle of parents leaves entities out of the order.
Ordered(top) ==
    LET ordered == containmentOrder
    IN  IF Len(ordered) # Size THEN <<>>
        ELSE prioritizeActivity(prioritizeArchitecture(Scoped(top, ordered)))

-----------------------------------------------------------------------------
OrderInit ==
    /\ parent \in [Entities -> 0..(Size + 1)]
    /\ members \in {{m} : m \in SUBSET Entities \ {{}}}
    /\ withdrawn \in {{}, {1}}
    /\ touched \in [1..Rows -> {{}} \union {{e} : e \in Entities}]
    /\ scope = 0
    /\ answer = Unanswered

Give ==
    /\ answer = Unanswered
    /\ \E top \in {0} \union Entities : scope' = top /\ answer' = Ordered(top)
    /\ UNCHANGED <<parent, members, withdrawn, touched>>

OrderNext == Give

OrderTypeOK ==
    /\ parent \in [Entities -> 0..(Size + 1)]
    /\ members \subseteq SUBSET Entities /\ withdrawn \subseteq Entities
    /\ touched \in [1..Rows -> SUBSET Entities]
    /\ scope \in {0} \union Entities
    /\ answer \in {Unanswered} \union Seq(Entities)

\* What is given out is every entity once, or the whole of the scope and what is above it,
\* and nowhere does a child come before its parent, whatever is brought forward: so a page,
\* which is a prefix, never holds a child and lacks its parent. Nothing is given out of a
\* model whose parents form a cycle.
Cyclic == \E e \in Entities : \A a \in Above(Entities, e) : ~Root(a)

PrefixesAreTrees ==
    answer # Unanswered =>
        /\ (answer = <<>>) = Cyclic
        /\ ~Cyclic => ToSet(answer) =
               {e \in Entities : scope = 0 \/ scope \in Above(Entities, e) \/ e \in Above(Entities, scope)}
        /\ IsInjective(answer)
        /\ \A i, j \in DOMAIN answer : answer[i] = parent[answer[j]] => i < j
====
