---- MODULE ChangeHistory ----
(***************************************************************************)
(* The list of changes beside the diagram (runtime/web/sidebar.js).  The    *)
(* list is kept between snapshots: frames that seem unchanged are not read  *)
(* again, comparisons and cards are reused, and an update that seems to     *)
(* change nothing is not drawn.  Frames of a revision are immutable, except *)
(* that the service may hide or show labels, in all of them at once, and    *)
(* that it may lose what it did not save and count from there.              *)
(*                                                                         *)
(* An item stands for a component or a connection, and its value for all    *)
(* that is kept of it but the label.  The labels a connection takes over    *)
(* from its ends, the number of sessions that are kept, and the receipts of *)
(* hooks are left out.  A comparison is the same as long as its two graphs  *)
(* are, so it is made again here.                                           *)
(***************************************************************************)
EXTENDS Integers, FiniteSets, SequencesExt

CONSTANTS
    ListedSessions,  \* the sessions a viewer may select
    Size,         \* bound: items
    MaxTiles,     \* LIMITS.tiles
    MaxCards,     \* LIMITS.cards
    MaxFrames,    \* LIMITS.frames
    MaxClock,     \* bound: revisions that are made
    MaxEvents     \* bound: everything else that happens to the service

VARIABLES
    service,    \* of each session: revision, graph and history
    hidden,     \* the items whose labels the service hides
    chosen,   \* the session that snapshots are of
    clock, events,
    histories,  \* histories: what is kept of each session
    identity,   \* the session that is shown
    offered,    \* currentItems and availableRevisions, as the buttons last used them
    arrived,    \* ghost: the revisions that came with the last update
    drawn       \* whether nothing happened since the last update

serviceVars == <<service, hidden, chosen, clock, events>>
listVars == <<histories, identity, offered, arrived, drawn>>
historyVars == <<serviceVars, listVars>>

Items == 1..Size

Absent == 0

Blank == [i \in Items |-> Absent]

Drawings == {drawing \in [Items -> 0..2] : drawing[Size] # 2}

\* Gone from the service, or never there.
Unlisted == [revision |-> 0, graph |-> Blank, history |-> <<>>, here |-> FALSE]

NoCache == [last |-> -1, frames |-> <<>>, visible |-> <<>>, current |-> Blank]

HistoryInit ==
    /\ service = [s \in ListedSessions |-> Unlisted]
    /\ hidden = {} /\ chosen \in ListedSessions
    /\ clock = 0 /\ events = 0
    /\ histories = [s \in ListedSessions |-> NoCache]
    /\ identity = {} /\ offered = [items |-> {}, revisions |-> {}]
    /\ arrived = {} /\ drawn = FALSE

-----------------------------------------------------------------------------
(* The service. *)

Happens == events < MaxEvents /\ events' = events + 1 /\ drawn' = FALSE
           /\ UNCHANGED <<histories, identity, offered, arrived>>

Revises ==
    /\ clock < MaxClock /\ clock' = clock + 1 /\ drawn' = FALSE
    /\ \E new \in Drawings \ {service[chosen].graph} :
          service' = [service EXCEPT ![chosen] =
              [revision |-> @.revision + 1, graph |-> new, here |-> TRUE,
               history |-> Append(@.history, [revision |-> @.revision + 1, graph |-> new, at |-> clock + 1])]]
    /\ UNCHANGED <<hidden, chosen, events, histories, identity, offered, arrived>>

\* Another policy applies.
Reprojects ==
    /\ Happens
    /\ \E i \in Items : hidden' = IF i \in hidden THEN hidden \ {i} ELSE hidden \union {i}
    /\ UNCHANGED <<service, chosen, clock>>

\* The oldest frame is dropped for room.
Trims(s) ==
    /\ Happens
    /\ service[s].history # <<>>
    /\ service' = [service EXCEPT ![s].history = Tail(@)]
    /\ UNCHANGED <<hidden, chosen, clock>>

\* The last revision was not saved.
Loses(s) ==
    /\ Happens
    /\ Len(service[s].history) > 1
    /\ service' = [service EXCEPT ![s] =
           LET kept == Front(@.history) IN
           [@ EXCEPT !.history = kept, !.revision = Last(kept).revision, !.graph = Last(kept).graph]]
    /\ UNCHANGED <<hidden, chosen, clock>>

\* Sessions that are not selected may be evicted, and begin anew.
Evicts(s) ==
    /\ Happens
    /\ s # chosen /\ service[s].here
    /\ service' = [service EXCEPT ![s] = Unlisted]
    /\ UNCHANGED <<hidden, chosen, clock>>

Selects(s) ==
    /\ Happens
    /\ s # chosen /\ chosen' = s
    /\ UNCHANGED <<service, hidden, clock>>

-----------------------------------------------------------------------------
(* The list. *)

\* A label that is hidden makes another item of it.
Projected(drawing) ==
    [i \in Items |-> IF drawing[i] # Absent /\ i \in hidden THEN drawing[i] + 2 ELSE drawing[i]]

Held(drawing) == {i \in Items : drawing[i] # Absent}

\* The last ones, up to a bound.
Latest(seq, bound) == SubSeq(seq, IF Len(seq) > bound THEN Len(seq) - bound + 1 ELSE 1, Len(seq))

\* The frames of a snapshot; the current one need not be in the history.
Provided ==
    LET now == service[chosen]
        ofHistory == {f \in ToSet(Latest(now.history, MaxFrames)) : f.revision <= now.revision}
        at(n) == {f \in ofHistory : f.revision = n}
    IN  [n \in {f.revision : f \in ofHistory} \union {now.revision} |->
            [at |-> IF at(n) = {} THEN 0 ELSE (CHOOSE f \in at(n) : TRUE).at,
             graph |-> Projected(IF n = now.revision THEN now.graph ELSE (CHOOSE f \in at(n) : TRUE).graph)]]

\* What is kept of a frame is what has come.
sameItem(cached, incoming, i) == cached[i] = incoming[i]

sameGraph(cached, incoming) == \A i \in Items : sameItem(cached, incoming, i)

frameStamp(frame) == <<frame.at, Cardinality(Held(frame.graph))>>

\* differences(): what is added or changed, in order, and then what is removed.
differences(before, after) ==
    LET order == [i \in Items |-> i]
        came == SelectSeq(order, LAMBDA i : after[i] # Absent /\ before[i] # after[i])
        went == SelectSeq(order, LAMBDA i : after[i] = Absent /\ before[i] # Absent)
    IN  [k \in DOMAIN came |->
            [change |-> IF before[came[k]] = Absent THEN "added" ELSE "changed",
             item |-> came[k], value |-> after[came[k]]]]
        \o [k \in DOMAIN went |-> [change |-> "removed", item |-> went[k], value |-> before[went[k]]]]

Tiles(changes) == SubSeq(changes, 1, IF Len(changes) < MaxTiles THEN Len(changes) ELSE MaxTiles)

Numbers(frames) == SetToSortSeq(DOMAIN frames, <)

\* The cards of the frames, oldest first; a baseline has no changes.
Entries(frames) ==
    LET numbers == Numbers(frames)
        entry(k) == [revision |-> numbers[k], before |-> IF k = 1 THEN -1 ELSE numbers[k - 1],
                     changes |-> IF k = 1 THEN <<>>
                                 ELSE differences(frames[numbers[k - 1]].graph, frames[numbers[k]].graph)]
        drawable(k) == IF k = 1 THEN Held(frames[numbers[1]].graph) # {} ELSE entry(k).changes # <<>>
    IN  SelectSeq([k \in DOMAIN numbers |-> IF drawable(k) THEN entry(k) ELSE [revision |-> -1]],
                  LAMBDA e : e.revision # -1)

\* Only the frame that is current tells whether labels were hidden.
MutantMoved(cache, provided) == {}

\* The frames of which a tile shows something else than the snapshot has now.
Moved(cache, provided) ==
    {n \in DOMAIN cache.frames \intersect DOMAIN provided :
        \E k \in DOMAIN cache.visible : LET entry == cache.visible[k] IN
        \E t \in DOMAIN Tiles(entry.changes) : LET change == entry.changes[t] IN
            /\ n = (IF change.change = "removed" THEN entry.before ELSE entry.revision)
            /\ ~ sameItem(cache.frames[n].graph, provided[n].graph, change.item)}

\* The frames before one that is new.
Preceding(provided, retained) ==
    {m \in DOMAIN provided : \E n \in DOMAIN provided \ retained :
        m < n /\ ~ \E between \in DOMAIN provided : m < between /\ between < n}

\* The frames that are compared with what is kept of them.
Checked(cache, provided, now, switched) ==
    LET retained == DOMAIN cache.frames
        suspect == {now} \union {n \in DOMAIN provided :
            IF switched \/ n \notin retained THEN TRUE ELSE cache.frames[n].stamp # frameStamp(provided[n])}
        moved == Moved(cache, provided) \ suspect
        projectionChanged == moved # {} \/ (IF now \in retained THEN ~ sameGraph(cache.frames[now].graph, provided[now].graph) ELSE FALSE)
    IN  (IF projectionChanged THEN DOMAIN provided ELSE suspect) \union Preceding(provided, retained)

\* What is kept of the frames then.
Renewed(cache, provided, checked) ==
    [n \in DOMAIN cache.frames \union DOMAIN provided |->
        IF n \notin DOMAIN provided THEN cache.frames[n]
        ELSE LET retained == n \in DOMAIN cache.frames
             IN  [at |-> IF provided[n].at # 0 \/ ~ retained THEN provided[n].at ELSE cache.frames[n].at,
                  graph |-> IF ~ retained \/ n \in checked THEN provided[n].graph ELSE cache.frames[n].graph,
                  stamp |-> frameStamp(provided[n])]]

\* What the buttons of the cards lead to: refreshAction() disables the others.
Offered(graph, provided) == [items |-> Held(graph), revisions |-> DOMAIN provided]

\* history(), for the snapshot of the selected session.
Update == \E provided \in {Provided} :
    LET now == service[chosen].revision
        kept == IF service[chosen].here THEN histories[chosen] ELSE NoCache
        reset == kept.last > now
        cache == IF reset THEN NoCache ELSE kept
        switched == identity # {chosen} \/ cache = NoCache
        retained == DOMAIN cache.frames
    IN \E frames \in {Renewed(cache, provided, Checked(cache, provided, now, switched))} :
    LET changed == {n \in DOMAIN provided :
            IF n \in retained THEN frames[n].graph # cache.frames[n].graph \/ frames[n].at # cache.frames[n].at ELSE TRUE}
        nothing == ~ switched /\ changed = {} /\ DOMAIN provided = offered.revisions
                   /\ frames[now].graph = cache.current
        remaining == IF nothing THEN frames ELSE [n \in ToSet(Latest(Numbers(frames), MaxFrames)) |-> frames[n]]
    IN  /\ histories' = [s \in ListedSessions |->
               IF s = chosen
               THEN [last |-> now, frames |-> remaining, current |-> frames[now].graph,
                     visible |-> IF nothing THEN cache.visible ELSE Latest(Entries(remaining), MaxCards)]
               ELSE IF service[s].here THEN histories[s] ELSE NoCache]
        /\ identity' = {chosen}
        /\ offered' = IF nothing THEN offered ELSE Offered(frames[now].graph, provided)
        /\ arrived' = DOMAIN provided \ retained
        /\ drawn' = TRUE
        /\ UNCHANGED serviceVars

HistoryNext ==
    \/ Revises \/ Reprojects \/ Update
    \/ \E s \in ListedSessions : Trims(s) \/ Loses(s) \/ Evicts(s) \/ Selects(s)

-----------------------------------------------------------------------------
Of(changes, kind) == {changes[k].item : k \in {k \in DOMAIN changes : changes[k].change = kind}}

\* The cards between two frames that the snapshot has both.
Comparable(provided) ==
    {card \in ToSet(histories[chosen].visible) : {card.before, card.revision} \subseteq DOMAIN provided}

\* A card has the additions and removals there were, every change there was, and, when its
\* revision has just arrived, nothing else.
IsTrue(card, provided) ==
    LET real == differences(provided[card.before].graph, provided[card.revision].graph)
    IN  /\ \A kind \in {"added", "removed"} : Of(card.changes, kind) = Of(real, kind)
        /\ Of(real, "changed") \subseteq Of(card.changes, "changed")
        /\ card.revision \in arrived => card.changes = real

\* What a tile shows of an item is what may be shown of it now.
ShowsCurrent(card, provided) ==
    \A k \in DOMAIN Tiles(card.changes) :
        LET change == card.changes[k]
            frame == provided[IF change.change = "removed" THEN card.before ELSE card.revision]
        IN  change.value = frame.graph[change.item]

CardsAreTrue ==
    drawn => \E provided \in {Provided} :
        \A card \in Comparable(provided) : IsTrue(card, provided) /\ ShowsCurrent(card, provided)

\* The buttons offer what there is: items of the diagram, and revisions that can be replayed.
ButtonsWork ==
    drawn => /\ offered.items = Held(service[chosen].graph)
             /\ offered.revisions = DOMAIN Provided

(***************************************************************************)
(* After every update, although most of the list is kept from earlier ones: *)
(* no card tells of an addition or a removal that there was not, a label    *)
(* that was hidden is on no tile any more, and no button leads nowhere      *)
(* (sidebar.js:358-397, 418-430).                                           *)
(***************************************************************************)
ChangesAreTrue == CardsAreTrue /\ ButtonsWork
====
