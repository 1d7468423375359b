---- MODULE Layout ----
(***************************************************************************)
(* Where the viewer puts the nodes of a diagram (runtime/web/layout.js).    *)
(* Nodes are numbered in the order of their identifiers, the edges are what *)
(* prepare() leaves of them: no loops and no two of a pair.  Which order of *)
(* a row has the fewest crossings is left open.  The circle, which needs    *)
(* angles, is left out.                                                     *)
(***************************************************************************)
EXTENDS Integers, FiniteSets, SequencesExt, FiniteSetsExt

CONSTANTS
    MaxNodes,     \* MAX_NODES
    MaxEdges,     \* MAX_EDGES
    Width, Height, GapX, GapY,  \* size: w, h, gx, gy
    MinGap,       \* 16: the least gap between blocks
    Offsets       \* bound: coordinates that nodes come with

VARIABLES
    diagram,  \* algorithm, number of nodes, edges, kinds and places they come with
    placed    \* the places of the nodes, when they are laid out

layoutVars == <<diagram, placed>>

Nowhere == <<>>

\* What nodes and edges the diagram had before, in one dimension each.
Diagrams ==
    LET pairs == {p \in (1..MaxNodes) \X (1..MaxNodes) : p[1] # p[2]}
        plain == [n \in 1..MaxNodes |-> 1]
        unplaced == [n \in 1..MaxNodes |-> Nowhere]
    IN  [algorithm : {"hierarchy", "dependency"}, edges : UNION {kSubset(k, pairs) : k \in 0..MaxEdges + 1},
         kinds : {plain}, places : {unplaced}]
        \union [algorithm : {"grouped", "grid"}, edges : {{}}, kinds : [1..MaxNodes -> 1..3], places : {unplaced}]
        \union [algorithm : {"original"}, edges : {{}}, kinds : {plain},
                places : [1..MaxNodes -> {Nowhere} \union (Offsets \X Offsets)]]

LayoutInit == diagram \in Diagrams /\ placed = Nowhere

-----------------------------------------------------------------------------
\* prepare(): the first edges, in order.
Prepared ==
    LET edges == SetToSortSeq(diagram.edges, LAMBDA p, q : p[1] < q[1] \/ (p[1] = q[1] /\ p[2] < q[2]))
    IN  ToSet(SubSeq(edges, 1, Min({MaxEdges, Len(edges)})))

\* grid(), of nodes in order.
grid(nodes) ==
    LET items == SetToSortSeq(nodes, <)
        count == Len(items)
        enough == {c \in 1..count : c * c * (Width + GapX) >= count * (Height + GapY)}
        columns == Max({1, Min({count} \union enough)})
        at(i) == <<((i - 1) % columns) * (Width + GapX), ((i - 1) \div columns) * (Height + GapY)>>
        place == [n \in nodes |-> at(CHOOSE i \in DOMAIN items : items[i] = n)]
        rows == (count + columns - 1) \div columns
    IN  [place |-> place,
         width |-> columns * (Width + GapX) - GapX, height |-> rows * (Height + GapY) - GapY]

Shifted(place, x, y) == [n \in DOMAIN place |-> <<x + place[n][1], y + place[n][2]>>]

\* pack(): shelves as wide as the widest block, or as the root of the area.
pack(blocks) ==
    LET gapX == Max({GapX * 2, Width \div 2, MinGap})
        gapY == Max({GapY * 2, Height \div 2, MinGap})
        area == FoldLeft(LAMBDA sum, b : sum + (b.width + gapX) * (b.height + gapY), 0, blocks)
        widest == Max({b.width : b \in ToSet(blocks)})
        Wide(x) == x > widest /\ x * x > area
        Put(shelf, b) ==
            LET wraps == shelf.x > 0 /\ Wide(shelf.x + b.width)
                x == IF wraps THEN 0 ELSE shelf.x
                y == IF wraps THEN shelf.y + shelf.row + gapY ELSE shelf.y
            IN  [x |-> x + b.width + gapX, y |-> y,
                 row |-> IF wraps THEN b.height ELSE Max({shelf.row, b.height}),
                 place |-> Shifted(b.place, x, y) @@ shelf.place]
    IN  FoldLeft(Put, [x |-> 0, y |-> 0, row |-> 0, place |-> Nowhere], blocks).place

grouped ==
    LET kinds == SetToSortSeq({diagram.kinds[n] : n \in 1..MaxNodes}, <)
    IN  pack([i \in DOMAIN kinds |-> grid({n \in 1..MaxNodes : diagram.kinds[n] = kinds[i]})])

\* original(): places that are given stay; the rest take free cells, in order.
original ==
    LET missing == SelectSeq([n \in 1..MaxNodes |-> n], LAMBDA n : diagram.places[n] = Nowhere)
        given == [n \in {n \in 1..MaxNodes : diagram.places[n] # Nowhere} |-> diagram.places[n]]
        columns == Max({1, Min({c \in 1..MaxNodes : c * c >= MaxNodes})})
        cell(slot) == <<(slot % columns) * (Width + GapX), (slot \div columns) * (Height + GapY)>>
        Obstructed(point, place) == \E n \in DOMAIN place :
            /\ point[1] - place[n][1] \in 1 - Width - GapX..Width + GapX - 1
            /\ point[2] - place[n][2] \in 1 - Height - GapY..Height + GapY - 1
        Fill(place, slot) ==
            LET next == {i \in DOMAIN missing : missing[i] \notin DOMAIN place}
            IN  IF next = {} \/ Obstructed(cell(slot), place) THEN place
                ELSE (missing[Min(next)] :> cell(slot)) @@ place
    IN  FoldLeft(Fill, given, [s \in 1..5 * MaxNodes |-> s - 1])

-----------------------------------------------------------------------------
(* Along the edges. *)

\* The search of stronglyConnected() from v; what is above v in the stack is its group
\* when nothing above it reaches below.
RECURSIVE Visit(_, _, _)
Visit(edges, search, v) ==
    LET begun == [search EXCEPT !.index[v] = search.counter, !.low[v] = search.counter,
                                !.counter = @ + 1, !.stack = Append(@, v)]
        Follow(s, w) ==
            IF s.index[w] = 0
            THEN LET after == Visit(edges, s, w) IN [after EXCEPT !.low[v] = Min({@, after.low[w]})]
            ELSE IF w \in ToSet(s.stack) THEN [s EXCEPT !.low[v] = Min({@, s.index[w]})] ELSE s
        ended == FoldLeft(Follow, begun, SetToSortSeq({w \in 1..MaxNodes : <<v, w>> \in edges}, <))
        from == CHOOSE i \in DOMAIN ended.stack : ended.stack[i] = v
    IN  IF ended.low[v] # ended.index[v] THEN ended
        ELSE [ended EXCEPT !.stack = SubSeq(@, 1, from - 1),
                           !.groups = @ \union {ToSet(SubSeq(ended.stack, from, Len(ended.stack)))}]

stronglyConnected(edges) ==
    LET none == [n \in 1..MaxNodes |-> 0]
        search == FoldLeft(LAMBDA s, v : IF s.index[v] = 0 THEN Visit(edges, s, v) ELSE s,
                           [index |-> none, low |-> none, counter |-> 1, stack |-> <<>>, groups |-> {}],
                           [n \in 1..MaxNodes |-> n])
    IN  SetToSortSeq(search.groups, LAMBDA g, h : Min(g) < Min(h))

\* condense(): the edges between groups, which are numbered.
LinksBetween(edges, groups) ==
    LET owner(n) == CHOOSE i \in DOMAIN groups : n \in groups[i]
    IN  {p \in {<<owner(e[1]), owner(e[2])>> : e \in edges} : p[1] # p[2]}

RECURSIVE Reached(_, _)
Reached(links, group) ==
    LET more == group \union {p[1] : p \in {p \in links : p[2] \in group}}
                      \union {p[2] : p \in {p \in links : p[1] \in group}}
    IN  IF more = group THEN group ELSE Reached(links, more)

weakComponents(vertices, links) ==
    SetToSortSeq({Reached(links, {v}) : v \in vertices}, LAMBDA g, h : Min(g) < Min(h))

\* The last of the edges into a vertex gives it its rank.
MutantRanked(links, target, current, rank) == rank[current] + 1

\* The rank of a target when an edge from current is followed.
Ranked(links, target, current, rank) == Max({rank[target], rank[current] + 1})

\* rankedLayers(): vertices without an edge that is left to follow, least first.
RECURSIVE Ranks(_, _, _)
Ranks(links, waiting, rank) ==
    IF waiting = {} THEN rank
    ELSE LET ready == {v \in waiting : \A p \in links : p[2] = v => p[1] \notin waiting}
             current == Min(ready)
         IN  Ranks(links, waiting \ {current},
                   [v \in DOMAIN rank |-> IF <<current, v>> \in links THEN Ranked(links, v, current, rank) ELSE rank[v]])

\* directed(): the blocks of a component, row after row; sizes along and across the flow.
Flow(blocks, links, group, order, horizontal) ==
    LET rank == Ranks(links, group, [v \in group |-> 0])
        ordered == SetToSortSeq(group, LAMBDA v, w : order[v] < order[w])
        rows == [r \in {rank[v] : v \in group} |-> SelectSeq(ordered, LAMBDA v : rank[v] = r)]
        along(v) == IF horizontal THEN blocks[v].width ELSE blocks[v].height
        across(v) == IF horizontal THEN blocks[v].height ELSE blocks[v].width
        gapAlong == IF horizontal THEN GapX ELSE GapY
        gapAcross == IF horizontal THEN GapY ELSE GapX
        breadth(row) == FoldLeft(LAMBDA sum, v : sum + across(v), (Len(row) - 1) * gapAcross, row)
        widest == Max({breadth(rows[r]) : r \in DOMAIN rows})
        depth(r) == Max({along(v) : v \in ToSet(rows[r])})
        start(r) == FoldSet(LAMBDA q, sum : sum + depth(q) + gapAlong, 0, {q \in DOMAIN rows : q < r})
        PutIn(r, line, v) ==
            LET offset == start(r) + (depth(r) - along(v)) \div 2
            IN  [cross |-> line.cross + across(v) + gapAcross,
                 place |-> Shifted(blocks[v].place, IF horizontal THEN offset ELSE line.cross,
                                   IF horizontal THEN line.cross ELSE offset) @@ line.place]
        Row(r) == FoldLeft(LAMBDA line, v : PutIn(r, line, v),
                           [cross |-> (widest - breadth(rows[r])) \div 2, place |-> Nowhere], rows[r]).place
        length == start(Cardinality(DOMAIN rows)) - gapAlong
    IN  [place |-> FoldSet(LAMBDA r, place : Row(r) @@ place, Nowhere, DOMAIN rows),
         width |-> IF horizontal THEN length ELSE widest, height |-> IF horizontal THEN widest ELSE length]

\* The groups of a diagram, the edges between them, and its separate parts.
Condensed ==
    LET edges == Prepared
        groups == stronglyConnected(edges)
        links == LinksBetween(edges, groups)
    IN  [blocks |-> [i \in DOMAIN groups |-> grid(groups[i])], links |-> links,
         parts |-> weakComponents(DOMAIN groups, links)]

Orders(count) == {order \in [1..count -> 1..count] : \A v, w \in 1..count : order[v] = order[w] => v = w}

directed(horizontal) ==
    \E c \in {Condensed} : \E order \in Orders(Len(c.blocks)) :
        placed' = pack([i \in DOMAIN c.parts |-> Flow(c.blocks, c.links, c.parts[i], order, horizontal)])

layoutGraph ==
    /\ placed = Nowhere
    /\ CASE diagram.algorithm = "grid" -> placed' = grid(1..MaxNodes).place
         [] diagram.algorithm = "original" -> placed' = original
         [] diagram.algorithm = "grouped" -> placed' = grouped
         [] OTHER -> directed(diagram.algorithm = "dependency")
    /\ UNCHANGED diagram

-----------------------------------------------------------------------------
Apart(n, m) ==
    \/ placed[n][1] >= placed[m][1] + Width \/ placed[m][1] >= placed[n][1] + Width
    \/ placed[n][2] >= placed[m][2] + Height \/ placed[m][2] >= placed[n][2] + Height

RECURSIVE Reaches(_, _, _)
Reaches(edges, from, to) ==
    LET more == from \union {e[2] : e \in {e \in edges : e[1] \in from}}
    IN  to \in from \/ (more # from /\ Reaches(edges, more, to))

\* The target of an edge begins after its source ends, unless they reach one another.
FollowsEdges ==
    LET edges == Prepared
        axis == IF diagram.algorithm = "dependency" THEN 1 ELSE 2
        extent == IF axis = 1 THEN Width ELSE Height
    IN  \A e \in edges : placed[e[2]][axis] >= placed[e[1]][axis] + extent \/ Reaches(edges, {e[2]}, e[1])

(***************************************************************************)
(* Every node has a place, and no two nodes share one, in whatever order    *)
(* rows are drawn; a diagram flows along its edges, except within a cycle;  *)
(* and coordinates that were given are kept, where they overlap as well     *)
(* (layout.js:128-138, 142-161, 199-213, 310-319).                          *)
(***************************************************************************)
LayoutIsSound ==
    placed # Nowhere =>
        /\ DOMAIN placed = 1..MaxNodes
        /\ \A n \in 1..MaxNodes : \A m \in 1..n - 1 :
               Apart(n, m) \/ (diagram.places[n] # Nowhere /\ diagram.places[m] # Nowhere)
        /\ \A n \in 1..MaxNodes : diagram.places[n] # Nowhere => placed[n] = diagram.places[n]
        /\ FollowsEdges
====
