---- MODULE ModelAccess ----
(***************************************************************************)
(* Who may read the model, and what a reader gets (model-api.mjs): grants   *)
(* that expire or are revoked, streams, and reads that go from page to page *)
(* by a cursor.                                                             *)
(*                                                                          *)
(* The model is what it holds of every kind; the policy may hide a record   *)
(* without a new revision. A request is answered in one turn of the event   *)
(* loop, but time may pass in it, here before the answer; one that makes a  *)
(* grant waits for its body first. A record stands in the order of its      *)
(* number (that of entities is in ModelOrder). Bytes, selections and the    *)
(* epoch are left out; the server is one process (ModelStream has several). *)
(***************************************************************************)
EXTENDS Naturals, FiniteSets, SequencesExt

CONSTANTS
    Holders,      \* those who may be granted a read, once each
    Fields,       \* the kinds each of them is granted
    Viewer,       \* the viewer, who needs no grant
    Items,        \* for every kind, the number of its records
    MaxGrants,    \* MAX_GRANTS
    MaxStreams,   \* MAX_STREAMS
    GrantTtl, CursorTtl,
    Pages,        \* the limits that requests state
    MaxTime,      \* bound: the clock
    MaxChanges    \* bound: changes of the model or the policy, and notifications

VARIABLES
    clock,
    model,      \* its revision, the records it holds and those the policy hides
    grants,     \* how far each grant is and when it expires
    clients,    \* the open streams: to whom, and the position sent last
    sequence, flushing,
    closed,
    read        \* the read one of them is at: what it was given since offset 0

accessVars == <<clock, model, grants, clients, sequence, flushing, closed, read>>

Kinds == DOMAIN Items

Readers == Holders \union {Viewer}

Records == UNION {{kind} \X (1..Items[kind]) : kind \in Kinds}

ASSUME AccessAssumption ==
    /\ Viewer \notin Holders
    /\ IsFiniteSet(Holders) /\ IsFiniteSet(Records)
    /\ {MaxGrants, MaxStreams, GrantTtl, CursorTtl, MaxTime, MaxChanges} \subseteq Nat
    /\ Pages \subseteq Nat

\* The server keeps nothing of a read: what matters for the next page is in the cursor.
Reads == [by : Readers, kind : Kinds, given : Seq(Nat), seal : SUBSET Records,
          revision : 0..MaxChanges, until : 0..(MaxTime + CursorTtl), done : BOOLEAN]

NoRead == [by |-> Viewer, kind |-> 1, given |-> <<>>, seal |-> {}, revision |-> 0, until |-> 0, done |-> TRUE]

AccessTypeOK ==
    /\ clock \in 0..MaxTime
    /\ model \in [revision : 0..MaxChanges, held : SUBSET Records, hidden : SUBSET Records]
    /\ grants \in [Holders -> [state : {"none", "asked", "live", "gone"}, expires : 0..(MaxTime + GrantTtl)]]
    /\ \A c \in clients : c.to \in Readers /\ c.position \in 0..sequence
    /\ sequence \in 1..(MaxChanges + 1) /\ {flushing, closed} \subseteq BOOLEAN
    /\ read \in Reads

AccessInit ==
    /\ clock = 0
    /\ model = [revision |-> 0, held |-> Records, hidden |-> {}]
    /\ grants = [h \in Holders |-> [state |-> "none", expires |-> 0]]
    /\ clients = {} /\ sequence = 1 /\ flushing = FALSE /\ closed = FALSE
    /\ read = NoRead

-----------------------------------------------------------------------------
\* What a reader is shown of the model; its digest is the fingerprint.
Granted(reader) == IF reader = Viewer THEN Kinds ELSE Fields[reader]

Disclosed(reader) == {record \in model.held \ model.hidden : record[1] \in Granted(reader)}

\* The records of a kind in their order: the i-th is the one that i - 1 others precede.
Listed(seal, kind) ==
    LET rows == {r \in seal : r[1] = kind}
        place(r) == Cardinality({other \in rows : other[2] < r[2]}) + 1
    IN  [i \in 1..Cardinality(rows) |-> (CHOOSE r \in rows : place(r) = i)[2]]

\* Round and kind of a record that a snapshot has room for: one of each kind in turn.
Rank(seal, kind, i) ==
    Cardinality({pair \in Kinds \X (1..i) : /\ pair[2] <= Len(Listed(seal, pair[1]))
                                            /\ pair[2] < i \/ pair[1] <= kind})

snapshotCount(seal, kind, limit) ==
    Cardinality({i \in 1..Len(Listed(seal, kind)) : Rank(seal, kind, i) <= limit})

Live == {h \in Holders : grants[h].state = "live"}

\* removeGrant ends the streams of the grant.
Removed(gone) ==
    [h \in Holders |-> IF h \in gone THEN [grants[h] EXCEPT !.state = "gone"] ELSE grants[h]]

Staying(gone) == {c \in clients : c.to \notin gone}

removeGrants(gone) == grants' = Removed(gone) /\ clients' = Staying(gone)

Expired(now) == {h \in Live : grants[h].expires <= now}

\* sweep, at the latest at the time an answer is given.
sweep(now) == removeGrants(Expired(now))

\* The expiry is looked at before the read only.
MutantMayRead(reader, now) == reader = Viewer \/ (reader \in Live /\ grants[reader].expires > clock)

\* The grants that principalFor finds, and that contextFor finds unexpired when it has read.
MayRead(reader, now) == reader = Viewer \/ (reader \in Live /\ grants[reader].expires > now)

\* The clock may advance while a request is answered.
Later == clock..(IF clock < MaxTime THEN clock + 1 ELSE clock)
-----------------------------------------------------------------------------
Tick ==
    /\ clock < MaxTime
    /\ clock' = clock + 1
    /\ UNCHANGED <<model, grants, clients, sequence, flushing, closed, read>>

Answered(reader, kind, given) ==
    LET seal == Disclosed(reader)
    IN  read' = [by |-> reader, kind |-> kind, given |-> given, seal |-> seal,
                 revision |-> model.revision, until |-> clock' + CursorTtl,
                 done |-> Len(given) = Len(Listed(seal, kind))]

\* The first page of a kind.
Page(reader, kind, limit) ==
    LET rows == Listed(Disclosed(reader), kind)
    IN  /\ kind \in Granted(reader)
        /\ Answered(reader, kind, SubSeq(rows, 1, Min({limit, Len(rows)})))

\* offsetFor refuses a cursor whose model is not the one just read, or that is too old.
offsetFor(reader) ==
    /\ read.by = reader /\ ~read.done
    /\ read.revision = model.revision /\ read.seal = Disclosed(reader)
    /\ read.until > clock'

\* The page the cursor of the last one points to.
NextPage(reader, limit) ==
    LET rows == Listed(Disclosed(reader), read.kind)
        offset == Len(read.given)
    IN  /\ offsetFor(reader) /\ offset <= Len(rows)
        /\ Answered(reader, read.kind,
               read.given \o SubSeq(rows, offset + 1, Min({offset + limit, Len(rows)})))

\* A snapshot is the first page of every kind; its reader goes on with one of them.
Snapshot(reader, kind, limit) ==
    LET seal == Disclosed(reader)
    IN  Answered(reader, kind, SubSeq(Listed(seal, kind), 1, snapshotCount(seal, kind, limit)))

\* handle, for a GET: refused, with no trace but the sweep, unless the reader may read.
Get(reader) ==
    /\ ~closed
    /\ clock' \in Later
    /\ sweep(clock')
    /\ MayRead(reader, clock')
    /\ \E limit \in Pages :
          \/ NextPage(reader, limit)
          \/ \E kind \in Kinds : Page(reader, kind, limit) \/ Snapshot(reader, kind, limit)
    /\ UNCHANGED <<model, sequence, flushing, closed>>

\* A stream is registered before its first snapshot is read.
Subscribe(reader) ==
    /\ ~closed
    /\ Cardinality(Staying(Expired(clock))) < MaxStreams
    /\ clock' \in Later
    /\ MayRead(reader, clock')
    /\ grants' = Removed(Expired(clock'))
    /\ clients' = Staying(Expired(clock')) \union
          {[id |-> CHOOSE id \in 1..(MaxStreams + 1) : \A c \in clients : c.id # id,
            to |-> reader, position |-> sequence]}
    /\ UNCHANGED <<model, sequence, flushing, closed, read>>

\* res.on('close'), or endClient when the model could not be read or the client was slow.
Leaves ==
    /\ \E c \in clients : clients' = clients \ {c}
    /\ UNCHANGED <<clock, model, grants, sequence, flushing, closed, read>>

\* flush: whoever is behind is sent a snapshot; contextFor looks at the expiry that the
\* client's grant has, not at whether the grant is still there.
Flush ==
    /\ flushing /\ flushing' = FALSE
    /\ clock' \in Later
    /\ grants' = Removed(Expired(clock'))
    /\ clients' = {[c EXCEPT !.position = sequence] :
          c \in {c \in clients : c.to = Viewer \/ grants[c.to].expires > clock'}}
    /\ UNCHANGED <<model, sequence, closed, read>>

\* The model changes, or only the policy, which has no revision of its own.
ModelChanges ==
    /\ model.revision + Cardinality(model.hidden) < MaxChanges
    /\ \E record \in model.held \ model.hidden :
          \/ model' = [model EXCEPT !.held = @ \ {record}, !.revision = @ + 1]
          \/ model' = [model EXCEPT !.hidden = @ \union {record}]
    /\ UNCHANGED <<clock, grants, clients, sequence, flushing, closed, read>>

notify ==
    /\ ~closed /\ sequence <= MaxChanges
    /\ sequence' = sequence + 1 /\ flushing' = TRUE
    /\ UNCHANGED <<clock, model, grants, clients, closed, read>>

\* The viewer asks for a grant: the rest of handle waits for the body.
AskGrant(h) ==
    /\ ~closed /\ grants[h].state = "none"
    /\ grants' = [grants EXCEPT ![h].state = "asked"]
    /\ UNCHANGED <<clock, model, clients, sequence, flushing, closed, read>>

\* The body has come: closed is looked at again, and the number of grants only now.
MakeGrant(h) ==
    /\ grants[h].state = "asked"
    /\ IF ~closed /\ Cardinality(Live \ Expired(clock)) < MaxGrants
       THEN /\ grants' = [Removed(Expired(clock)) EXCEPT ![h] =
                            [state |-> "live", expires |-> clock + GrantTtl]]
            /\ clients' = Staying(Expired(clock))
       ELSE removeGrants({h} \union Expired(clock))
    /\ UNCHANGED <<clock, model, sequence, flushing, closed, read>>

Revoke(h) ==
    /\ ~closed /\ h \in Live
    /\ removeGrants({h})
    /\ UNCHANGED <<clock, model, sequence, flushing, closed, read>>

\* The timer of a grant, or the interval, some time after the grant expired.
Expire ==
    /\ Expired(clock) # {}
    /\ sweep(clock)
    /\ UNCHANGED <<clock, model, sequence, flushing, closed, read>>

close ==
    /\ ~closed /\ closed' = TRUE
    /\ flushing' = FALSE
    /\ clients' = {}
    /\ grants' = Removed(Live)
    /\ UNCHANGED <<clock, model, sequence, read>>

AccessNext ==
    \/ Tick \/ Leaves \/ Flush \/ ModelChanges \/ notify \/ Expire \/ close
    \/ \E reader \in Readers : Get(reader) \/ Subscribe(reader)
    \/ \E h \in Holders : AskGrant(h) \/ MakeGrant(h) \/ Revoke(h)

AccessSpec == AccessInit /\ [][AccessNext]_accessVars

-----------------------------------------------------------------------------
\* What a reader has put together from its pages, each of which it may have asked for long
\* after the one before, is the start of what it was shown at one moment, and all of it
\* when it is told there is no more; a change of the policy alone is no exception.
ReadsAreOne ==
    LET rows == Listed(read.seal, read.kind)
    IN  /\ IsPrefix(read.given, rows)
        /\ read.done => read.given = rows

\* There are never more grants or streams than the limits say, though a request for a grant
\* waits between its authorization and the grant; whoever has a stream is the viewer or
\* has a grant; nothing is open once the API is closed.
Bounded ==
    /\ Cardinality(Live) <= MaxGrants /\ Cardinality(clients) <= MaxStreams
    /\ \A c \in clients : c.to \in Live \union {Viewer}
    /\ closed => Live = {} /\ clients = {}

\* Nobody is sent anything whose grant has expired, or was revoked, by a request or on a
\* stream opened before.
Served(reader) ==
    \/ \E c \in clients' \ clients : c.to = reader
    \/ read' # read /\ read'.by = reader

OnlyTheGranted == \A h \in Holders : Served(h) => h \in Live /\ grants[h].expires > clock'

\* Whoever reads, reads one version under a grant that holds, within the limits.
AccessHolds == [](ReadsAreOne /\ Bounded) /\ [][OnlyTheGranted]_accessVars
====
