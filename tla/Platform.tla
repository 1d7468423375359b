---- MODULE Platform ----
(***************************************************************************)
(* Discovery and parsing (runtime/platform.mjs): one bounded queue of       *)
(* captured files, one parser that runs outside the serial queue of the     *)
(* coordinator, and the memory of what is parsed and what is put off.       *)
(*                                                                         *)
(* The coordinator (runtime/pipeline.mjs) captures files in turns of its    *)
(* serial queue: a turn that captures and registers is one step here,       *)
(* since meanwhile only the worktree changes, and the parser, whose steps   *)
(* are its own.  Every operation ends with the pump, which starts the       *)
(* parser if it can; which queued file it prefers is left open.  Files are  *)
(* taken as eligible, with their text, under a policy that reads source.    *)
(***************************************************************************)
EXTENDS ProjectModel, SequencesExt

CONSTANTS
    QueueLimit,      \* QUEUE_LIMIT
    FirstLineage,    \* the checkout observed before anything else
    Bound,           \* bound: how often the environment does each of Kinds
    MaxSpent         \* bound: how often it does any of them

Kinds == {"edit", "failure", "outage", "checkout", "request"}

ASSUME PlatformAssumption ==
    /\ QueueLimit \in Nat \ {0}
    /\ FirstLineage \in Lineages
    /\ Bound \in [Kinds -> Nat] /\ MaxSpent \in Nat

VARIABLES
    latest,      \* the last observation of each file, of generation 0 before it
    queue,       \* the files that wait for the parser
    deferred,    \* the files put off, and why
    parsed,      \* the generation of each file parsed last, or 0
    processing,  \* what the parser works on
    available,   \* lineageAvailable
    closed,
    spent        \* how much of Bound is used

platformVars == <<latest, queue, deferred, parsed, processing, available, closed>>

vars == <<storeVars, modelVars, platformVars, spent>>

Stages == {"idle", "extract", "revalidate", "accept"}

Items == [of : Artifacts, gen : Nat, priority : BOOLEAN]

\* The version of a file put off matters only when the model had no room for it.
NotDeferred == [why |-> "none", gen |-> 0]

Later == [why |-> "again", gen |-> 0]

NoRoom(gen) == [why |-> "model_capacity", gen |-> gen]

\* epoch: no checkout change and no outage since it was queued.
Idle == [of |-> {}, gen |-> 0, stage |-> "idle", epoch |-> FALSE]

Begun(item) == [of |-> {item.of}, gen |-> item.gen, stage |-> "extract", epoch |-> TRUE]

TypeOK ==
    /\ StoreTypeOK /\ ModelTypeOK
    /\ latest \in [Artifacts -> [gen : Nat, status : Statuses]]
    /\ queue \in Seq(Items) /\ Len(queue) <= QueueLimit
    /\ \A i, j \in DOMAIN queue : queue[i].of = queue[j].of => i = j
    /\ deferred \in [Artifacts -> [why : {"none", "again", "model_capacity"}, gen : Nat]]
    /\ parsed \in [Artifacts -> Nat]
    /\ processing \in [of : SUBSET Artifacts, gen : Nat, stage : Stages, epoch : BOOLEAN]
    /\ available \in BOOLEAN /\ closed \in BOOLEAN
    /\ spent \in [Kinds -> Nat] /\ \A kind \in Kinds : spent[kind] <= Bound[kind]

Init ==
    /\ StoreInit /\ lineageId = FirstLineage /\ ModelInit
    /\ latest = [a \in Artifacts |-> [gen |-> 0, status |-> "missing"]]
    /\ queue = <<>>
    /\ deferred = [a \in Artifacts |-> NotDeferred]
    /\ parsed = [a \in Artifacts |-> 0]
    /\ processing = Idle
    /\ available = TRUE /\ closed = FALSE
    /\ spent = [kind \in Kinds |-> 0]

Spend(kind) ==
    /\ spent[kind] < Bound[kind]
    /\ FoldFunction(LAMBDA m, n : m + n, 0, spent) < MaxSpent
    /\ spent' = [spent EXCEPT ![kind] = @ + 1]

\* isCurrent of the file the parser works on.
Current(p, known) ==
    /\ ~ closed /\ available /\ p.epoch
    /\ \A a \in p.of : known[a].status = "present" /\ known[a].gen = p.gen

\* The pump: p is what the parser does before it.
Pump(q, p, usable) ==
    IF p = Idle /\ usable /\ q # <<>>
    THEN \E i \in DOMAIN q : processing' = Begun(q[i]) /\ queue' = RemoveAt(q, i)
    ELSE processing' = p /\ queue' = q

----
(* What one observation of a file does to the work there is. *)

Work == [latest |-> latest, queue |-> queue, deferred |-> deferred, parsed |-> parsed]

Waits(q, a) == \E i \in DOMAIN q : q[i].of = a

\* queue.delete: a file waits in one place at most.
Dequeued(q, a) == IF Waits(q, a) THEN RemoveAt(q, CHOOSE i \in DOMAIN q : q[i].of = a) ELSE q

\* A version already passed, or one withdrawn since.
Outdated(old, seen) ==
    /\ old.gen # 0
    /\ \/ seen.gen < old.gen
       \/ seen.gen = old.gen /\ old.status # "present" /\ seen.status = "present"

\* A full model has lost something since.
CapacityImproved == Cardinality(Held) < MaxEntities

\* The place a request takes in a full queue: the last that nobody requested.
Displaced(q) ==
    LET plain == {i \in DOMAIN q : ~ q[i].priority}
    IN  IF plain = {} THEN Len(q) ELSE Max(plain)

MakeRoom(w) ==
    LET i == Displaced(w.queue)
    IN  [w EXCEPT !.queue = RemoveAt(@, i), !.deferred[w.queue[i].of] = Later]

Enqueue(w, a, gen, priority) ==
    LET full == Len(w.queue) >= QueueLimit /\ ~ Waits(w.queue, a)
        r == IF full /\ priority THEN MakeRoom(w) ELSE w
        Item(old) == [of |-> a, gen |-> gen, priority |-> priority \/ old]
    IN  IF full /\ ~ priority THEN [w EXCEPT !.deferred[a] = Later]
        ELSE [r EXCEPT !.deferred[a] = NotDeferred,
                       !.queue = IF Waits(@, a)
                                 THEN [i \in DOMAIN @ |-> IF @[i].of = a THEN Item(@[i].priority)
                                                          ELSE @[i]]
                                 ELSE Append(@, Item(FALSE))]

ObserveOne(w, a, seen, priority) ==
    LET v == [w EXCEPT !.latest[a] = [gen |-> seen.gen, status |-> seen.status]]
        noRoom == w.deferred[a] = NoRoom(seen.gen)
    IN  IF Outdated(w.latest[a], seen) THEN w
        ELSE IF seen.status # "present"
        THEN [v EXCEPT !.queue = Dequeued(@, a), !.deferred[a] = NotDeferred, !.parsed[a] = 0]
        ELSE IF noRoom /\ ~ CapacityImproved THEN v
        ELSE IF w.parsed[a] = seen.gen /\ ~ noRoom THEN [v EXCEPT !.deferred[a] = NotDeferred]
        ELSE IF processing.of = {a} /\ processing.gen = seen.gen /\ processing.epoch THEN v
        ELSE Enqueue(v, a, seen.gen, priority)

\* A batch, in an order of no importance but for the places in the queue.
ObserveAll(work, batch, priority) ==
    LET order == SetToSeq(DOMAIN batch)
        after[n \in 0..Len(order)] ==
            IF n = 0 THEN work ELSE ObserveOne(after[n - 1], order[n], batch[order[n]], priority)
    IN  after[Len(order)]

Becomes(w) ==
    /\ latest' = w.latest
    /\ deferred' = w.deferred
    /\ parsed' = w.parsed

\* observeArtifacts, ahead of p, for observations that are registered.
ObserveArtifacts(batch, priority, p) ==
    \E w \in {ObserveAll(Work, batch, priority)} :
        /\ Becomes(w)
        /\ Pump(w.queue, p, available /\ ~ closed)
        /\ InvalidateArtifacts(batch)

Captured(files) == [a \in files |-> Capture(a)]

CaptureAll(files) ==
    records' = [a \in Artifacts |->
        IF a \in files THEN [gen |-> NextGeneration(a), seen |-> Inspect(a)] ELSE records[a]]

----
(* The operations of the coordinator. *)

\* A hook event names files, an architecture run asks for known ones.
Ingest(files, priority) ==
    /\ ~ closed
    /\ priority => files \subseteq Tracked
    /\ Spend("request")
    /\ CaptureAll(files)
    /\ \E batch \in {Captured(files)} : ObserveArtifacts(batch, priority, processing)
    /\ UNCHANGED <<disk, lineageId, checkpoints, available, closed>>

\* What discovery has to offer and what is tracked: here, every file.
Reconcile ==
    /\ ~ closed
    /\ UNCHANGED <<disk, lineageId, checkpoints, available, closed, spent>>
    /\ CaptureAll(Artifacts)
    /\ \E batch \in {Captured(Artifacts)} : ObserveArtifacts(batch, FALSE, processing)

(***************************************************************************)
(* observeLineage of the coordinator, of this module and of the model; a    *)
(* change of checkout then withdraws every observation.  A checkout is      *)
(* entered once: see the README for what a return to it does.               *)
(***************************************************************************)
ChangeCheckout(id) ==
    LET batch == [a \in Tracked |-> Withdrawal(a)]
        known == {a \in Artifacts : latest[a].gen # 0}
        w == ObserveAll([Work EXCEPT !.queue = <<>>,
                            !.deferred = [a \in Artifacts |-> IF a \in known THEN Later ELSE NotDeferred],
                            !.parsed = [a \in Artifacts |-> 0]],
                        batch, FALSE)
    IN  /\ ~ closed /\ id # lineageId
        /\ Spend("checkout")
        /\ lineageId' = id
        /\ available' = TRUE
        /\ WithdrawAll(Tracked)
        /\ Becomes(w)
        /\ queue' = w.queue
        /\ processing' = [processing EXCEPT !.epoch = FALSE]
        /\ UNCHANGED <<disk, records, checkpoints, closed>>

\* The file the parser is about to be refused is not put off.
MutantOutage ==
    /\ ~ closed /\ available
    /\ Spend("outage")
    /\ available' = FALSE
    /\ processing' = [processing EXCEPT !.epoch = FALSE]
    /\ UNCHANGED <<storeVars, modelVars, latest, queue, deferred, parsed, closed>>

\* The checkout cannot be read: the parser is stopped, the queue stays.
Outage ==
    /\ ~ closed /\ available
    /\ Spend("outage")
    /\ available' = FALSE
    /\ processing' = [processing EXCEPT !.epoch = FALSE]
    /\ deferred' = [a \in Artifacts |-> IF a \in processing.of THEN Later ELSE deferred[a]]
    /\ UNCHANGED <<storeVars, modelVars, latest, queue, parsed, closed>>

Return ==
    /\ ~ closed /\ ~ available
    /\ available' = TRUE
    /\ Pump(queue, processing, TRUE)
    /\ UNCHANGED <<storeVars, modelVars, latest, deferred, parsed, closed, spent>>

\* Everything the model had no room for is parsed once more.
RetryCapacity ==
    LET again == {a \in Artifacts : deferred[a].why = "model_capacity"}
    IN  /\ ~ closed /\ again # {}
        /\ Spend("request")
        /\ deferred' = [a \in Artifacts |-> IF a \in again THEN Later ELSE deferred[a]]
        /\ parsed' = [a \in Artifacts |-> IF a \in again THEN 0 ELSE parsed[a]]
        /\ UNCHANGED <<storeVars, modelVars, latest, queue, processing, available, closed>>

CreateCheckpoint ==
    /\ ~ closed
    /\ Spend("request")
    /\ \E a \in Artifacts : Checkpoint(a)
    /\ UNCHANGED <<storeVars, platformVars>>

Close ==
    /\ ~ closed
    /\ closed' = TRUE
    /\ queue' = <<>>
    /\ deferred' = [a \in Artifacts |-> NotDeferred]
    /\ processing' = [processing EXCEPT !.epoch = FALSE]
    /\ UNCHANGED <<storeVars, modelVars, latest, parsed, available, spent>>

Edit ==
    /\ ~ closed
    /\ Spend("edit")
    /\ \E a \in Artifacts : EditFile(a)
    /\ UNCHANGED <<modelVars, platformVars>>

----
(* The parser. *)

\* The parser is not free after a parse that came to nothing.
MutantDone(putOff) ==
    /\ deferred' = [a \in Artifacts |-> IF a \in putOff THEN Later ELSE deferred[a]]
    /\ UNCHANGED <<queue, processing>>

\* The end of a parse that left put off: the next one starts.
Done(putOff) ==
    /\ deferred' = [a \in Artifacts |-> IF a \in putOff THEN Later ELSE deferred[a]]
    /\ Pump(queue, Idle, available /\ ~ closed)

IfCurrent == IF Current(processing, latest) THEN processing.of ELSE {}

\* The version was superseded before the parser was done with it.
Superseded ==
    /\ processing.stage \in {"extract", "accept"} /\ ~ Current(processing, latest)
    /\ Done({})
    /\ UNCHANGED <<storeVars, modelVars, latest, parsed, available, closed, spent>>

\* Extraction, revalidation or acceptance throws, or the result is not valid.
ParseFails ==
    /\ processing # Idle
    /\ Spend("failure")
    /\ Done(IfCurrent)
    /\ UNCHANGED <<storeVars, modelVars, latest, parsed, available, closed>>

Extracted ==
    /\ processing.stage = "extract" /\ Current(processing, latest)
    /\ processing' = [processing EXCEPT !.stage = "revalidate"]
    /\ UNCHANGED <<storeVars, modelVars, latest, queue, deferred, parsed, available, closed, spent>>

\* Not even asked when it cannot be: the coordinator is closed or the checkout unknown.
RevalidateRefused ==
    /\ processing.stage = "revalidate" /\ (closed \/ ~ available)
    /\ Done({})
    /\ UNCHANGED <<storeVars, modelVars, latest, parsed, available, closed, spent>>

\* The file is captured again, and what is seen registered, before it is compared.
Revalidate ==
    /\ processing.stage = "revalidate" /\ ~ closed /\ available
    /\ UNCHANGED <<disk, lineageId, checkpoints, available, closed, spent>>
    /\ CaptureAll(processing.of)
    /\ \E batch \in {Captured(processing.of)}, w \in {ObserveAll(Work, Captured(processing.of), FALSE)} :
       LET same == \A a \in processing.of :
                       batch[a].gen = processing.gen /\ batch[a].status = "present"
           put == IF ~ same /\ Current(processing, w.latest) THEN processing.of ELSE {}
       IN  /\ InvalidateArtifacts(batch)
           /\ Becomes([w EXCEPT !.deferred = [a \in Artifacts |-> IF a \in put THEN Later ELSE @[a]]])
           /\ IF same /\ Current(processing, w.latest)
              THEN processing' = [processing EXCEPT !.stage = "accept"] /\ queue' = w.queue
              ELSE Pump(w.queue, Idle, TRUE)

\* The structure of the version is admitted: what was found of it, and whether
\* that is all.  A parser that is not available is a failure, though admitted.
Accept(a, found, complete, usable) ==
    /\ IF complete THEN spent' = spent ELSE Spend("failure")
    /\ parsed' = IF usable THEN [parsed EXCEPT ![a] = processing.gen] ELSE parsed
    /\ \E evicted \in Evictions(a) :
        \E admitted \in Admissions(Wanted(a, found) \ Kept(a, evicted), Kept(a, evicted)) :
            /\ deferred' = [deferred EXCEPT ![a] =
                    IF ~ usable THEN Later
                    ELSE IF Displaces(a, found, evicted, admitted) THEN NoRoom(processing.gen)
                    ELSE NotDeferred]
            /\ ObserveStructure(a, found, complete, evicted, admitted)

AcceptStructure ==
    /\ processing.stage = "accept" /\ Current(processing, latest)
    /\ UNCHANGED <<storeVars, latest, available, closed>>
    /\ Pump(queue, Idle, TRUE)
    /\ \E a \in processing.of :
        \/ Accept(a, artifacts[a].hash, TRUE, TRUE)
        \/ \E found \in SUBSET artifacts[a].hash, usable \in BOOLEAN :
               Accept(a, found, FALSE, usable)

----
Parser == Superseded \/ Extracted \/ RevalidateRefused \/ Revalidate \/ AcceptStructure

Environment ==
    \/ \E files \in SUBSET Artifacts \ {{}}, priority \in BOOLEAN : Ingest(files, priority)
    \/ \E id \in Lineages : ChangeCheckout(id)
    \/ Outage \/ Return \/ RetryCapacity \/ CreateCheckpoint \/ Close \/ Edit \/ ParseFails

Next == Parser \/ Reconcile \/ Environment

Due == Parser \/ Reconcile

\* The daemon reconciles periodically; the parser and the serial queue run on.
Spec == Init /\ [][Next]_vars /\ WF_vars(Due)

----
(***************************************************************************)
(* A file that was observed is never forgotten: its version is parsed, or   *)
(* waits for the parser, or is being parsed and has not been superseded, or *)
(* is put off, to be offered again (observeArtifacts, failure, the outage   *)
(* and the displacement from a full queue, each of which takes it from one  *)
(* of these places).                                                        *)
(***************************************************************************)
NoWorkForgotten ==
    \A a \in Artifacts :
        ~ closed /\ latest[a].status = "present" =>
            \/ parsed[a] = latest[a].gen
            \/ \E i \in DOMAIN queue : queue[i].of = a /\ queue[i].gen = latest[a].gen
            \/ processing.of = {a} /\ Current(processing, latest)
            \/ deferred[a].why # "none"

(***************************************************************************)
(* What the model says of a file is what the version it knows says: an      *)
(* entity is current only if that version was enumerated and declares it,   *)
(* deleted only if the file is or if the version does not declare it (an    *)
(* unreadable file proves nothing), and a relationship is current only if   *)
(* both its files are.                                                      *)
(***************************************************************************)
FactsFollowSource ==
    /\ \A a \in Artifacts, s \in Names :
        LET known == artifacts[a]
        IN  /\ entities[<<a, s>>] = "current" => FreshFile(a) /\ s \in known.hash \union {Root}
            /\ entities[<<a, s>>] = "retracted" =>
                known.status = "missing" \/ (known.status = "present" /\ s \notin known.hash)
    /\ \A a \in Artifacts :
        relations[a] = "current" =>
            /\ FreshFile(a) /\ Import \in artifacts[a].hash
            /\ \A end \in {a, Target[a]} : entities[<<end, Root>>] = "current"

(***************************************************************************)
(* What a comparison with a checkpoint calls created was not declared by    *)
(* the version the checkpoint knew, though the parser, or the room in the   *)
(* model, may have left out some of that version (changes.mjs:25-33).       *)
(***************************************************************************)
TrueCreations == \A base \in checkpoints : Creations(base) \cap base.cert.hash = {}

(***************************************************************************)
(* The model and its comparisons say nothing the files do not.              *)
(***************************************************************************)
FactsHold == FactsFollowSource /\ TrueCreations

Settled(a) ==
    /\ disk[a].status = "present" => records[a].seen = Inspect(a) /\ latest[a].status = "present"
    /\ latest[a].status = "present" =>
        \/ parsed[a] = latest[a].gen
        \/ deferred[a] = NoRoom(latest[a].gen)

(***************************************************************************)
(* Once the worktree is left alone, every file is parsed in the version it  *)
(* has, unless the model has no room for it, and it stays so: neither a     *)
(* failure, a full queue nor a full model keeps the parser from an end.     *)
(***************************************************************************)
Quiesces == <>[](closed \/ ~ available \/ \A a \in Artifacts : Settled(a))
====
