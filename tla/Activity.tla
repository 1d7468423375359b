---- MODULE Activity ----
(***************************************************************************)
(* What the tool calls of a host are about: the rows of the activity list,  *)
(* and the question to the decision service which parts of its files a call *)
(* concerns (addActivity to mapActivity of runtime/pipeline.mjs, and        *)
(* runtime/activity/targets.mjs).                                           *)
(*                                                                         *)
(* turn is what the coordinator's serial queue executes, up to the next     *)
(* await of it.  Only calls that read or edit files are represented, a call *)
(* with its last row; line hints are told apart by a number.                *)
(***************************************************************************)
EXTENDS EvidenceStore, FiniteSets

CONSTANTS
    Calls,        \* tool calls
    Sessions,
    SessionOf,    \* the session of a call
    FilesOf,      \* the files a call names
    MaxSessions,  \* MAX_SESSIONS
    MaxCalls,     \* MAX_ACTIVITY: calls that are remembered
    MaxMappings,  \* questions at the same time
    MaxWaiting,   \* questions that wait
    MaxSpent      \* bound: edits, controls, leases, and events not about a call

ASSUME ActivityAssumption ==
    /\ SessionOf \in [Calls -> Sessions] /\ FilesOf \in [Calls -> SUBSET Artifacts]
    /\ {MaxSessions, MaxCalls, MaxMappings, MaxWaiting} \subseteq Nat \ {0}
    /\ MaxSpent \in Nat

VARIABLES
    parsed,    \* the generation whose structure the project model has, 0: none
    live,      \* the sessions
    heard,     \* dedup: what was reported of each call
    calls,     \* activityCalls with the row of each; judged is the last question
               \* that was not aborted
    made,      \* calls remembered so far, which tells objects apart
    waiting,   \* activityMappingQueue
    mapping,   \* activityMappings, and where each mapActivity is
    turn, paused, available, closed,
    epoch,     \* lineageEpoch
    controls,  \* pauses, resumes, checkouts and outages
    spent

callVars == <<calls, made, waiting, mapping>>
modeVars == <<paused, available, closed, epoch, controls>>
activityVars == <<storeVars, parsed, live, heard, callVars, turn, modeVars, spent>>

Lives == {"absent", "active", "ended", "returned"}

Rows == [object : Nat, state : {"pending", "done", "unresolved"},
         mapping : {"exact", "decision"}, refs : References, old : BOOLEAN, seen : BOOLEAN,
         versions : References, attempted : BOOLEAN, hints : 0..1,
         judged : References \X (0..1)]

Forgotten == [object |-> 0, state |-> "pending", mapping |-> "exact", refs |-> NoRefs,
              old |-> FALSE, seen |-> FALSE, versions |-> NoRefs, attempted |-> FALSE, hints |-> 0,
              judged |-> <<NoRefs, 0>>]

Mappings == [stage : {"none", "starting", "asked", "answered", "finished"},
             object : Nat, versions : References, hints : 0..1, epoch : Nat,
             context : References, aborted : BOOLEAN, began : Nat]

NoMapping == [stage |-> "none", object |-> 0, versions |-> NoRefs, hints |-> 0, epoch |-> 0,
         context |-> NoRefs, aborted |-> FALSE, began |-> 0]

Idle == [op |-> "idle"]

Turns == {Idle} \union [op : {"row", "capture"}, call : Calls, kind : {"requested", "done", "late"}]
                \union [op : {"sweep"}] \union [op : {"apply"}, call : Calls]

ActivityTypeOK ==
    /\ StoreTypeOK
    /\ parsed \in References /\ live \in [Sessions -> Lives]
    /\ heard \subseteq Calls \X {"requested", "done"}
    /\ calls \in [Calls -> Rows] /\ made \in Nat
    /\ waiting \subseteq Calls /\ mapping \in [Calls -> Mappings]
    /\ turn \in Turns /\ {paused, available, closed} \subseteq BOOLEAN
    /\ epoch \in Nat /\ spent \in Nat /\ controls \in Nat

ActivityInit ==
    /\ StoreInit
    /\ parsed = NoRefs /\ live = [s \in Sessions |-> "absent"] /\ heard = {}
    /\ calls = [c \in Calls |-> Forgotten] /\ made = 0
    /\ waiting = {} /\ mapping = [c \in Calls |-> NoMapping]
    /\ turn = Idle /\ paused = FALSE /\ available = TRUE /\ closed = FALSE
    /\ epoch = 0 /\ spent = 0 /\ controls = 0

Remembered(table) == {c \in Calls : table[c].object # 0}

Running(table) == {c \in Calls : table[c].stage # "none"}

Aborted(table, which) ==
    [c \in Calls |-> IF c \in which /\ table[c].stage # "none" THEN [table[c] EXCEPT !.aborted = TRUE]
                     ELSE table[c]]

Spend == spent < MaxSpent /\ spent' = spent + 1

----
(* What a turn observes of files. *)

\* evidence.capture or reconcile, and registerArtifacts: the model's structure
\* of a file that has changed is not current any more.
RegisterArtifacts(files) ==
    /\ records' = [a \in Artifacts |->
                     IF a \in files THEN [gen |-> NextGeneration(a), seen |-> Inspect(a)] ELSE records[a]]
    /\ parsed' = [a \in Artifacts |-> IF records'[a] = records[a] THEN parsed[a] ELSE 0]
    /\ UNCHANGED <<disk, lineageId>>

\* evidence.isCurrent after it.
StillCurrent(refs) ==
    \A a \in Files(refs) :
        /\ records'[a].gen = refs[a] /\ records'[a].seen.status = "present"
        /\ records'[a].seen.lineage = lineageId

----
(* The queue of questions. *)

\* activityMappingAvailable
Available == ~ closed /\ ~ paused /\ available

Agrees(refs, current) == \A a \in Files(refs) : current[a] = refs[a]

\* The structure of every file is of the version observed last for the call.
Eligible(c, call, structure, sessions) ==
    /\ call.object # 0 /\ ~ call.attempted /\ call.versions # NoRefs
    /\ call.mapping = "exact" /\ ~ call.old
    /\ sessions[SessionOf[c]] # "ended"
    /\ Agrees(call.versions, structure)

Started(call, present, clock) ==
    [stage |-> "starting", object |-> call.object, versions |-> call.versions,
     hints |-> call.hints, epoch |-> present, context |-> NoRefs, aborted |-> FALSE,
     began |-> clock]

Question(of) == <<of.versions, of.hints>>

Become(table, queue, running) == calls' = table /\ waiting' = queue /\ mapping' = running

\* wakeActivityMappings: eligible calls wait, those beyond the bound are not
\* asked about; and the microtask pumpActivityMappings, which starts some.
Wake(table, queue, running) ==
    IF ~ Available' THEN Become(table, queue, running)
    ELSE LET wanted == {c \in Calls \ Running(running) : Eligible(c, table[c], parsed', live')} \union queue IN
         \E queued \in SUBSET wanted :
            /\ queue \subseteq queued
            /\ queued = wanted \/ Cardinality(queued) = MaxWaiting
            /\ Cardinality(queued) <= MaxWaiting
            /\ \E first \in SUBSET queued :
                /\ Cardinality(first \union Running(running)) <= MaxMappings
                /\ first = queued \/ Cardinality(first \union Running(running)) = MaxMappings
                /\ Become([c \in Calls |->
                              IF c \in first THEN [table[c] EXCEPT !.attempted = TRUE]
                              ELSE IF c \in wanted \ queued
                              THEN [table[c] EXCEPT !.attempted = TRUE, !.judged = Question(table[c])]
                              ELSE table[c]],
                          queued \ first,
                          [c \in Calls |-> IF c \in first THEN Started(table[c], epoch', controls') ELSE running[c]])

----
(* ingest: one event of a call. *)

\* evictSession and the bound of remembered calls.
Forget(table, gone) == [c \in Calls |-> IF c \in gone THEN Forgotten ELSE table[c]]

\* ensureSession: another session makes room.
EnsureSession(s, state, table) ==
    \E victim \in SUBSET {v \in Sessions \ {s} : live[v] # "absent"} :
        LET full == live[s] = "absent" /\ Cardinality({v \in Sessions : live[v] # "absent"}) >= MaxSessions
            gone == {c \in Remembered(calls) : SessionOf[c] \in victim}
        IN  /\ Cardinality(victim) = (IF full THEN 1 ELSE 0)
            /\ live' = [v \in Sessions |-> IF v \in victim THEN "absent" ELSE IF v = s THEN state ELSE live[v]]
            /\ calls' = Forget(table, gone) /\ waiting' = waiting \ gone
            /\ mapping' = Aborted(mapping, gone)

\* An event of a session that has ended brings it back.
Reached(s) == IF live[s] \in {"ended", "returned"} THEN "returned" ELSE "active"

\* The host reports each kind once; what it reports again is dropped.
Hear(c, kind) ==
    /\ turn = Idle /\ ~ closed
    /\ <<c, kind>> \notin heard
    /\ heard' = heard \union {<<c, kind>>}
    /\ EnsureSession(SessionOf[c], Reached(SessionOf[c]), calls)
    /\ turn' = [op |-> "row", call |-> c, kind |-> kind]
    /\ UNCHANGED <<storeVars, parsed, made, modeVars, spent>>

\* The oldest of too many.
Beyond(table) ==
    {c \in Remembered(table) :
        Cardinality({d \in Remembered(table) : table[d].object > table[c].object}) >= MaxCalls}

\* addActivity: a row with its call.
Row(c, state, exact, refs) ==
    [calls[c] EXCEPT !.object = IF @ = 0 THEN made + 1 ELSE @,
                     !.state = state, !.mapping = exact, !.refs = refs, !.old = FALSE, !.seen = FALSE]

\* The line hints that its event brings, if they are the first.
Hinted(row) == IF row.hints = 0 THEN [row EXCEPT !.hints = 1, !.attempted = FALSE] ELSE row

\* retainTerminalMapping: the report that a call has ended keeps its mapping
\* if the files are as they were.
Retainable(c, kind) ==
    kind = "done" /\ calls[c].mapping = "decision" /\ calls[c].refs # NoRefs /\ available

Retained(refs) == StillCurrent(refs)

\* A request reported after the end of the call changes nothing.
LateRequest ==
    /\ turn.op = "row" /\ turn.kind = "requested"
    /\ calls[turn.call].object # 0 /\ calls[turn.call].state # "pending"
    /\ turn' = [turn EXCEPT !.op = "capture", !.kind = "late"]
    /\ UNCHANGED <<storeVars, parsed, live, heard, callVars, modeVars, spent>>

AddActivity(hinted) ==
    /\ turn.op = "row"
    /\ IF hinted THEN Spend ELSE UNCHANGED spent
    /\ LET c == turn.call
           old == calls[c]
           kept == Retainable(c, turn.kind)
       IN  /\ old.object = 0 \/ old.state = "pending" \/ turn.kind = "done"
           /\ RegisterArtifacts(IF kept THEN Files(old.refs) ELSE {})
           /\ made' = IF old.object = 0 THEN made + 1 ELSE made
           /\ LET holds == kept /\ Retained(old.refs)
                  plain == Row(c, IF turn.kind = "done" THEN "done" ELSE "pending",
                               IF holds THEN "decision" ELSE "exact",
                               IF holds THEN old.refs ELSE NoRefs)
                  row == IF hinted THEN Hinted(plain) ELSE plain
                  table == [calls EXCEPT ![c] = row]
                  gone == Beyond(table)
                  anew == IF row.hints # old.hints THEN {c} ELSE {}
              IN  /\ calls' = Forget(table, gone)
                  /\ waiting' = waiting \ gone
                  /\ mapping' = Aborted(mapping, gone \union anew)
    /\ turn' = [turn EXCEPT !.op = "capture"]
    /\ UNCHANGED <<live, heard, modeVars>>

Present(files) == [a \in Artifacts |-> IF a \in files /\ records'[a].seen.status = "present"
                                       THEN records'[a].gen ELSE 0]

\* The capture of the files, and observeActivityVersions.
CaptureTargets ==
    /\ turn.op = "capture"
    /\ RegisterArtifacts(FilesOf[turn.call])
    /\ turn' = IF turn.kind = "requested" THEN Idle ELSE [op |-> "sweep"]
    /\ UNCHANGED <<live, heard, made, modeVars, spent>>
    /\ LET c == turn.call
           versions == Present(FilesOf[c])
           anew == versions # calls[c].versions
       IN  IF calls[c].object = 0 \/ turn.kind = "late" THEN Become(calls, waiting, mapping)
           ELSE Wake([calls EXCEPT ![c].versions = versions, ![c].seen = TRUE, ![c].attempted = @ /\ ~ anew],
                     waiting, IF anew THEN Aborted(mapping, {c}) ELSE mapping)

\* A capture that fails leaves the row as it is.
CaptureFails ==
    /\ Spend
    /\ turn.op \in {"capture", "sweep"}
    /\ turn' = Idle
    /\ UNCHANGED <<storeVars, parsed, live, heard, callVars, modeVars>>

\* The reread of what was observed before.
Sweep ==
    /\ turn.op = "sweep"
    /\ RegisterArtifacts(Tracked)
    /\ turn' = Idle
    /\ UNCHANGED <<live, heard, callVars, modeVars, spent>>

\* The outcome of these calls will not be reported.
Unresolved(which) ==
    [c \in Calls |-> IF c \in which THEN [Row(c, "unresolved", calls[c].mapping, calls[c].refs)
                                            EXCEPT !.refs = IF calls[c].mapping = "decision" THEN @ ELSE NoRefs]
                     ELSE calls[c]]

Pending == {c \in Remembered(calls) : calls[c].state = "pending"}

\* finishPendingActivity: the end of a turn, of an agent or of the session.
NoteSession(s, ends) ==
    /\ turn = Idle /\ ~ closed
    /\ Spend
    /\ EnsureSession(s, IF ends = "session" THEN "ended" ELSE Reached(s),
             Unresolved({c \in Pending : SessionOf[c] = s /\ ends # "nothing"}))
    /\ UNCHANGED <<storeVars, parsed, heard, made, turn, modeVars>>

\* reconcile: expirePending, and the files that are known.
Reconcile ==
    /\ turn = Idle /\ ~ closed
    /\ calls' = Unresolved({c \in Pending : calls[c].old})
    /\ turn' = [op |-> "sweep"]
    /\ UNCHANGED <<storeVars, parsed, live, heard, made, waiting, mapping, modeVars, spent>>

\* A minute since the last row of a call.
LeasePasses(c) ==
    /\ Spend
    /\ calls[c].object # 0 /\ ~ calls[c].old
    /\ calls' = [calls EXCEPT ![c].old = TRUE]
    /\ UNCHANGED <<storeVars, parsed, live, heard, made, waiting, mapping, turn, modeVars>>

----
(* mapActivity: one question. *)

\* What every step of it checks before it goes on.
Current(c) ==
    LET m == mapping[c]
        call == calls[c]
    IN  /\ Available /\ ~ m.aborted
        /\ call.object = m.object /\ live[SessionOf[c]] # "ended"
        /\ epoch = m.epoch /\ call.versions = m.versions /\ call.hints = m.hints /\ ~ call.old

Reaches(c, stage) == mapping' = [mapping EXCEPT ![c].stage = stage]

\* The structure of the files of the question, as the model has it.
Context(refs, structure) == [a \in Artifacts |-> IF refs[a] # 0 THEN structure[a] ELSE 0]

\* The first turn: a snapshot of the model, from which the question is prepared.
AskTargets(c) ==
    /\ mapping[c].stage = "starting" /\ turn = Idle
    /\ LET context == Context(mapping[c].versions, parsed) IN
       IF Current(c) /\ context # NoRefs
       THEN mapping' = [mapping EXCEPT ![c].stage = "asked", ![c].context = context]
       ELSE Reaches(c, "finished")
    /\ UNCHANGED <<storeVars, parsed, live, heard, calls, made, waiting, turn, modeVars, spent>>

\* The service names some of the entities.
AnswerTargets(c) ==
    /\ mapping[c].stage = "asked"
    /\ Reaches(c, IF Current(c) THEN "answered" ELSE "finished")
    /\ UNCHANGED <<storeVars, parsed, live, heard, calls, made, waiting, turn, modeVars, spent>>

\* None, an invalid answer, an error, the deadline, or an abort.
NoTargets(c) ==
    /\ mapping[c].stage = "asked"
    /\ Reaches(c, "finished")
    /\ UNCHANGED <<storeVars, parsed, live, heard, calls, made, waiting, turn, modeVars, spent>>

\* The second turn, up to the reread of the files.
BeginApplyTargets(c) ==
    /\ mapping[c].stage = "answered" /\ turn = Idle
    /\ IF Current(c) /\ Agrees(mapping[c].context, mapping[c].versions)
       THEN turn' = [op |-> "apply", call |-> c] /\ UNCHANGED mapping
       ELSE Reaches(c, "finished") /\ UNCHANGED turn
    /\ UNCHANGED <<storeVars, parsed, live, heard, calls, made, waiting, modeVars, spent>>

\* isCurrentActivityTargetContext: the question would be prepared as it was.
SameContext(c) ==
    /\ StillCurrent(mapping[c].context)
    /\ Context(mapping[c].versions, parsed') = mapping[c].context

\* The rest of it.
ApplyTargets ==
    /\ turn.op = "apply"
    /\ RegisterArtifacts(Files(mapping[turn.call].versions))
    /\ LET c == turn.call IN
       /\ IF Current(c) /\ SameContext(c)
          THEN calls' = [calls EXCEPT ![c].mapping = "decision", ![c].refs = mapping[c].versions]
          ELSE UNCHANGED calls
       /\ Reaches(c, "finished")
    /\ turn' = Idle
    /\ UNCHANGED <<live, heard, made, waiting, modeVars, spent>>

ApplyTargetsFails ==
    /\ Spend
    /\ turn.op = "apply"
    /\ Reaches(turn.call, "finished") /\ turn' = Idle
    /\ UNCHANGED <<storeVars, parsed, live, heard, calls, made, waiting, modeVars>>

\* A call whose question was aborted is asked about again.
Ended(c, again) ==
    IF calls[c].object # mapping[c].object THEN calls
    ELSE IF mapping[c].aborted THEN [calls EXCEPT ![c].attempted = ~ again]
    ELSE [calls EXCEPT ![c].judged = Question(mapping[c])]

MutantEnd(c) ==
    /\ mapping[c].stage = "finished"
    /\ UNCHANGED <<storeVars, parsed, live, heard, made, turn, modeVars, spent>>
    /\ Wake(Ended(c, FALSE), waiting, [mapping EXCEPT ![c] = NoMapping])

End(c) ==
    /\ mapping[c].stage = "finished"
    /\ UNCHANGED <<storeVars, parsed, live, heard, made, turn, modeVars, spent>>
    /\ Wake(Ended(c, TRUE), waiting, [mapping EXCEPT ![c] = NoMapping])

----
(* The parser, the user, and the checkout. *)

\* The parser admits the structure of a file after its own reread, and wakes.
Parse(a) ==
    /\ turn = Idle /\ ~ closed /\ available /\ records[a].gen # 0
    /\ records' = [records EXCEPT ![a] = [gen |-> NextGeneration(a), seen |-> Inspect(a)]]
    /\ parsed' = [parsed EXCEPT ![a] = IF records' = records /\ records[a].seen.status = "present"
                                       THEN records[a].gen
                                       ELSE IF records' = records THEN @ ELSE 0]
    /\ UNCHANGED <<disk, lineageId, live, heard, made, turn, modeVars, spent>>
    /\ Wake(calls, waiting, mapping)

Control == Spend /\ controls' = controls + 1

Suspend == Become(calls, {}, Aborted(mapping, Calls))

SetPaused ==
    /\ Control /\ ~ closed
    /\ paused' = ~ paused
    /\ UNCHANGED <<storeVars, parsed, live, heard, made, turn, available, closed, epoch>>
    /\ IF paused' THEN Suspend ELSE Wake(calls, waiting, mapping)

\* observeLineage: another checkout, or one that cannot be read.
ObserveLineage(lineage, readable) ==
    /\ turn = Idle /\ ~ closed /\ Control
    /\ lineage # lineageId \/ readable # available
    /\ lineageId' = lineage /\ available' = readable
    /\ UNCHANGED <<disk, records, live, heard, made, turn, paused, closed>>
    /\ parsed' = IF lineage # lineageId THEN NoRefs ELSE parsed
    /\ IF lineage # lineageId \/ ~ readable
       THEN epoch' = epoch + 1 /\ Wake(calls, {}, Aborted(mapping, Calls))
       ELSE UNCHANGED epoch /\ Wake(calls, waiting, mapping)

Close ==
    /\ Control /\ ~ closed
    /\ closed' = TRUE
    /\ Suspend
    /\ UNCHANGED <<storeVars, parsed, live, heard, made, turn, paused, available, epoch>>

Edit(a) == EditFile(a) /\ Spend /\ UNCHANGED <<parsed, live, heard, callVars, turn, modeVars>>

ActivityNext ==
    \/ LateRequest \/ CaptureTargets \/ CaptureFails \/ Sweep \/ Reconcile
    \/ ApplyTargets \/ ApplyTargetsFails \/ SetPaused \/ Close
    \/ \E hinted \in BOOLEAN : AddActivity(hinted)
    \/ \E s \in Sessions, ends \in {"nothing", "turn", "session"} : NoteSession(s, ends)
    \/ \E l \in Lineages, readable \in BOOLEAN : ObserveLineage(l, readable)
    \/ \E a \in Artifacts : Parse(a) \/ Edit(a)
    \/ \E c \in Calls :
        \/ \E kind \in {"requested", "done"} : Hear(c, kind)
        \/ LeasePasses(c) \/ AskTargets(c) \/ AnswerTargets(c) \/ NoTargets(c) \/ BeginApplyTargets(c) \/ End(c)

ActivitySpec == ActivityInit /\ [][ActivityNext]_activityVars

----
\* A row that the host has reported says what its files hold at that very moment, in this
\* checkout. So does a row that an answer is applied to, of the files whose structure the
\* question rests on: of those alone, isCurrent(result.sourceRefs) and not of all versions the
\* row cites; and only if nothing was paused, resumed or checked out since the question
\* (pipeline.mjs:754).
IsMapped(c) ==
    LET was == calls[c]
        is == calls'[c]
    IN  is.mapping = "decision" /\ is.state # "unresolved" /\ <<was.mapping, was.state>> # <<is.mapping, is.state>> =>
            /\ was.mapping = "decision" => IsCurrent(calls[c].refs)'
            /\ was.mapping = "exact" =>
                /\ IsCurrent(mapping[c].context)' /\ Agrees(mapping[c].context, is.refs)
                /\ mapping[c].context # NoRefs /\ mapping[c].began = controls

\* No call is forgotten: while nothing is under way, each has been asked about, for the
\* versions and the line hints observed last, by a question that was not aborted, or was
\* turned away by a full queue; whatever pauses and checkouts there were.  Only a row whose
\* files were not captured, and a session that was thought to have ended, wait for the next
\* occasion.
IsAskedAbout(c) ==
    \/ calls[c].versions = NoRefs \/ calls[c].mapping = "decision"
    \/ ~ Agrees(calls[c].versions, parsed)
    \/ calls[c].old \/ ~ calls[c].seen \/ live[SessionOf[c]] \in {"ended", "returned"}
    \/ calls[c].judged = Question(calls[c])

(***************************************************************************)
(* Answers about calls are applied only while they are true, and no call is *)
(* forgotten (pipeline.mjs:640-760).                                        *)
(***************************************************************************)
CallsHold ==
    /\ [](Available /\ Running(mapping) = {} /\ turn = Idle => \A c \in Remembered(calls) : IsAskedAbout(c))
    /\ [][\A c \in Calls : IsMapped(c)]_activityVars
====
