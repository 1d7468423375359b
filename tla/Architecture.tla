---- MODULE Architecture ----
(***************************************************************************)
(* Architecture discovery (runtime/architecture/controller.mjs) and its     *)
(* two dealings with the coordinator (captureArchitecture and               *)
(* commitArchitecture of runtime/pipeline.mjs).                             *)
(*                                                                         *)
(* One run at a time takes a batch of the files that wait, captures them,   *)
(* waits for the parser, has them analyzed, and commits what was found.     *)
(* Files, the checkout, the user and the coordinator change things during   *)
(* each of these awaits.  A version stands for hash, generation and status; *)
(* an analysis may answer anything its caller tells apart.  An order is     *)
(* left open wherever it is a matter of preference.  A turn of the serial   *)
(* queue that rereads files is one step: only the worktree moves in it.     *)
(***************************************************************************)
EXTENDS Naturals, FiniteSets, FiniteSetsExt

CONSTANTS
    Files,
    BatchSize,    \* BATCH_SIZE
    MaxKnown,     \* MAX_PENDING
    MaxVersion,   \* bound: versions of a file
    MaxEdits,     \* bound: edits of all files
    MaxControls   \* bound: blocks, checkout changes and requests

ASSUME ArchitectureAssumption ==
    /\ IsFiniteSet(Files)
    /\ BatchSize \in Nat \ {0} /\ MaxKnown \in Nat
    /\ MaxVersion \in Nat \ {0} /\ MaxEdits \in Nat /\ MaxControls \in Nat

VARIABLES
    disk,        \* the version the worktree has of each file
    known,       \* known: the version registered last, 0 before it
    pending,     \* pending: the files that wait for an analysis
    completed,   \* completed: the version judged, or 0
    retries,     \* retries: rejections and deferred memberships of a version
    manual,      \* manual: a run of everything is requested
    timer,       \* whether a run is scheduled
    run,         \* active: the batch under way
    cited,       \* the version of each file the committed boundaries rest on, or 0
    blocked,     \* available() names a reason: paused, unknown checkout
    closed,
    edits, controls

coordinator == <<disk, cited, blocked, closed>>
bounds == <<edits, controls>>
vars == <<coordinator, known, pending, completed, retries, manual, timer, run, bounds>>

\* What a checkout change registers of every file, without looking at it.
Withdrawn == MaxVersion + 1

Versions == 0..Withdrawn

Unset == [f \in Files |-> 0]

Stages == {"idle", "capture", "settle", "analysis", "commit"}

\* captured: selectedVersions, then activeVersions; support: what the answer rests
\* on; putOff, members: deferredArtifactIds, deferredMembershipArtifactIds.
Runs == [stage : Stages, ids : SUBSET Files, captured : [Files -> Versions],
         support : [Files -> Versions], putOff : SUBSET Files, members : SUBSET Files,
         aborted : BOOLEAN]

Idle == [stage |-> "idle", ids |-> {}, captured |-> Unset, support |-> Unset,
         putOff |-> {}, members |-> {}, aborted |-> FALSE]

TypeOK ==
    /\ {disk, known, completed, cited} \subseteq [Files -> Versions]
    /\ pending \subseteq Files
    /\ retries \in [Files -> 0..3]
    /\ run \in Runs
    /\ {manual, timer, blocked, closed} \subseteq BOOLEAN
    /\ edits \in 0..MaxEdits /\ controls \in 0..MaxControls

Init ==
    /\ disk = [f \in Files |-> 1] /\ known = Unset
    /\ pending = {} /\ completed = Unset /\ retries = Unset
    /\ manual = FALSE /\ timer = FALSE
    /\ run = Idle
    /\ cited = Unset
    /\ blocked = FALSE /\ closed = FALSE
    /\ edits = 0 /\ controls = 0

KnownFiles == {f \in Files : known[f] # 0}

Only(files, values) == [f \in Files |-> IF f \in files THEN values[f] ELSE 0]

\* The work there is, which a step changes as a whole.
Work == [known |-> known, pending |-> pending, completed |-> completed,
         retries |-> retries, cited |-> cited]

Becomes(work) == \E w \in {work} :
    /\ known' = w.known
    /\ pending' = w.pending
    /\ completed' = w.completed
    /\ retries' = w.retries
    /\ cited' = w.cited

\* wake(), with what waits then and whether a run is under way.
Wake(waiting, requested, busy, stopped) ==
    timer' = (~ stopped /\ (timer \/ (~ busy /\ (waiting # {} \/ requested))))

----
(* Registration. *)

\* observe(): new versions wait, and nothing rests on the earlier ones any more.
Observed(news, version) ==
    [known |-> [f \in Files |-> IF f \in news THEN version[f] ELSE known[f]],
     pending |-> pending \union news,
     completed |-> Only(Files \ news, completed),
     retries |-> Only(Files \ news, retries),
     cited |-> Only(Files \ news, cited)]

News(files) == {f \in files : known[f] # disk[f]}

\* activeVersions are compared from the analysis on.
Aborts(news) ==
    /\ run.stage \in {"analysis", "commit"}
    /\ \E f \in news \intersect run.ids : run.captured[f] # disk[f]

\* The coordinator captures a file for reasons of its own.
Observe(f) ==
    /\ ~ closed /\ News({f}) # {}
    /\ known[f] # 0 \/ Cardinality(KnownFiles) < MaxKnown
    /\ Becomes(Observed({f}, disk))
    /\ run' = [run EXCEPT !.aborted = @ \/ Aborts({f})]
    /\ Wake(pending \union {f}, manual, run # Idle, blocked)
    /\ UNCHANGED <<disk, blocked, closed, manual, bounds>>

----
(* A run. *)

\* The end of a run, which leaves w.  Whatever waits then is scheduled.
End(work) == \E w \in {work} :
    /\ Becomes(w)
    /\ run' = Idle
    /\ Wake(w.pending, manual, FALSE, blocked \/ closed)

\* The timer fires.  A request makes every known file wait once more.
Start ==
    /\ timer
    /\ timer' = FALSE /\ manual' = FALSE
    /\ retries' = IF manual THEN Unset ELSE retries
    /\ completed' = IF manual THEN Unset ELSE completed
    /\ LET waiting == IF manual THEN KnownFiles ELSE pending
           size == Min({Cardinality(waiting), BatchSize})
       IN  /\ pending' = waiting
           /\ IF waiting = {} THEN UNCHANGED run
              ELSE \E ids \in kSubset(size, waiting) :
                  run' = [Idle EXCEPT !.stage = "capture", !.ids = ids, !.captured = Only(ids, known)]
    /\ UNCHANGED <<coordinator, known, bounds>>

Dropped == closed \/ run.aborted

\* captureArchitecture: nothing is reread for a run that is not wanted any more.
Capture ==
    /\ run.stage = "capture"
    /\ IF Dropped \/ blocked
       THEN run' = [run EXCEPT !.stage = "settle"] /\ Becomes(Work)
       ELSE /\ run' = [run EXCEPT !.stage = "settle", !.captured = Only(run.ids, disk)]
            /\ Becomes(Observed(News(run.ids), disk))
    /\ UNCHANGED <<disk, blocked, closed, manual, timer, bounds>>

\* The version the run works on is still the one registered.
Same(f) == run.captured[f] = known[f]

\* whenParsed is over, well or not: a version passed since ends the run.
Settle ==
    /\ run.stage = "settle"
    /\ IF Dropped \/ \E f \in run.ids : ~ Same(f)
       THEN End(Work)
       ELSE run' = [run EXCEPT !.stage = "analysis"] /\ UNCHANGED timer /\ Becomes(Work)
    /\ UNCHANGED <<disk, blocked, closed, manual, bounds>>

\* Whatever became of the files since, the result is theirs.
MutantJudged == run.ids

\* The files of the batch that a result is about.
Judged == {f \in run.ids : Same(f)}

\* What is put off is offered again without end.
MutantAgain(putOff) == putOff

\* What is put off waits again, unless nothing else of the batch was done.
Again(putOff) == IF run.ids \subseteq putOff THEN {} ELSE putOff

\* A result that was applied; files are brought back twice for their memberships.
Finish(putOff, members) ==
    LET over == Judged \ Again(putOff)
        done == [f \in Files |-> IF f \in over THEN run.captured[f] ELSE completed[f]]
    IN  [Work EXCEPT
            !.completed = done,
            !.retries = [f \in Files |-> IF f \in members THEN Min({@[f] + 1, 3}) ELSE @[f]],
            !.pending = (@ \ over) \union {f \in putOff : done[f] # known[f]}
                        \union {f \in members : retries[f] < 2}]

\* The second rejection of a version is the last.
Rejected(w) ==
    LET over == {f \in Judged : retries[f] >= 1}
    IN  [w EXCEPT
            !.retries = [f \in Files |-> IF f \in Judged THEN Min({@[f] + 1, 3}) ELSE @[f]],
            !.completed = [f \in Files |-> IF f \in over THEN run.captured[f] ELSE @[f]],
            !.pending = @ \ over]

\* The analysis answers: there is nothing to commit, or something that rests on
\* the batch and maybe on other files.
Analyze ==
    /\ run.stage = "analysis"
    /\ UNCHANGED <<disk, blocked, closed, manual, bounds>>
    /\ IF Dropped THEN End(Work)
       ELSE \E putOff \in SUBSET run.ids, members \in SUBSET KnownFiles :
          \/ End(Finish(putOff, members))
          \/ \E others \in SUBSET (KnownFiles \ run.ids) :
                /\ run' = [run EXCEPT !.stage = "commit", !.putOff = putOff, !.members = members,
                                      !.support = Only(run.ids \union others, known)]
                /\ Becomes(Work) /\ UNCHANGED timer

\* The files are not read again.
MutantReread(files) == [news |-> {}, moved |-> FALSE]

\* What reading the files again shows: new versions, and whether any has moved
\* since the analysis.
Reread(files) == [news |-> News(files), moved |-> \E f \in files : disk[f] # run.support[f]]

(***************************************************************************)
(* commitArchitecture, in its turn, and what the run does with the answer.  *)
(* The reread registers what it sees, which may abort the run.  The model   *)
(* may reject what the coordinator would accept.                            *)
(***************************************************************************)
Commit ==
    /\ run.stage = "commit"
    /\ UNCHANGED <<disk, blocked, closed, manual, bounds>>
    /\ \E files \in {{f \in Files : run.support[f] # 0}} : \E seen \in {Reread(files)} :
           IF Dropped THEN End(Work)
           ELSE IF Aborts(seen.news) THEN End(Observed(seen.news, disk))
           ELSE \/ End(Rejected(Observed(seen.news, disk)))
                \/ /\ ~ seen.moved
                   /\ End([Finish(run.putOff, run.members) EXCEPT
                               !.cited = [f \in Files |-> IF f \in files THEN run.support[f] ELSE @[f]]])

\* A capture, an analysis or a commit throws.
Fails ==
    /\ run.stage \in {"capture", "analysis", "commit"}
    /\ End(IF Dropped THEN Work
           ELSE [Work EXCEPT
                    !.pending = @ \ Judged,
                    !.completed = [f \in Files |-> IF f \in Judged THEN run.captured[f] ELSE @[f]]])
    /\ UNCHANGED <<disk, blocked, closed, manual, bounds>>

----
(* What the coordinator and the user do. *)

Control == ~ closed /\ controls < MaxControls /\ controls' = controls + 1 /\ UNCHANGED edits

Abort == run' = [run EXCEPT !.aborted = run # Idle]

\* Paused, or the checkout cannot be read.
Block ==
    /\ ~ blocked /\ Control
    /\ blocked' = TRUE
    /\ timer' = FALSE
    /\ Abort
    /\ UNCHANGED <<disk, known, pending, completed, retries, cited, closed, manual>>

Unblock ==
    /\ blocked /\ ~ closed
    /\ blocked' = FALSE
    /\ Wake(pending, manual, run # Idle, FALSE)
    /\ UNCHANGED <<disk, known, pending, completed, retries, cited, closed, manual, run, bounds>>

\* Another checkout: invalidate(), then every file is withdrawn.
Checkout ==
    /\ Control
    /\ Abort
    /\ Becomes(Observed(KnownFiles, [f \in Files |-> Withdrawn]))
    /\ Wake(KnownFiles, manual, run # Idle, blocked)
    /\ UNCHANGED <<disk, blocked, closed, manual>>

Request ==
    /\ Control
    /\ manual' = TRUE
    /\ Wake(pending, TRUE, run # Idle, blocked)
    /\ UNCHANGED <<disk, known, pending, completed, retries, cited, blocked, closed, run>>

Close ==
    /\ Control
    /\ closed' = TRUE
    /\ timer' = FALSE
    /\ pending' = {}
    /\ Abort
    /\ UNCHANGED <<disk, known, completed, retries, cited, blocked, manual>>

Edit(f) ==
    /\ ~ closed /\ disk[f] < MaxVersion /\ edits < MaxEdits
    /\ disk' = [disk EXCEPT ![f] = @ + 1]
    /\ edits' = edits + 1
    /\ UNCHANGED <<known, pending, completed, retries, cited, blocked, closed, manual, run, timer, controls>>

----
Due == Start \/ Capture \/ Settle \/ Analyze \/ Commit

Next ==
    \/ Due \/ Fails
    \/ Block \/ Unblock \/ Checkout \/ Request \/ Close
    \/ \E f \in Files : Observe(f) \/ Edit(f)

\* The timer fires, and captures, parses, analyses and commits end.
Spec == Init /\ [][Next]_vars /\ WF_vars(Due)

(***************************************************************************)
(* Whatever changes while a run waits for something, every known file has   *)
(* been judged in the version it has, or waits for it: a result is never    *)
(* booked for a version it did not see (controller.mjs:183-185, 199, 218).  *)
(***************************************************************************)
NothingLost == closed \/ \A f \in KnownFiles : f \in pending \/ completed[f] = known[f]

(***************************************************************************)
(* What the boundaries committed rest on are versions that are registered:  *)
(* not one that was passed while the analysis or its commit was under way.  *)
(***************************************************************************)
CitedIsKnown == \A f \in Files : cited[f] # 0 => cited[f] = known[f]

(***************************************************************************)
(* Once nothing changes any more, the runs come to an end with nothing left *)
(* that waits, however often the analysis puts files off and the model      *)
(* rejects the answer; unless discovery is blocked.                         *)
(***************************************************************************)
ComesToRest == <>[](closed \/ blocked \/ (run = Idle /\ pending = {} /\ ~ manual))
====
