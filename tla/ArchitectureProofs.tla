---- MODULE ArchitectureProofs ----
(***************************************************************************)
(* Whatever the number of files, versions and interferences: no file is     *)
(* forgotten by architecture discovery, and what the committed boundaries   *)
(* rest on is registered; and those that are kept join current roles and    *)
(* are withdrawn only for a cause, whatever an analysis answers and         *)
(* whatever changes before its commit.                                      *)
(***************************************************************************)
EXTENDS Architecture, Boundaries, TLAPS

(***************************************************************************)
(* The inductive invariant.                                                 *)
(***************************************************************************)

Typing ==
    /\ disk \in [Files -> 1..MaxVersion]
    /\ known \in [Files -> Versions]
    /\ completed \in [Files -> Versions]
    /\ cited \in [Files -> Versions]
    /\ pending \subseteq Files
    /\ run \in Runs

\* A version registered of a file is one it has had, or the one withdrawn.
KnownWasThere == \A f \in Files : known[f] <= disk[f] \/ known[f] = Withdrawn

(***************************************************************************)
(* What an answer rests on is registered until the commit reads the files   *)
(* again, unless the file has moved on, which the reread sees, or is        *)
(* withdrawn, and no reread shows a withdrawn version.                      *)
(***************************************************************************)
SupportHolds ==
    run.stage = "commit" /\ ~ run.aborted =>
        \A f \in Files : run.support[f] # 0 =>
            run.support[f] = known[f] \/ run.support[f] < disk[f] \/ run.support[f] = Withdrawn

ControllerInv == Typing /\ KnownWasThere /\ SupportHolds /\ NothingLost /\ CitedIsKnown

(***************************************************************************)
(* Steps change the work there is as a whole.  The work w is sound if the   *)
(* invariant may hold of the state that has it.                             *)
(***************************************************************************)
Sound(w) ==
    /\ w.known \in [Files -> Versions]
    /\ w.completed \in [Files -> Versions]
    /\ w.cited \in [Files -> Versions]
    /\ w.pending \subseteq Files
    /\ \A f \in Files :
        /\ w.known[f] <= disk[f] \/ w.known[f] = Withdrawn
        /\ w.known[f] # 0 => closed \/ f \in w.pending \/ w.completed[f] = w.known[f]
        /\ w.cited[f] # 0 => w.cited[f] = w.known[f]

LEMMA VersionNumbers == Withdrawn = MaxVersion + 1 /\ Versions = 0..Withdrawn /\ MaxVersion \in Nat
BY ArchitectureAssumption DEF Withdrawn, Versions

LEMMA IdleType == Idle \in Runs /\ Idle.stage = "idle"
BY VersionNumbers DEF Idle, Runs, Stages, Unset

LEMMA WorkIsSound ==
  ASSUME ControllerInv PROVE Sound(Work)
BY DEF ControllerInv, Typing, KnownWasThere, NothingLost, KnownFiles, CitedIsKnown, Sound, Work

\* A step that leaves sound work, and a run of which the support holds.
LEMMA SoundWorkKept ==
  ASSUME NEW w, Sound(w), Becomes(w), UNCHANGED <<disk, closed>>, run' \in Runs,
         disk \in [Files -> 1..MaxVersion], SupportHolds'
  PROVE  ControllerInv'
BY DEF ControllerInv, Typing, KnownWasThere, NothingLost, KnownFiles, CitedIsKnown, Sound, Becomes, Versions, Withdrawn

\* The end of a run that leaves sound work.
LEMMA EndKeeps ==
  ASSUME ControllerInv, NEW w, Sound(w), End(w), UNCHANGED <<disk, closed>>
  PROVE  ControllerInv'
<1>1. Becomes(w) /\ run' = Idle
  BY DEF End, Becomes
<1>2. SupportHolds'
  BY <1>1, IdleType DEF SupportHolds
<1> QED BY <1>1, <1>2, IdleType, SoundWorkKept DEF ControllerInv, Typing

\* Versions registered anew wait, whatever became of the earlier ones.
LEMMA ObservedSound ==
  ASSUME ControllerInv, NEW news \in SUBSET Files, NEW version,
         \A f \in news : /\ version[f] \in Versions
                         /\ version[f] <= disk[f] \/ version[f] = Withdrawn
  PROVE  Sound(Observed(news, version))
<1> DEFINE w == Observed(news, version)
<1>1. /\ w.known = [f \in Files |-> IF f \in news THEN version[f] ELSE known[f]]
      /\ w.pending = pending \union news
      /\ w.completed = [f \in Files |-> IF f \in Files \ news THEN completed[f] ELSE 0]
      /\ w.cited = [f \in Files |-> IF f \in Files \ news THEN cited[f] ELSE 0]
  BY DEF Observed, Only
<1>2. 0 \in Versions
  BY VersionNumbers
<1> HIDE DEF w
<1>3. Sound(w)
  BY <1>1, <1>2 DEF ControllerInv, Typing, KnownWasThere, NothingLost, KnownFiles, CitedIsKnown, Sound
<1> QED BY <1>3 DEF w

\* What the worktree has may be registered of any files.
LEMMA DiskIsSound ==
  ASSUME ControllerInv, NEW news \in SUBSET Files
  PROVE  Sound(Observed(news, disk))
<1>1. \A f \in Files : disk[f] \in Versions /\ disk[f] <= disk[f]
  BY VersionNumbers DEF ControllerInv, Typing
<1> QED BY <1>1, ObservedSound

(***************************************************************************)
(* The results of a run are booked for the versions they are about.         *)
(***************************************************************************)

LEMMA FinishSound ==
  ASSUME ControllerInv, NEW putOff \in SUBSET Files, NEW members \in SUBSET Files
  PROVE  Sound(Finish(putOff, members)) /\ Finish(putOff, members).known = known
<1> DEFINE w == Finish(putOff, members)
           over == Judged \ Again(putOff)
<1>1. over \subseteq Files /\ \A f \in over : run.captured[f] = known[f]
  BY DEF Judged, Same, ControllerInv, Typing, Runs
<1>2. /\ w.known = known /\ w.cited = cited
      /\ w.completed = [f \in Files |-> IF f \in over THEN run.captured[f] ELSE completed[f]]
      /\ w.pending \subseteq Files
      /\ pending \ over \subseteq w.pending
  BY DEF Finish, Work, ControllerInv, Typing
<1> HIDE DEF w, over
<1>3. Sound(w)
  BY <1>1, <1>2 DEF ControllerInv, Typing, KnownWasThere, NothingLost, KnownFiles, CitedIsKnown, Sound, Runs
<1> QED BY <1>2, <1>3 DEF w

\* A rejection, after what the reread registered, which has not aborted the run.
LEMMA RejectedSound ==
  ASSUME ControllerInv, NEW news \in SUBSET Files, Judged \intersect news = {}
  PROVE  Sound(Rejected(Observed(news, disk)))
<1> DEFINE o == Observed(news, disk)
           w == Rejected(o)
           over == {f \in Judged : retries[f] >= 1}
<1>1. Sound(o)
  BY DiskIsSound
<1>2. /\ over \subseteq Files
      /\ \A f \in over : run.captured[f] = known[f] /\ o.known[f] = known[f]
  BY DEF Judged, Same, ControllerInv, Typing, Runs, Observed
<1>3. /\ w.known = o.known /\ w.cited = o.cited
      /\ w.completed = [f \in Files |-> IF f \in over THEN run.captured[f] ELSE o.completed[f]]
      /\ w.pending = o.pending \ over
  BY DEF Rejected, Observed
<1>4. \A f \in over : run.captured[f] \in Versions
  BY <1>2 DEF ControllerInv, Typing
<1> HIDE DEF o, w, over
<1>5. Sound(w)
  BY <1>1, <1>2, <1>3, <1>4 DEF Sound
<1> QED BY <1>5 DEF w, o

LEMMA FailedSound ==
  ASSUME ControllerInv
  PROVE  Sound([Work EXCEPT
                  !.pending = @ \ Judged,
                  !.completed = [f \in Files |-> IF f \in Judged THEN run.captured[f] ELSE @[f]]])
<1> DEFINE w == [Work EXCEPT
                  !.pending = @ \ Judged,
                  !.completed = [f \in Files |-> IF f \in Judged THEN run.captured[f] ELSE @[f]]]
<1>1. Judged \subseteq Files /\ \A f \in Judged : run.captured[f] = known[f]
  BY DEF Judged, Same, ControllerInv, Typing, Runs
<1>2. /\ w.known = known /\ w.cited = cited
      /\ w.completed = [f \in Files |-> IF f \in Judged THEN run.captured[f] ELSE completed[f]]
      /\ w.pending = pending \ Judged
  BY DEF Work
<1> HIDE DEF w
<1>3. Sound(w)
  BY <1>1, <1>2 DEF ControllerInv, Typing, KnownWasThere, NothingLost, KnownFiles, CitedIsKnown, Sound
<1> QED BY <1>3 DEF w

(***************************************************************************)
(* The steps.                                                               *)
(***************************************************************************)

LEMMA InitHolds == Init => ControllerInv
BY VersionNumbers, IdleType, ArchitectureAssumption
   DEF Init, ControllerInv, Typing, KnownWasThere, SupportHolds, NothingLost, KnownFiles, CitedIsKnown, Unset

\* Sound work under a run that is not about to be committed.
LEMMA OtherStage ==
  ASSUME ControllerInv, NEW w, Sound(w), Becomes(w), UNCHANGED <<disk, closed>>,
         run' \in Runs, run'.stage # "commit"
  PROVE  ControllerInv'
BY SoundWorkKept DEF SupportHolds, ControllerInv, Typing

\* A registration replaces the version an answer rests on by a later one.
LEMMA ObserveKeeps ==
  ASSUME ControllerInv, NEW f \in Files, Observe(f) PROVE ControllerInv'
<1>1. Sound(Observed({f}, disk))
  BY DiskIsSound
<1>2. run' \in Runs /\ run'.stage = run.stage /\ run'.support = run.support /\ (run.aborted => run'.aborted)
  BY DEF Observe, ControllerInv, Typing, Runs
<1>3. disk' = disk /\ closed' = closed /\ Becomes(Observed({f}, disk))
  BY DEF Observe
<1>4. known' = [g \in Files |-> IF g \in {f} THEN disk[g] ELSE known[g]] /\ known[f] # disk[f]
  BY <1>3 DEF Observe, News, Becomes, Observed
<1>5. SupportHolds'
  BY <1>2, <1>3, <1>4, VersionNumbers DEF SupportHolds, ControllerInv, Typing, KnownWasThere
<1> QED BY <1>1, <1>2, <1>3, <1>5, SoundWorkKept DEF ControllerInv, Typing

LEMMA StartKeeps ==
  ASSUME ControllerInv, Start PROVE ControllerInv'
<1> DEFINE waiting == IF manual THEN KnownFiles ELSE pending
<1>1. /\ UNCHANGED <<disk, closed, known, cited>> /\ pending' = waiting
      /\ completed' = IF manual THEN Unset ELSE completed
  BY DEF Start, coordinator
<1>2. run' \in Runs /\ (run' = run \/ run'.stage = "capture")
  <2>1. CASE waiting = {}
    BY <2>1 DEF Start, ControllerInv, Typing
  <2>2. CASE waiting # {}
    <3>1. PICK ids \in kSubset(Min({Cardinality(waiting), BatchSize}), waiting) :
             run' = [Idle EXCEPT !.stage = "capture", !.ids = ids, !.captured = Only(ids, known)]
      BY <2>2 DEF Start
    <3>2. ids \subseteq Files
      BY <3>1 DEF kSubset, KnownFiles, ControllerInv, Typing
    <3>3. Only(ids, known) \in [Files -> Versions]
      BY VersionNumbers DEF Only, ControllerInv, Typing
    <3> QED BY <3>1, <3>2, <3>3, IdleType DEF Runs, Stages
  <2> QED BY <2>1, <2>2
<1>3. SupportHolds'
  BY <1>1, <1>2 DEF SupportHolds, ControllerInv
<1> QED BY <1>1, <1>2, <1>3, VersionNumbers
        DEF ControllerInv, Typing, KnownWasThere, NothingLost, KnownFiles, CitedIsKnown, Unset

LEMMA CaptureKeeps ==
  ASSUME ControllerInv, Capture PROVE ControllerInv'
<1>1. disk' = disk /\ closed' = closed
  BY DEF Capture
<1>2. Only(run.ids, disk) \in [Files -> Versions] /\ News(run.ids) \in SUBSET Files
  BY VersionNumbers DEF Only, News, ControllerInv, Typing, Runs
<1>3. run' \in Runs /\ run'.stage = "settle"
  BY <1>2 DEF Capture, ControllerInv, Typing, Runs, Stages
<1>4. \E w \in {Work, Observed(News(run.ids), disk)} : Becomes(w)
  BY DEF Capture
<1> QED BY <1>1, <1>2, <1>3, <1>4, WorkIsSound, DiskIsSound, OtherStage

LEMMA SettleKeeps ==
  ASSUME ControllerInv, Settle PROVE ControllerInv'
<1>1. UNCHANGED <<disk, closed>>
  BY DEF Settle
<1>2. CASE End(Work)
  BY <1>1, <1>2, WorkIsSound, EndKeeps
<1>3. CASE run' = [run EXCEPT !.stage = "analysis"] /\ Becomes(Work)
  <2>1. run' \in Runs /\ run'.stage = "analysis"
    BY <1>3 DEF ControllerInv, Typing, Runs, Stages
  <2> QED BY <1>1, <1>3, <2>1, WorkIsSound, OtherStage
<1> QED BY <1>2, <1>3 DEF Settle

\* An answer rests on the versions registered when it is made.
LEMMA AnalyzeKeeps ==
  ASSUME ControllerInv, Analyze PROVE ControllerInv'
<1>1. UNCHANGED <<disk, closed>>
  BY DEF Analyze
<1>2. CASE Dropped
  BY <1>1, <1>2, WorkIsSound, EndKeeps DEF Analyze
<1>3. CASE ~ Dropped
  <2>1. PICK putOff \in SUBSET run.ids, members \in SUBSET KnownFiles :
          \/ End(Finish(putOff, members))
          \/ \E others \in SUBSET (KnownFiles \ run.ids) :
                /\ run' = [run EXCEPT !.stage = "commit", !.putOff = putOff, !.members = members,
                                      !.support = Only(run.ids \union others, known)]
                /\ Becomes(Work) /\ UNCHANGED timer
    BY <1>3 DEF Analyze
  <2>2. putOff \in SUBSET Files /\ members \in SUBSET Files
    BY DEF KnownFiles, ControllerInv, Typing, Runs
  <2>3. CASE End(Finish(putOff, members))
    BY <1>1, <2>2, <2>3, FinishSound, EndKeeps
  <2>4. ASSUME NEW others \in SUBSET (KnownFiles \ run.ids), Becomes(Work),
               run' = [run EXCEPT !.stage = "commit", !.putOff = putOff, !.members = members,
                                  !.support = Only(run.ids \union others, known)]
        PROVE  ControllerInv'
    <3> DEFINE support == Only(run.ids \union others, known)
    <3>1. support \in [Files -> Versions] /\ \A f \in Files : support[f] # 0 => support[f] = known[f]
      BY VersionNumbers DEF Only, ControllerInv, Typing
    <3> HIDE DEF support
    <3>2. run' \in Runs /\ run'.support = support
      BY <2>2, <2>4, <3>1 DEF ControllerInv, Typing, Runs, Stages, support
    <3>3. known' = known
      BY <2>4 DEF Becomes, Work
    <3>4. SupportHolds'
      BY <3>1, <3>2, <3>3 DEF SupportHolds
    <3> QED BY <1>1, <2>4, <3>2, <3>4, WorkIsSound, SoundWorkKept DEF ControllerInv, Typing
  <2> QED BY <2>1, <2>3, <2>4
<1> QED BY <1>2, <1>3

(***************************************************************************)
(* The commit.  What it accepts has not moved since the analysis, so it is  *)
(* registered; what it has registered itself has not aborted the run, so it *)
(* is of none of the files judged.                                          *)
(***************************************************************************)
LEMMA CommitKeeps ==
  ASSUME ControllerInv, Commit PROVE ControllerInv'
<1> DEFINE files == {f \in Files : run.support[f] # 0}
           news == News(files)
           seen == Reread(files)
<1>1. UNCHANGED <<disk, closed>> /\ run.stage = "commit"
  BY DEF Commit
<1>2. news \in SUBSET Files /\ seen.news = news
  BY DEF News, Reread
<1>3. \/ Dropped /\ End(Work)
      \/ ~ Dropped /\ Aborts(news) /\ End(Observed(news, disk))
      \/ ~ Dropped /\ ~ Aborts(news) /\ End(Rejected(Observed(news, disk)))
      \/ /\ ~ Dropped /\ ~ seen.moved
         /\ End([Finish(run.putOff, run.members) EXCEPT
                    !.cited = [f \in Files |-> IF f \in files THEN run.support[f] ELSE @[f]]])
  BY <1>2 DEF Commit
<1>4. CASE End(Work)
  BY <1>1, <1>4, WorkIsSound, EndKeeps
<1>5. CASE End(Observed(news, disk))
  BY <1>1, <1>2, <1>5, DiskIsSound, EndKeeps
<1>6. CASE ~ Aborts(news) /\ End(Rejected(Observed(news, disk)))
  <2>1. Judged \intersect news = {}
    BY <1>1, <1>6 DEF Aborts, Judged, Same, News
  <2> QED BY <1>1, <1>2, <1>6, <2>1, RejectedSound, EndKeeps
<1>7. CASE /\ ~ Dropped /\ ~ seen.moved
           /\ End([Finish(run.putOff, run.members) EXCEPT
                      !.cited = [f \in Files |-> IF f \in files THEN run.support[f] ELSE @[f]]])
  <2> DEFINE v == Finish(run.putOff, run.members)
             w == [v EXCEPT !.cited = [f \in Files |-> IF f \in files THEN run.support[f] ELSE @[f]]]
  <2>1. Sound(v) /\ v.known = known
    BY FinishSound DEF ControllerInv, Typing, Runs
  <2>2. \A f \in files : disk[f] = run.support[f]
    BY <1>7 DEF Reread
  <2>3. ASSUME NEW f \in files PROVE run.support[f] = known[f]
    <3>1. run.support[f] = known[f] \/ run.support[f] < disk[f] \/ run.support[f] = Withdrawn
      BY <1>1, <1>7 DEF Dropped, SupportHolds, ControllerInv
    <3>2. disk[f] \in 1..MaxVersion /\ run.support[f] = disk[f]
      BY <2>2 DEF ControllerInv, Typing
    <3> QED BY <3>1, <3>2, VersionNumbers
  <2>4. /\ w.known = v.known /\ w.pending = v.pending /\ w.completed = v.completed
        /\ w.cited = [f \in Files |-> IF f \in files THEN run.support[f] ELSE v.cited[f]]
    BY DEF Finish, Work
  <2>5. End(w)
    BY <1>7
  <2>6. run.support \in [Files -> Versions]
    BY DEF ControllerInv, Typing, Runs
  <2> HIDE DEF v, w
  <2>7. Sound(w)
    BY <2>1, <2>3, <2>4, <2>6 DEF Sound
  <2> QED BY <1>1, <2>5, <2>7, EndKeeps
<1> QED BY <1>3, <1>4, <1>5, <1>6, <1>7

LEMMA FailsKeeps ==
  ASSUME ControllerInv, Fails PROVE ControllerInv'
<1>1. UNCHANGED <<disk, closed>>
  BY DEF Fails
<1>2. CASE Dropped
  BY <1>1, <1>2, WorkIsSound, EndKeeps DEF Fails
<1>3. CASE ~ Dropped
  BY <1>1, <1>3, FailedSound, EndKeeps DEF Fails
<1> QED BY <1>2, <1>3

\* An aborted run commits nothing.
LEMMA AbortType ==
  ASSUME ControllerInv, Abort
  PROVE  run' \in Runs /\ (run'.stage = "commit" => run'.aborted)
BY IdleType DEF Abort, ControllerInv, Typing, Runs

LEMMA ControlKeeps ==
  ASSUME ControllerInv, Block \/ Unblock \/ Request \/ Close PROVE ControllerInv'
<1>1. CASE Block
  BY <1>1, AbortType DEF Block, ControllerInv, Typing, KnownWasThere, SupportHolds, NothingLost,
     KnownFiles, CitedIsKnown
<1>2. CASE Unblock \/ Request
  BY <1>2 DEF Unblock, Request, ControllerInv, Typing, KnownWasThere, SupportHolds, NothingLost,
     KnownFiles, CitedIsKnown
<1>3. CASE Close
  BY <1>3, AbortType DEF Close, ControllerInv, Typing, KnownWasThere, SupportHolds, NothingLost,
     KnownFiles, CitedIsKnown
<1> QED BY <1>1, <1>2, <1>3

LEMMA CheckoutKeeps ==
  ASSUME ControllerInv, Checkout PROVE ControllerInv'
<1> DEFINE version == [f \in Files |-> Withdrawn]
           w == Observed(KnownFiles, version)
<1>1. Sound(w)
  BY ObservedSound, VersionNumbers DEF KnownFiles
<1>2. UNCHANGED <<disk, closed>> /\ Abort /\ Becomes(w)
  BY DEF Checkout
<1>3. SupportHolds'
  BY <1>2, AbortType DEF SupportHolds
<1> QED BY <1>1, <1>2, <1>3, AbortType, SoundWorkKept DEF ControllerInv, Typing

LEMMA EditKeeps ==
  ASSUME ControllerInv, NEW f \in Files, Edit(f) PROVE ControllerInv'
<1>1. /\ disk' = [disk EXCEPT ![f] = @ + 1] /\ disk[f] < MaxVersion
      /\ UNCHANGED <<known, pending, completed, cited, closed, run>>
  BY DEF Edit
<1>2. Typing'
  BY <1>1, VersionNumbers DEF ControllerInv, Typing
<1>3. \A g \in Files : disk[g] \in Nat /\ disk'[g] \in Nat /\ disk[g] <= disk'[g]
  BY <1>1, VersionNumbers DEF ControllerInv, Typing
<1>4. \A g \in Files : known[g] \in Nat /\ run.support[g] \in Nat
  BY VersionNumbers DEF ControllerInv, Typing, Runs
<1>5. KnownWasThere'
  BY <1>1, <1>3, <1>4, VersionNumbers DEF ControllerInv, KnownWasThere, Withdrawn
<1>6. SupportHolds'
  BY <1>1, <1>3, <1>4 DEF ControllerInv, SupportHolds, Withdrawn
<1> QED BY <1>1, <1>2, <1>5, <1>6 DEF ControllerInv, NothingLost, KnownFiles, CitedIsKnown

LEMMA StepKeeps == ControllerInv /\ [Next]_vars => ControllerInv'
<1> SUFFICES ASSUME ControllerInv, [Next]_vars PROVE ControllerInv'
  OBVIOUS
<1>1. CASE UNCHANGED vars
  BY <1>1 DEF vars, coordinator, ControllerInv, Typing, KnownWasThere, SupportHolds, NothingLost,
     KnownFiles, CitedIsKnown
<1>2. CASE Due
  BY <1>2, StartKeeps, CaptureKeeps, SettleKeeps, AnalyzeKeeps, CommitKeeps DEF Due
<1>3. CASE Fails \/ Checkout
  BY <1>3, FailsKeeps, CheckoutKeeps
<1>4. CASE Block \/ Unblock \/ Request \/ Close
  BY <1>4, ControlKeeps
<1>5. CASE \E f \in Files : Observe(f) \/ Edit(f)
  BY <1>5, ObserveKeeps, EditKeeps
<1> QED BY <1>1, <1>2, <1>3, <1>4, <1>5 DEF Next

\* The inductive invariant of the controller holds in every reachable state.
THEOREM ControllerCorrect == Spec => []ControllerInv
BY InitHolds, StepKeeps, PTL DEF Spec

\* Every known file has been judged in the version it has, or waits for it: whatever a run
\* books (controller.mjs:199, 218, 246), it books for the version it saw.
THEOREM NothingIsLost == Spec => []NothingLost
<1>1. ControllerInv => NothingLost
  BY DEF ControllerInv
<1> QED BY <1>1, ControllerCorrect, PTL

\* Committed boundaries rest on registered versions: the serialized reread of the commit
\* (pipeline.mjs:264-273) is enough, whatever was registered since the analysis.
THEOREM CitationsAreKnown == Spec => []CitedIsKnown
<1>1. ControllerInv => CitedIsKnown
  BY DEF ControllerInv
<1> QED BY <1>1, ControllerCorrect, PTL

-----------------------------------------------------------------------------
(***************************************************************************)
(* Boundaries: what is kept, and what the answer that waits would leave     *)
(* if nothing it rests on had changed.                                      *)
(***************************************************************************)

RoleType == [kind : Kinds \union {"none", "stale"}, gen : Nat]
LinkType == [support : {"none", "stale", "supported", "unknown"}, gens : Nat \X Nat]

BoundaryTypes ==
    /\ source \in [Sources -> [gen : Nat, status : {"missing", "read", "parsed"}]]
    /\ imported \subseteq Imports
    /\ roles \in [Sources -> RoleType]
    /\ links \in [Imports -> LinkType]

IsKnown(f) == roles[f].kind \in Kinds
IsSettled(p) == links[p].support \in {"supported", "unknown"}

RolesAreCurrent == \A f \in Sources : IsKnown(f) => IsCurrent(f, roles[f].gen)
ImportsAreParsed == \A p \in imported : source[p[1]].status = "parsed" /\ source[p[2]].status = "parsed"

\* The kind a file has when the answer is kept.
KindWith(f) == IF f \in DOMAIN job.roles THEN job.roles[f] ELSE roles[f].kind

\* A version that is guarded is the current one until the file changes.
GuardsHold ==
    /\ DOMAIN job.guards \subseteq Sources
    /\ \A f \in DOMAIN job.guards :
          /\ job.guards[f] \in Nat /\ job.guards[f] <= source[f].gen
          /\ source[f].gen = job.guards[f] => source[f].status = "parsed"

\* A membership of the answer joins an application and a component of the versions that are
\* guarded, and is the one that is kept, if there is one.
AnswersJoin ==
    /\ DOMAIN job.roles \subseteq DOMAIN job.guards
    /\ \A p \in DOMAIN job.links :
          /\ p \in Imports /\ p[1] \in DOMAIN job.guards /\ p[2] \in DOMAIN job.guards
          /\ job.links[p] \in {"supported", "unknown"}
          /\ IsSettled(p) => job.links[p] = links[p].support
          /\ source[p[1]].gen = job.guards[p[1]] /\ source[p[2]].gen = job.guards[p[2]] =>
                p \in imported /\ KindWith(p[1]) = "application" /\ KindWith(p[2]) = "component"

\* A pair that the answer makes one is in it, or among those that it leaves.
AnswersSettle ==
    /\ \A p \in job.left : p \in Imports => ~ IsSettled(p)
    /\ \A p \in imported :
          /\ Ends(p) \intersect DOMAIN job.roles # {}
          /\ \A e \in Ends(p) \intersect DOMAIN job.roles : source[e].gen = job.guards[e]
          /\ KindWith(p[1]) = "application" /\ KindWith(p[2]) = "component"
          => p \in DOMAIN job.links \union job.left

BoundaryInv ==
    /\ BoundaryTypes /\ RolesAreCurrent /\ ImportsAreParsed
    /\ LinksJoinRoles /\ PairsAreSettled
    /\ job # NoJob => GuardsHold /\ AnswersJoin /\ AnswersSettle

LEMMA EndsAre ==
    ASSUME NEW p \in Imports
    PROVE  p[1] \in Sources /\ p[2] \in Sources /\ Ends(p) = {p[1], p[2]}
BY BoundaryAssumption DEF Ends

LEMMA NoKinds == "none" \notin Kinds /\ "stale" \notin Kinds /\ NoRole.kind = "none" /\ StaleRole.kind = "stale"
                 /\ NoLink.support = "none" /\ StaleLink.support = "stale"
BY DEF Kinds, NoRole, StaleRole, NoLink, StaleLink

LEMMA NothingIsTyped ==
    {NoRole, StaleRole} \subseteq RoleType /\ {NoLink, StaleLink} \subseteq LinkType
BY DEF NoRole, StaleRole, NoLink, StaleLink, RoleType, LinkType

LEMMA CurrentIs ==
    ASSUME NEW f, NEW gen, IsCurrent(f, gen)
    PROVE  source[f].gen = gen /\ source[f].status = "parsed"
BY DEF IsCurrent

LEMMA BoundaryBegins == BoundaryInit => BoundaryInv
<1> SUFFICES ASSUME BoundaryInit PROVE BoundaryInv
  OBVIOUS
<1>1. BoundaryTypes
  BY NothingIsTyped DEF BoundaryInit, BoundaryTypes
<1>2. /\ \A f \in Sources : ~ IsKnown(f)
      /\ \A p \in Imports : ~ IsSettled(p)
  BY NoKinds DEF BoundaryInit, IsKnown, IsSettled
<1>3. RolesAreCurrent
  BY <1>2 DEF RolesAreCurrent
<1>4. ImportsAreParsed
  <2> SUFFICES ASSUME NEW p \in imported PROVE source[p[1]].status = "parsed" /\ source[p[2]].status = "parsed"
    BY DEF ImportsAreParsed
  <2>1. p \in Imports
    BY DEF BoundaryInit
  <2>2. QED
    BY <2>1, EndsAre DEF BoundaryInit
<1>5. LinksJoinRoles
  BY <1>2 DEF LinksJoinRoles, IsSettled
<1>6. PairsAreSettled
  <2>1. \A p \in Imports : ~ JoinsRoles(p)
    BY <1>2, EndsAre DEF JoinsRoles, IsKnown, Kinds
  <2>2. QED
    BY <2>1 DEF PairsAreSettled, BoundaryInit
<1>7. QED
  BY <1>1, <1>3, <1>4, <1>5, <1>6 DEF BoundaryInv, BoundaryInit

-----------------------------------------------------------------------------
(* Files. *)

\* What another version of a file leaves of the rest.
LEMMA RegistersEffect ==
    ASSUME BoundaryInv, NEW f \in Sources, NEW status \in {"read", "missing"}, Registers(f, status)
    PROVE  /\ BoundaryTypes' /\ job' = job /\ owed' = owed
           /\ source'[f].gen = source[f].gen + 1 /\ source'[f].status = status
           /\ \A e \in Sources \ {f} : source'[e] = source[e] /\ roles'[e] = roles[e]
           /\ ~ IsKnown(f)'
           /\ \A p \in Imports : IF f \in Ends(p) THEN ~ IsSettled(p)' ELSE links'[p] = links[p]
           /\ imported' = {p \in imported : f \notin Ends(p)}
<1>1. BoundaryTypes /\ source[f].gen \in Nat
  BY DEF BoundaryInv, BoundaryTypes
<1>2. /\ source' = [source EXCEPT ![f] = [gen |-> @.gen + 1, status |-> status]]
      /\ roles' = [roles EXCEPT ![f] = IF @ = NoRole THEN @ ELSE StaleRole]
      /\ links' = [p \in Imports |-> IF f \in Ends(p) /\ links[p] # NoLink THEN StaleLink ELSE links[p]]
      /\ imported' = {p \in imported : f \notin Ends(p)}
      /\ job' = job /\ owed' = owed
  BY DEF Registers, MakeStale
<1>3. /\ source' \in [Sources -> [gen : Nat, status : {"missing", "read", "parsed"}]]
      /\ source'[f].gen = source[f].gen + 1 /\ source'[f].status = status
      /\ \A e \in Sources \ {f} : source'[e] = source[e]
  <2> DEFINE s == [gen |-> source[f].gen + 1, status |-> status]
  <2>1. s \in [gen : Nat, status : {"missing", "read", "parsed"}] /\ s.gen = source[f].gen + 1 /\ s.status = status
    BY <1>1
  <2>2. source' = [source EXCEPT ![f] = s]
    BY <1>2
  <2> HIDE DEF s
  <2>3. QED
    BY <1>1, <2>1, <2>2 DEF BoundaryTypes
<1>4. /\ roles' \in [Sources -> RoleType] /\ links' \in [Imports -> LinkType] /\ imported' \subseteq Imports
      /\ \A e \in Sources \ {f} : roles'[e] = roles[e]
      /\ roles'[f] \in {NoRole, StaleRole}
      /\ \A p \in Imports : IF f \in Ends(p) THEN links'[p] \in {NoLink, StaleLink} ELSE links'[p] = links[p]
  BY <1>1, <1>2, NothingIsTyped DEF BoundaryTypes
<1>5. QED
  BY <1>2, <1>3, <1>4, NoKinds DEF BoundaryTypes, IsKnown, IsSettled

LEMMA RegistersKeeps ==
    ASSUME BoundaryInv, NEW f \in Sources, NEW status \in {"read", "missing"}, Registers(f, status)
    PROVE  BoundaryInv' /\ GoesForCause
<1>1. /\ BoundaryTypes' /\ job' = job /\ owed' = owed
      /\ source'[f].gen = source[f].gen + 1 /\ source'[f].status = status
      /\ \A e \in Sources \ {f} : source'[e] = source[e] /\ roles'[e] = roles[e]
      /\ ~ IsKnown(f)'
      /\ \A p \in Imports : IF f \in Ends(p) THEN ~ IsSettled(p)' ELSE links'[p] = links[p]
      /\ imported' = {p \in imported : f \notin Ends(p)}
  BY RegistersEffect
<1>2. BoundaryTypes /\ source[f].gen \in Nat /\ source'[f] # source[f]
  <2>1. BoundaryTypes /\ source[f].gen \in Nat
    BY DEF BoundaryInv, BoundaryTypes
  <2>2. QED
    BY <1>1, <2>1
<1>3. \A p \in imported' : p \in imported /\ p \in Imports /\ p[1] \in Sources \ {f} /\ p[2] \in Sources \ {f}
  BY <1>1, <1>2, EndsAre DEF BoundaryTypes
<1>4. RolesAreCurrent'
  BY <1>1 DEF BoundaryInv, RolesAreCurrent, IsKnown, IsCurrent
<1>5. ImportsAreParsed'
  BY <1>1, <1>3 DEF BoundaryInv, ImportsAreParsed
<1>6. LinksJoinRoles'
  <2> SUFFICES ASSUME NEW p \in Imports, IsSettled(p)'
               PROVE  (/\ JoinsRoles(p) /\ links[p].gens = <<roles[p[1]].gen, roles[p[2]].gen>>
                       /\ p \in imported /\ links[p].gens = Gens(p))'
    BY DEF LinksJoinRoles, IsSettled
  <2>1. f \notin Ends(p) /\ links'[p] = links[p] /\ IsSettled(p)
    BY <1>1 DEF IsSettled
  <2>2. p[1] \in Sources \ {f} /\ p[2] \in Sources \ {f}
    BY <2>1, EndsAre
  <2>3. QED
    BY <1>1, <2>1, <2>2 DEF BoundaryInv, LinksJoinRoles, IsSettled, JoinsRoles, Gens
<1>7. PairsAreSettled'
  <2> SUFFICES ASSUME NEW p \in imported', JoinsRoles(p)' PROVE IsSettled(p)' \/ p \in owed'
    BY DEF PairsAreSettled, IsSettled
  <2>1. JoinsRoles(p) /\ links'[p] = links[p]
    BY <1>1, <1>3 DEF JoinsRoles
  <2>2. QED
    BY <1>1, <1>3, <2>1 DEF BoundaryInv, PairsAreSettled, IsSettled
<1>8. ASSUME job # NoJob PROVE (GuardsHold /\ AnswersJoin /\ AnswersSettle)'
  <2>1. GuardsHold /\ AnswersJoin /\ AnswersSettle
    BY <1>8 DEF BoundaryInv
  <2>2. \A e \in DOMAIN job.guards : source'[e].gen = job.guards[e] => e # f /\ source'[e] = source[e]
    BY <1>1, <1>2, <2>1 DEF GuardsHold
  <2>3. GuardsHold'
    BY <1>1, <1>2, <2>1 DEF GuardsHold, BoundaryTypes
  <2>4. AnswersJoin'
    <3> SUFFICES ASSUME NEW p \in DOMAIN job.links
                 PROVE  /\ IsSettled(p)' => job.links[p] = links'[p].support
                        /\ source'[p[1]].gen = job.guards[p[1]] /\ source'[p[2]].gen = job.guards[p[2]] =>
                              p \in imported' /\ KindWith(p[1])' = "application" /\ KindWith(p[2])' = "component"
      BY <1>1, <2>1 DEF AnswersJoin
    <3>1. p \in Imports /\ p[1] \in DOMAIN job.guards /\ p[2] \in DOMAIN job.guards
      BY <2>1 DEF AnswersJoin
    <3>2. IsSettled(p)' => job.links[p] = links'[p].support
      BY <1>1, <2>1, <3>1 DEF AnswersJoin, IsSettled
    <3>3. ASSUME source'[p[1]].gen = job.guards[p[1]], source'[p[2]].gen = job.guards[p[2]]
          PROVE  p \in imported' /\ KindWith(p[1])' = "application" /\ KindWith(p[2])' = "component"
      <4>1. p[1] \in Sources \ {f} /\ p[2] \in Sources \ {f} /\ f \notin Ends(p)
        BY <2>2, <3>1, <3>3, EndsAre
      <4>2. p \in imported /\ KindWith(p[1]) = "application" /\ KindWith(p[2]) = "component"
        BY <1>1, <2>1, <3>3, <4>1 DEF AnswersJoin
      <4>3. QED
        BY <1>1, <4>1, <4>2 DEF KindWith
    <3>4. QED
      BY <3>2, <3>3
  <2>5. AnswersSettle'
    <3>1. \A p \in imported' : /\ \A e \in Ends(p) : source'[e] = source[e]
                               /\ KindWith(p[1])' = KindWith(p[1]) /\ KindWith(p[2])' = KindWith(p[2])
      BY <1>1, <1>3, EndsAre DEF KindWith
    <3>2. \A p \in Imports : ~ IsSettled(p) => ~ IsSettled(p)'
      BY <1>1 DEF IsSettled
    <3>3. QED
      BY <1>1, <1>3, <2>1, <3>1, <3>2 DEF AnswersSettle
  <2>6. QED
    BY <2>3, <2>4, <2>5
<1>9. GoesForCause
  <2>1. \A g \in Sources : roles'[g] # roles[g] => source'[g] # source[g]
    BY <1>1, <1>2
  <2>2. \A p \in Imports : links'[p] # links[p] => \E g \in Ends(p) : source'[g] # source[g]
    BY <1>1, <1>2
  <2>3. QED
    BY <2>1, <2>2 DEF GoesForCause
<1>10. QED
  BY <1>1, <1>4, <1>5, <1>6, <1>7, <1>8, <1>9 DEF BoundaryInv

LEMMA ParsesKeeps ==
    ASSUME BoundaryInv, NEW f \in Sources, Parses(f)
    PROVE  BoundaryInv' /\ GoesForCause
<1>1. /\ source[f].status = "read" /\ source' = [source EXCEPT ![f].status = "parsed"]
      /\ UNCHANGED <<roles, links, job, owed>>
  BY DEF Parses
<1>2. PICK found \in SUBSET {p \in Imports : f \in Ends(p) /\ \A e \in Ends(p) : source'[e].status = "parsed"} :
         imported' = imported \union found
  BY DEF Parses
<1>3. BoundaryTypes
  BY DEF BoundaryInv
<1>4. /\ source' \in [Sources -> [gen : Nat, status : {"missing", "read", "parsed"}]]
      /\ source'[f].status = "parsed"
      /\ \A e \in Sources : source'[e].gen = source[e].gen
      /\ \A e \in Sources \ {f} : source'[e] = source[e]
  <2> DEFINE s == [source[f] EXCEPT !.status = "parsed"]
  <2>1. /\ source \in [Sources -> [gen : Nat, status : {"missing", "read", "parsed"}]]
        /\ s \in [gen : Nat, status : {"missing", "read", "parsed"}] /\ s.gen = source[f].gen /\ s.status = "parsed"
    BY <1>3 DEF BoundaryTypes
  <2>2. source' = [source EXCEPT ![f] = s]
    BY <1>1
  <2> HIDE DEF s
  <2>3. QED
    BY <2>1, <2>2
<1>5. BoundaryTypes'
  BY <1>1, <1>2, <1>3, <1>4 DEF BoundaryTypes
<1>6. ~ IsKnown(f)
  <2>1. IsKnown(f) => IsCurrent(f, roles[f].gen)
    BY DEF BoundaryInv, RolesAreCurrent
  <2>2. QED
    BY <1>1, <2>1, CurrentIs
<1>7. RolesAreCurrent'
  BY <1>1, <1>4, <1>6 DEF BoundaryInv, RolesAreCurrent, IsKnown, IsCurrent
<1>8. ImportsAreParsed'
  <2> SUFFICES ASSUME NEW p \in imported' PROVE source'[p[1]].status = "parsed" /\ source'[p[2]].status = "parsed"
    BY DEF ImportsAreParsed
  <2>1. CASE p \in imported
    <3>1. p[1] \in Sources /\ p[2] \in Sources
      BY <1>3, <2>1, EndsAre DEF BoundaryTypes
    <3>2. QED
      BY <1>4, <2>1, <3>1 DEF BoundaryInv, ImportsAreParsed
  <2>2. CASE p \in found
    BY <1>2, <2>2, EndsAre
  <2>3. QED
    BY <1>2, <2>1, <2>2
<1>9. LinksJoinRoles'
  BY <1>1, <1>2, <1>4, EndsAre DEF BoundaryInv, LinksJoinRoles, JoinsRoles, Gens
<1>10. \A p \in imported' \ imported : p \in Imports /\ f \in Ends(p)
  BY <1>2
<1>11. PairsAreSettled'
  <2>1. \A p \in imported' \ imported : ~ JoinsRoles(p)
    BY <1>6, <1>10, EndsAre DEF JoinsRoles, IsKnown, Kinds
  <2>2. QED
    BY <1>1, <2>1 DEF BoundaryInv, PairsAreSettled, JoinsRoles
<1>12. ASSUME job # NoJob PROVE (GuardsHold /\ AnswersJoin /\ AnswersSettle)'
  <2>1. GuardsHold /\ AnswersJoin /\ AnswersSettle
    BY <1>12 DEF BoundaryInv
  <2>2. GuardsHold'
    BY <1>1, <1>4, <2>1 DEF GuardsHold
  <2>3. AnswersJoin'
    BY <1>1, <1>2, <1>4, <2>1 DEF GuardsHold, AnswersJoin, IsSettled, KindWith
  <2>4. AnswersSettle'
    <3>1. \A p \in imported' \ imported :
             ~ /\ \A e \in Ends(p) \intersect DOMAIN job.roles : source[e].gen = job.guards[e]
               /\ KindWith(p[1]) = "application" /\ KindWith(p[2]) = "component"
      <4> SUFFICES ASSUME NEW p \in imported' \ imported,
                          \A e \in Ends(p) \intersect DOMAIN job.roles : source[e].gen = job.guards[e]
                   PROVE  ~ (KindWith(p[1]) = "application" /\ KindWith(p[2]) = "component")
        OBVIOUS
      <4>1. p \in Imports /\ f \in {p[1], p[2]} /\ Ends(p) = {p[1], p[2]}
        BY <1>10, EndsAre
      <4>2. f \notin DOMAIN job.roles
        BY <1>1, <2>1, <4>1 DEF GuardsHold, AnswersJoin
      <4>3. KindWith(f) \notin Kinds
        BY <1>6, <4>2 DEF KindWith, IsKnown
      <4>4. QED
        BY <4>1, <4>3 DEF Kinds
    <3>2. \A p \in imported' : \A e \in Ends(p) : source'[e].gen = source[e].gen
      BY <1>4, <1>5, EndsAre DEF BoundaryTypes
    <3>3. \A p \in Imports : IsSettled(p)' = IsSettled(p)
      BY <1>1 DEF IsSettled
    <3>4. \A g : KindWith(g)' = KindWith(g)
      BY <1>1 DEF KindWith
    <3>5. QED
      BY <1>1, <2>1, <3>1, <3>2, <3>3, <3>4 DEF AnswersSettle
  <2>5. QED
    BY <2>2, <2>3, <2>4
<1>13. GoesForCause
  BY <1>1 DEF GoesForCause
<1>14. QED
  BY <1>1, <1>5, <1>7, <1>8, <1>9, <1>11, <1>12, <1>13 DEF BoundaryInv

-----------------------------------------------------------------------------
(* An analysis. *)

\* An answer, in the terms of the snapshot it is made on.
Answering(answer, missing, processed, pairs) ==
    /\ \A f \in missing : source[f].status = "missing"
    /\ \A f \in processed : source[f].status = "parsed" /\ answer[f] \in Kinds \union {"unknown"}
    /\ \A f : f \in DOMAIN answer /\ answer[f] # "failed" <=> f \in processed
    /\ \A p \in imported :
          p \in pairs <=>
             /\ KindAfter(p[1], answer, missing) = "application"
             /\ KindAfter(p[2], answer, missing) = "component"
             /\ Ends(p) \intersect processed # {}
    /\ DOMAIN job'.roles = processed
    /\ \A f \in processed : job'.roles[f] = answer[f]
    /\ DOMAIN job'.links \subseteq pairs
    /\ \A p \in DOMAIN job'.links :
          /\ priorMembership(p) => job'.links[p] = links[p].support
          /\ ~ priorMembership(p) => job'.links[p] \in {"supported", "unknown"}
          /\ Ends(p) \subseteq DOMAIN job'.guards
    /\ processed \subseteq DOMAIN job'.guards
    /\ DOMAIN job'.guards \subseteq processed \union UNION {Ends(p) : p \in pairs}
    /\ \A f \in DOMAIN job'.guards : job'.guards[f] = source[f].gen
    /\ job'.left = pairs \ DOMAIN job'.links
    /\ \A p \in pairs : priorMembership(p) => p \in DOMAIN job'.links

LEMMA AnalysisEffect ==
    ASSUME BoundaryTypes, Analysis
    PROVE  \E answer : \E missing \in SUBSET Sources, processed \in SUBSET Sources, pairs \in SUBSET imported :
              Answering(answer, missing, processed, pairs)
<1>1. PICK batch \in SUBSET Sources \ {{}} : \E taken \in SUBSET batch : Analyzes(batch, taken)
  BY DEF Analysis
<1>2. PICK taken \in SUBSET batch : Analyzes(batch, taken)
  BY <1>1
<1> DEFINE missing == {f \in taken : source[f].status = "missing"}
           asked == {f \in taken : source[f].status = "parsed"}
<1>3. PICK answer \in [asked -> Answers] :
        \E processed \in {{f \in asked : answer[f] # "failed"}} :
        \E pairs \in {membershipPairs([f \in Sources |-> KindAfter(f, answer, missing)], processed)} :
        \E kept \in {{p \in pairs : priorMembership(p)}} :
        \E checked \in kSubset(Min({MaxChecks, Cardinality(pairs \ kept)}), pairs \ kept) :
        \E answered \in {checked, {}}, accepted \in SUBSET checked :
            /\ accepted \subseteq answered
            /\ job' = [captured |-> [f \in batch |-> source[f].gen],
                       roles |-> [f \in processed |-> answer[f]],
                       links |-> [p \in kept \union answered |->
                                    IF p \in kept THEN links[p].support
                                    ELSE IF p \in accepted THEN "supported" ELSE "unknown"],
                       guards |-> [f \in processed \union UNION {Ends(p) : p \in kept \union checked} |-> source[f].gen],
                       missing |-> missing,
                       left |-> pairs \ (kept \union answered)]
  BY <1>2 DEF Analyzes
<1> DEFINE Answered(processed, pairs, kept, checked, answered, accepted) ==
            /\ accepted \subseteq answered
            /\ job' = [captured |-> [f \in batch |-> source[f].gen],
                       roles |-> [f \in processed |-> answer[f]],
                       links |-> [p \in kept \union answered |->
                                    IF p \in kept THEN links[p].support
                                    ELSE IF p \in accepted THEN "supported" ELSE "unknown"],
                       guards |-> [f \in processed \union UNION {Ends(p) : p \in kept \union checked} |-> source[f].gen],
                       missing |-> missing,
                       left |-> pairs \ (kept \union answered)]
           kind == [f \in Sources |-> KindAfter(f, answer, missing)]
           Chosen(processed, pairs, kept) ==
               \E checked \in kSubset(Min({MaxChecks, Cardinality(pairs \ kept)}), pairs \ kept) :
               \E answered \in {checked, {}}, accepted \in SUBSET checked :
                  Answered(processed, pairs, kept, checked, answered, accepted)
<1>4. PICK processed \in {{f \in asked : answer[f] # "failed"}} :
        \E pairs \in {membershipPairs(kind, processed)} :
        \E kept \in {{p \in pairs : priorMembership(p)}} : Chosen(processed, pairs, kept)
  BY <1>3
<1>5. PICK pairs \in {membershipPairs(kind, processed)} :
        \E kept \in {{p \in pairs : priorMembership(p)}} : Chosen(processed, pairs, kept)
  BY <1>4
<1>6. PICK kept \in {{p \in pairs : priorMembership(p)}} : Chosen(processed, pairs, kept)
  BY <1>5
<1>7. \E checked \in SUBSET (pairs \ kept) : \E answered \in {checked, {}} : \E accepted \in SUBSET checked :
         Answered(processed, pairs, kept, checked, answered, accepted)
  <2> HIDE DEF Answered
  <2>1. QED
    BY <1>6 DEF kSubset
<1>8. PICK checked \in SUBSET (pairs \ kept) : \E answered \in {checked, {}} : \E accepted \in SUBSET checked :
         Answered(processed, pairs, kept, checked, answered, accepted)
  BY <1>7
<1>9. PICK answered \in {checked, {}} : \E accepted \in SUBSET checked : Answered(processed, pairs, kept, checked, answered, accepted)
  BY <1>8
<1>10. PICK accepted \in SUBSET checked : Answered(processed, pairs, kept, checked, answered, accepted)
  BY <1>9
<1>11. /\ missing \in SUBSET Sources /\ processed \in SUBSET Sources /\ pairs \in SUBSET imported
      /\ \A f \in missing : source[f].status = "missing"
  BY <1>1, <1>2, <1>4, <1>5 DEF membershipPairs
<1>12. \A f \in processed : source[f].status = "parsed" /\ answer[f] \in Kinds \union {"unknown"}
  BY <1>3, <1>4 DEF Answers
<1>13. \A f : f \in DOMAIN answer /\ answer[f] # "failed" <=> f \in processed
  BY <1>3, <1>4
<1> HIDE DEF missing, kind, Answered
<1>14. \A p \in imported :
         p \in pairs <=> kind[p[1]] = "application" /\ kind[p[2]] = "component" /\ Ends(p) \intersect processed # {}
  BY <1>5 DEF membershipPairs
<1>15. \A p \in imported : kind[p[1]] = KindAfter(p[1], answer, missing) /\ kind[p[2]] = KindAfter(p[2], answer, missing)
  BY EndsAre DEF kind, BoundaryTypes
<1>16. kept \subseteq pairs /\ \A p \in pairs : p \in kept <=> priorMembership(p)
  BY <1>6
<1>17. /\ job'.roles = [f \in processed |-> answer[f]]
       /\ job'.links = [p \in kept \union answered |->
                                 IF p \in kept THEN links[p].support
                                 ELSE IF p \in accepted THEN "supported" ELSE "unknown"]
       /\ job'.guards = [f \in processed \union UNION {Ends(p) : p \in kept \union checked} |-> source[f].gen]
       /\ job'.left = pairs \ (kept \union answered)
  BY <1>10 DEF Answered
<1>18. answered \subseteq checked /\ checked \subseteq pairs
  BY <1>8, <1>9
<1>19. /\ DOMAIN job'.roles = processed
       /\ \A f \in processed : job'.roles[f] = answer[f]
       /\ DOMAIN job'.links = kept \union answered
       /\ \A p \in DOMAIN job'.links :
             job'.links[p] = IF p \in kept THEN links[p].support
                             ELSE IF p \in accepted THEN "supported" ELSE "unknown"
       /\ DOMAIN job'.guards = processed \union UNION {Ends(p) : p \in kept \union checked}
       /\ \A f \in DOMAIN job'.guards : job'.guards[f] = source[f].gen
  BY <1>17
<1>20. QED
  <2>1. \A p \in imported :
           p \in pairs <=> /\ KindAfter(p[1], answer, missing) = "application"
                          /\ KindAfter(p[2], answer, missing) = "component"
                          /\ Ends(p) \intersect processed # {}
    BY <1>14, <1>15
  <2>2. /\ DOMAIN job'.links \subseteq pairs /\ job'.left = pairs \ DOMAIN job'.links
        /\ \A p \in pairs : priorMembership(p) => p \in DOMAIN job'.links
    BY <1>16, <1>17, <1>18, <1>19
  <2>3. \A p \in DOMAIN job'.links :
           /\ priorMembership(p) => job'.links[p] = links[p].support
           /\ ~ priorMembership(p) => job'.links[p] \in {"supported", "unknown"}
    BY <1>16, <1>18, <1>19
  <2>4. \A p \in DOMAIN job'.links : Ends(p) \subseteq DOMAIN job'.guards
    BY <1>18, <1>19
  <2>5. DOMAIN job'.guards \subseteq processed \union UNION {Ends(p) : p \in pairs}
    BY <1>16, <1>18, <1>19
  <2>6. Answering(answer, missing, processed, pairs)
    BY <1>11, <1>12, <1>13, <1>19, <2>1, <2>2, <2>3, <2>4, <2>5 DEF Answering
  <2>7. QED
    BY <1>11, <2>6

LEMMA AnalysisKeeps ==
    ASSUME BoundaryInv, Analysis
    PROVE  BoundaryInv' /\ GoesForCause
<1>1. UNCHANGED <<source, imported, roles, links, legacy, owed>> /\ BoundaryTypes
  BY DEF Analysis, BoundaryInv
<1>2. PICK answer : \E missing \in SUBSET Sources, processed \in SUBSET Sources, pairs \in SUBSET imported :
              Answering(answer, missing, processed, pairs)
  BY <1>1, AnalysisEffect
<1>3. PICK missing \in SUBSET Sources, processed \in SUBSET Sources, pairs \in SUBSET imported :
              Answering(answer, missing, processed, pairs)
  BY <1>2
<1>4. ImportsAreParsed /\ \A p \in imported : p \in Imports /\ p[1] \in Sources /\ p[2] \in Sources /\ Ends(p) = {p[1], p[2]}
  BY <1>1, EndsAre DEF BoundaryInv, BoundaryTypes
<1>5. \A f \in Sources : KindWith(f)' = IF f \in processed THEN answer[f] ELSE roles[f].kind
  BY <1>1, <1>3 DEF KindWith, Answering
<1>6. ASSUME NEW f \in Sources, KindAfter(f, answer, missing) \in Kinds
      PROVE  KindWith(f)' = KindAfter(f, answer, missing)
  BY <1>3, <1>5, <1>6 DEF KindAfter, Answering, Kinds
<1>7. ASSUME NEW f \in Sources, KindWith(f)' \in Kinds, source[f].status = "parsed"
      PROVE  KindAfter(f, answer, missing) = KindWith(f)'
  <2>1. CASE f \in processed
    BY <1>3, <1>5, <2>1 DEF KindAfter, Answering
  <2>2. CASE f \notin processed
    <3>1. KindWith(f)' = roles[f].kind /\ ~ (f \in DOMAIN answer /\ answer[f] # "failed") /\ f \notin missing
      BY <1>3, <1>5, <1>7, <2>2 DEF Answering
    <3>2. f \in priorRoles
      BY <1>7, <3>1 DEF BoundaryInv, RolesAreCurrent, IsKnown, priorRoles
    <3>3. QED
      BY <3>1, <3>2 DEF KindAfter
  <2>3. QED
    BY <2>1, <2>2
<1>8. \A p \in imported : IsSettled(p) => priorMembership(p)
  BY <1>4 DEF BoundaryInv, LinksJoinRoles, IsSettled, priorMembership
<1>9. GuardsHold'
  <2>1. \A f \in processed \union UNION {Ends(p) : p \in pairs} : f \in Sources /\ source[f].status = "parsed"
    BY <1>3, <1>4 DEF Answering, ImportsAreParsed
  <2>2. /\ DOMAIN job'.guards \subseteq processed \union UNION {Ends(p) : p \in pairs}
        /\ \A f \in DOMAIN job'.guards : job'.guards[f] = source[f].gen
    BY <1>3 DEF Answering
  <2>3. \A f \in Sources : source[f].gen \in Nat
    BY <1>1 DEF BoundaryTypes
  <2>4. QED
    BY <1>1, <2>1, <2>2, <2>3 DEF GuardsHold
<1>10. AnswersJoin'
  <2>1. DOMAIN job'.roles \subseteq DOMAIN job'.guards
    BY <1>3 DEF Answering
  <2>2. ASSUME NEW p \in DOMAIN job'.links
        PROVE  /\ p \in Imports /\ p[1] \in DOMAIN job'.guards /\ p[2] \in DOMAIN job'.guards
               /\ job'.links[p] \in {"supported", "unknown"}
               /\ IsSettled(p)' => job'.links[p] = links'[p].support
               /\ p \in imported' /\ KindWith(p[1])' = "application" /\ KindWith(p[2])' = "component"
    <3>1. p \in imported /\ p \in pairs
      BY <1>3 DEF Answering
    <3>2. p \in Imports /\ p[1] \in DOMAIN job'.guards /\ p[2] \in DOMAIN job'.guards
      BY <1>3, <1>4, <3>1 DEF Answering
    <3>3. job'.links[p] \in {"supported", "unknown"}
      BY <1>3 DEF Answering, priorMembership
    <3>4. IsSettled(p)' => job'.links[p] = links'[p].support
      BY <1>1, <1>3, <1>8, <3>1 DEF Answering, IsSettled
    <3>5. KindAfter(p[1], answer, missing) = "application" /\ KindAfter(p[2], answer, missing) = "component"
      BY <1>3, <3>1 DEF Answering
    <3>6. QED
      BY <1>1, <1>4, <1>6, <3>1, <3>2, <3>3, <3>4, <3>5 DEF Kinds
  <2>3. QED
    BY <2>1, <2>2 DEF AnswersJoin
<1>11. AnswersSettle'
  <2>1. \A p \in job'.left : ~ IsSettled(p)'
    BY <1>1, <1>3, <1>8 DEF Answering, IsSettled
  <2>2. ASSUME NEW p \in imported, Ends(p) \intersect DOMAIN job'.roles # {},
               KindWith(p[1])' = "application", KindWith(p[2])' = "component"
        PROVE  p \in DOMAIN job'.links \union job'.left
    <3>1. KindAfter(p[1], answer, missing) = "application" /\ KindAfter(p[2], answer, missing) = "component"
      BY <1>4, <1>7, <2>2 DEF ImportsAreParsed, Kinds
    <3>2. p \in pairs
      BY <1>3, <2>2, <3>1 DEF Answering
    <3>3. QED
      BY <1>3, <3>2 DEF Answering
  <2>3. QED
    BY <1>1, <2>1, <2>2 DEF AnswersSettle
<1>12. (BoundaryTypes /\ RolesAreCurrent /\ ImportsAreParsed /\ LinksJoinRoles /\ PairsAreSettled)'
  BY <1>1 DEF BoundaryInv, BoundaryTypes, RolesAreCurrent, ImportsAreParsed, LinksJoinRoles, PairsAreSettled,
              IsKnown, IsCurrent, JoinsRoles, Gens
<1>13. GoesForCause
  BY <1>1 DEF GoesForCause
<1>14. QED
  BY <1>9, <1>10, <1>11, <1>12, <1>13 DEF BoundaryInv

-----------------------------------------------------------------------------
(* The commit. *)

\* An answer of which nothing has changed is kept as a whole.
LEMMA KeptAnswer ==
    ASSUME BoundaryInv, job # NoJob, Unchanged, Cleared(NewRoles, NewLinks), job' = NoJob,
           UNCHANGED <<source, imported>>, owed' = (owed \ Touched(DOMAIN job.roles)) \union job.left
    PROVE  BoundaryInv' /\ GoesForCause
<1>1. BoundaryTypes /\ GuardsHold /\ AnswersJoin /\ AnswersSettle /\ ImportsAreParsed
  BY DEF BoundaryInv
<1>2. \A f \in DOMAIN job.guards : IsCurrent(f, job.guards[f]) /\ source[f].gen = job.guards[f] /\ f \in Sources
  BY <1>1 DEF Unchanged, IsCurrent, GuardsHold
<1>3. \A p \in Imports : p[1] \in Sources /\ p[2] \in Sources /\ Ends(p) = {p[1], p[2]}
  BY EndsAre
<1>4. /\ \A f \in Sources :
            roles'[f] = IF f \in job.missing THEN NoRole
                        ELSE IF f \notin DOMAIN job.roles THEN roles[f]
                        ELSE IF job.roles[f] \in Kinds THEN [kind |-> job.roles[f], gen |-> job.guards[f]] ELSE NoRole
      /\ \A p \in Imports :
            links'[p] = IF p \in Touched(job.missing) THEN NoLink
                        ELSE IF p \in DOMAIN job.links
                        THEN [support |-> job.links[p], gens |-> <<job.guards[p[1]], job.guards[p[2]]>>]
                        ELSE IF p \in Touched(DOMAIN job.roles) THEN NoLink ELSE links[p]
      /\ roles' = [f \in Sources |-> roles'[f]] /\ links' = [p \in Imports |-> links'[p]]
  BY DEF Cleared, NewRoles, NewLinks
<1>5. \A f \in job.missing : f \in Sources => source[f].status = "missing"
  BY DEF Unchanged
<1>6. \A p \in imported : /\ p \in Imports /\ p[1] \notin job.missing /\ p[2] \notin job.missing
                          /\ p \notin Touched(job.missing)
  BY <1>1, <1>3, <1>5 DEF BoundaryTypes, ImportsAreParsed, Touched
<1>7. ASSUME NEW f \in Sources, f \notin job.missing, KindWith(f) \in Kinds \/ IsKnown(f)'
      PROVE  roles'[f].kind = KindWith(f)
  BY <1>4, <1>7, NoKinds DEF KindWith, IsKnown
<1>8. BoundaryTypes'
  <2>1. \A f \in Sources : roles'[f] \in RoleType
    BY <1>1, <1>4, NothingIsTyped DEF BoundaryTypes, GuardsHold, AnswersJoin, RoleType
  <2>2. \A p \in Imports : links'[p] \in LinkType
    BY <1>1, <1>4, NothingIsTyped DEF BoundaryTypes, GuardsHold, AnswersJoin, LinkType
  <2>3. QED
    BY <1>1, <1>4, <2>1, <2>2 DEF BoundaryTypes
<1>9. RolesAreCurrent'
  <2> SUFFICES ASSUME NEW f \in Sources, IsKnown(f)' PROVE IsCurrent(f, roles[f].gen)'
    BY DEF RolesAreCurrent
  <2>1. f \notin job.missing
    BY <1>4, NoKinds DEF IsKnown
  <2>2. CASE f \in DOMAIN job.roles
    <3>1. job.roles[f] \in Kinds /\ roles'[f] = [kind |-> job.roles[f], gen |-> job.guards[f]]
      BY <1>4, <2>1, <2>2, NoKinds DEF IsKnown
    <3>2. f \in DOMAIN job.guards /\ roles'[f].gen = job.guards[f]
      BY <1>1, <2>2, <3>1 DEF AnswersJoin
    <3>3. QED
      BY <1>2, <3>2 DEF IsCurrent
  <2>3. CASE f \notin DOMAIN job.roles
    <3>1. roles'[f] = roles[f] /\ IsKnown(f)
      BY <1>4, <2>1, <2>3 DEF IsKnown
    <3>2. QED
      BY <3>1 DEF BoundaryInv, RolesAreCurrent, IsCurrent
  <2>4. QED
    BY <2>2, <2>3
<1>10. ImportsAreParsed'
  BY <1>1 DEF ImportsAreParsed
<1>11. ASSUME NEW p \in Imports, p \in DOMAIN job.links
       PROVE  /\ p \in imported /\ KindWith(p[1]) = "application" /\ KindWith(p[2]) = "component"
              /\ links'[p].support = job.links[p] /\ links'[p].gens = Gens(p)
              /\ IsSettled(p)'
              /\ IsSettled(p) => links'[p].support = links[p].support
  <2>1. /\ p[1] \in DOMAIN job.guards /\ p[2] \in DOMAIN job.guards
        /\ p \in imported /\ KindWith(p[1]) = "application" /\ KindWith(p[2]) = "component"
        /\ job.links[p] \in {"supported", "unknown"}
        /\ IsSettled(p) => job.links[p] = links[p].support
    BY <1>1, <1>2, <1>11 DEF AnswersJoin
  <2>2. links'[p] = [support |-> job.links[p], gens |-> <<job.guards[p[1]], job.guards[p[2]]>>]
    BY <1>4, <1>6, <1>11, <2>1
  <2>3. <<job.guards[p[1]], job.guards[p[2]]>> = Gens(p)
    BY <1>2, <2>1 DEF Gens
  <2>4. QED
    BY <2>1, <2>2, <2>3 DEF IsSettled
<1>12. ASSUME NEW p \in Imports, p \notin DOMAIN job.links, IsSettled(p)'
       PROVE  links'[p] = links[p] /\ p \notin Touched(DOMAIN job.roles) /\ p \notin Touched(job.missing)
  BY <1>4, <1>12, NoKinds DEF IsSettled
<1>13. LinksJoinRoles'
  <2> SUFFICES ASSUME NEW p \in Imports, IsSettled(p)'
               PROVE  (/\ JoinsRoles(p) /\ links[p].gens = <<roles[p[1]].gen, roles[p[2]].gen>>
                       /\ p \in imported /\ links[p].gens = Gens(p))'
    BY DEF LinksJoinRoles, IsSettled
  <2>1. CASE p \in DOMAIN job.links
    <3>1. /\ p \in imported /\ KindWith(p[1]) = "application" /\ KindWith(p[2]) = "component"
          /\ links'[p].gens = Gens(p)
      BY <1>11, <2>1
    <3>2. JoinsRoles(p)' /\ IsKnown(p[1])' /\ IsKnown(p[2])'
      BY <1>3, <1>6, <1>7, <3>1 DEF JoinsRoles, IsKnown, Kinds
    <3>3. roles'[p[1]].gen = source[p[1]].gen /\ roles'[p[2]].gen = source[p[2]].gen
      <4>1. \A f \in Sources : IsKnown(f)' => IsCurrent(f, roles'[f].gen)
        BY <1>9 DEF RolesAreCurrent, IsCurrent
      <4>2. \A f \in Sources : IsKnown(f)' => roles'[f].gen = source[f].gen
        BY <4>1, CurrentIs
      <4>3. QED
        BY <1>3, <3>2, <4>2
    <3>4. QED
      BY <3>1, <3>2, <3>3 DEF Gens
  <2>2. CASE p \notin DOMAIN job.links
    <3>1. links'[p] = links[p] /\ p \notin Touched(DOMAIN job.roles) /\ p \notin Touched(job.missing)
      BY <1>12, <2>2
    <3>2. roles'[p[1]] = roles[p[1]] /\ roles'[p[2]] = roles[p[2]]
      BY <1>3, <1>4, <3>1 DEF Touched
    <3>3. QED
      BY <3>1, <3>2 DEF BoundaryInv, LinksJoinRoles, JoinsRoles, IsSettled, Gens
  <2>3. QED
    BY <2>1, <2>2
\* A pair that is touched by the answer and joins what it leaves is in it, or is left.
<1>14. ASSUME NEW p \in imported, JoinsRoles(p)', p \in Touched(DOMAIN job.roles)
       PROVE  p \in DOMAIN job.links \union job.left
  <2>1. KindWith(p[1]) = "application" /\ KindWith(p[2]) = "component"
    BY <1>3, <1>6, <1>7, <1>14 DEF JoinsRoles, IsKnown, Kinds
  <2>2. Ends(p) \intersect DOMAIN job.roles # {}
    BY <1>14 DEF Touched
  <2>3. \A e \in Ends(p) \intersect DOMAIN job.roles : source[e].gen = job.guards[e]
    BY <1>1, <1>2 DEF AnswersJoin
  <2>4. QED
    BY <1>1, <2>1, <2>2, <2>3 DEF AnswersSettle
<1>15. PairsAreSettled'
  <2> SUFFICES ASSUME NEW p \in imported, JoinsRoles(p)' PROVE IsSettled(p)' \/ p \in owed'
    BY DEF PairsAreSettled, IsSettled
  <2>1. CASE p \in DOMAIN job.links
    BY <1>6, <1>11, <2>1
  <2>2. CASE p \notin DOMAIN job.links /\ p \in Touched(DOMAIN job.roles)
    BY <1>14, <2>2
  <2>3. CASE p \notin DOMAIN job.links /\ p \notin Touched(DOMAIN job.roles)
    <3>1. links'[p] = links[p] /\ roles'[p[1]] = roles[p[1]] /\ roles'[p[2]] = roles[p[2]]
      BY <1>3, <1>4, <1>6, <2>3 DEF Touched
    <3>2. IsSettled(p) \/ p \in owed
      BY <3>1 DEF BoundaryInv, PairsAreSettled, IsSettled, JoinsRoles
    <3>3. QED
      BY <2>3, <3>1, <3>2 DEF IsSettled
  <2>4. QED
    BY <2>1, <2>2, <2>3
<1>16. GoesForCause
  <2>1. \A f \in Sources : roles[f].kind \in Kinds /\ roles'[f] # roles[f] => f \in DOMAIN job.roles
    <3> SUFFICES ASSUME NEW f \in Sources, IsKnown(f), f \notin DOMAIN job.roles PROVE roles'[f] = roles[f]
      BY DEF IsKnown
    <3>1. source[f].status = "parsed"
      <4>1. IsCurrent(f, roles[f].gen)
        BY DEF BoundaryInv, RolesAreCurrent
      <4>2. QED
        BY <4>1, CurrentIs
    <3>2. QED
      BY <1>4, <1>5, <3>1
  <2>2. ASSUME NEW p \in Imports, IsSettled(p), JoinsRoles(p)' PROVE links'[p] = links[p]
    <3>1. p \in imported /\ links[p].gens = Gens(p)
      BY <2>2 DEF BoundaryInv, LinksJoinRoles, IsSettled
    <3>2. CASE p \in DOMAIN job.links
      <4>1. links'[p] \in LinkType /\ links[p] \in LinkType
        BY <1>1, <1>8 DEF BoundaryTypes
      <4>2. links'[p].support = links[p].support /\ links'[p].gens = links[p].gens
        BY <1>11, <2>2, <3>1, <3>2
      <4>3. QED
        BY <4>1, <4>2 DEF LinkType
    <3>3. CASE p \notin DOMAIN job.links
      <4>1. p \notin Touched(DOMAIN job.roles)
        BY <1>1, <1>14, <2>2, <3>1, <3>3 DEF AnswersSettle
      <4>2. QED
        BY <1>4, <1>6, <3>1, <3>3, <4>1
    <3>4. QED
      BY <3>2, <3>3
  <2>3. QED
    BY <2>1, <2>2 DEF GoesForCause, IsSettled
<1>17. QED
  BY <1>8, <1>9, <1>10, <1>13, <1>15, <1>16 DEF BoundaryInv

\* Without an answer that can be kept, only what is about missing files goes, and nothing
\* that is kept is about them.
LEMMA NothingKept ==
    ASSUME BoundaryInv, job # NoJob, Unchanged, Cleared(roles, links), job' = NoJob,
           UNCHANGED <<source, imported, owed>>
    PROVE  BoundaryInv' /\ GoesForCause
<1>1. BoundaryTypes /\ ImportsAreParsed /\ \A p \in Imports : p[1] \in Sources /\ p[2] \in Sources /\ Ends(p) = {p[1], p[2]}
  BY EndsAre DEF BoundaryInv
<1>2. /\ roles' = [f \in Sources |-> IF f \in job.missing THEN NoRole ELSE roles[f]]
      /\ links' = [p \in Imports |-> IF p \in Touched(job.missing) THEN NoLink ELSE links[p]]
  BY DEF Cleared
<1>3. \A f \in Sources : IsKnown(f) => f \notin job.missing
  <2> SUFFICES ASSUME NEW f \in Sources, IsKnown(f) PROVE f \notin job.missing
    OBVIOUS
  <2>1. IsCurrent(f, roles[f].gen)
    BY DEF BoundaryInv, RolesAreCurrent
  <2>2. source[f].status = "parsed"
    BY <2>1, CurrentIs
  <2>3. QED
    BY <2>2 DEF Unchanged
<1>4. \A p \in imported : p \in Imports /\ p \notin Touched(job.missing)
  BY <1>1 DEF BoundaryTypes, ImportsAreParsed, Unchanged, Touched
<1>5. BoundaryTypes'
  BY <1>1, <1>2, NothingIsTyped DEF BoundaryTypes
<1>6. \A f \in Sources : IsKnown(f) => roles'[f] = roles[f]
  BY <1>2, <1>3
<1>7. \A f \in Sources : IsKnown(f)' => roles'[f] = roles[f] /\ IsKnown(f)
  BY <1>2, NoKinds DEF IsKnown
<1>8. \A p \in Imports : IsSettled(p) => links'[p] = links[p]
  BY <1>2, <1>4 DEF BoundaryInv, LinksJoinRoles, IsSettled
<1>9. \A p \in Imports : IsSettled(p)' => links'[p] = links[p] /\ IsSettled(p)
  BY <1>2, NoKinds DEF IsSettled
<1>10. \A p \in Imports : /\ JoinsRoles(p) => roles'[p[1]] = roles[p[1]] /\ roles'[p[2]] = roles[p[2]]
                          /\ JoinsRoles(p)' => JoinsRoles(p)
  BY <1>1, <1>6, <1>7 DEF JoinsRoles, IsKnown, Kinds
<1>11. RolesAreCurrent' /\ ImportsAreParsed'
  <2>1. RolesAreCurrent'
    BY <1>7 DEF BoundaryInv, RolesAreCurrent, IsCurrent
  <2>2. QED
    BY <1>1, <2>1 DEF ImportsAreParsed
<1>12. LinksJoinRoles'
  BY <1>9, <1>10 DEF BoundaryInv, LinksJoinRoles, IsSettled, JoinsRoles, Gens
<1>13. PairsAreSettled'
  BY <1>4, <1>8, <1>10 DEF BoundaryInv, PairsAreSettled, IsSettled
<1>14. GoesForCause
  BY <1>6, <1>8 DEF GoesForCause, IsKnown, IsSettled
<1>15. QED
  BY <1>5, <1>11, <1>12, <1>13, <1>14 DEF BoundaryInv

\* An answer of another snapshot, or one that is dropped, changes nothing.
LEMMA AnswerGone ==
    ASSUME BoundaryInv, job' = NoJob, UNCHANGED <<source, imported, roles, links, owed>>
    PROVE  BoundaryInv' /\ GoesForCause
<1>1. (BoundaryTypes /\ RolesAreCurrent /\ ImportsAreParsed /\ LinksJoinRoles /\ PairsAreSettled)'
  BY DEF BoundaryInv, BoundaryTypes, RolesAreCurrent, ImportsAreParsed, LinksJoinRoles, PairsAreSettled,
         IsKnown, IsCurrent, JoinsRoles, Gens
<1>2. GoesForCause
  BY DEF GoesForCause
<1>3. QED
  BY <1>1, <1>2 DEF BoundaryInv

LEMMA CommitKeepsBoundaries ==
    ASSUME BoundaryInv, CommitAnswer
    PROVE  BoundaryInv' /\ GoesForCause
<1>1. job # NoJob /\ job' = NoJob /\ UNCHANGED <<source, imported>>
  BY DEF CommitAnswer
<1>2. CASE ~ Unchanged
  BY <1>1, <1>2, AnswerGone DEF CommitAnswer
<1>3. CASE Unchanged
  <2>1. \/ Cleared(roles, links) /\ UNCHANGED owed
        \/ Cleared(NewRoles, NewLinks) /\ owed' = (owed \ Touched(DOMAIN job.roles)) \union job.left
    BY <1>3 DEF CommitAnswer
  <2>2. QED
    BY <1>1, <1>3, <2>1, NothingKept, KeptAnswer
<1>4. QED
  BY <1>2, <1>3

LEMMA BoundariesKept == BoundaryInv /\ BoundaryNext => BoundaryInv' /\ GoesForCause
<1> SUFFICES ASSUME BoundaryInv, BoundaryNext PROVE BoundaryInv' /\ GoesForCause
  OBVIOUS
<1>1. ASSUME NEW f \in Sources, Parses(f) PROVE BoundaryInv' /\ GoesForCause
  BY <1>1, ParsesKeeps
<1>2. ASSUME NEW f \in Sources, NEW status \in {"read", "missing"}, Registers(f, status)
      PROVE  BoundaryInv' /\ GoesForCause
  BY <1>2, RegistersKeeps
<1>3. CASE Analysis
  BY <1>3, AnalysisKeeps
<1>4. CASE CommitAnswer
  BY <1>4, CommitKeepsBoundaries
<1>5. CASE Drop
  BY <1>5, AnswerGone DEF Drop
<1>6. QED
  BY <1>1, <1>2, <1>3, <1>4, <1>5 DEF BoundaryNext

LEMMA BoundariesStand == BoundaryInv /\ [BoundaryNext]_boundaryVars => BoundaryInv' /\ [GoesForCause]_boundaryVars
<1>1. ASSUME BoundaryInv, UNCHANGED boundaryVars PROVE BoundaryInv'
  <2>1. (BoundaryTypes /\ RolesAreCurrent /\ ImportsAreParsed /\ LinksJoinRoles /\ PairsAreSettled)'
    BY <1>1 DEF boundaryVars, BoundaryInv, BoundaryTypes, RolesAreCurrent, ImportsAreParsed, LinksJoinRoles,
                PairsAreSettled, IsKnown, IsCurrent, JoinsRoles, Gens
  <2>2. ASSUME job' # NoJob PROVE (GuardsHold /\ AnswersJoin /\ AnswersSettle)'
    BY <1>1, <2>2 DEF boundaryVars, BoundaryInv, GuardsHold, AnswersJoin, AnswersSettle, KindWith, IsSettled
  <2>3. QED
    BY <2>1, <2>2 DEF BoundaryInv
<1>2. QED
  BY <1>1, BoundariesKept

\* The invariant of the boundaries holds in every reachable state: what is kept is current, and
\* the answer that waits is sound for as long as nothing it rests on changes.
THEOREM BoundariesCorrect == BoundaryInit /\ [][BoundaryNext]_boundaryVars => []BoundaryInv
<1>1. BoundaryInv /\ [BoundaryNext]_boundaryVars => BoundaryInv'
  BY BoundariesStand
<1>2. QED
  BY <1>1, BoundaryBegins, PTL

\* Memberships join current roles, no pair is forgotten, and nothing that is still true is
\* withdrawn because a service failed, a limit was reached or there was no room: the reread of
\* the commit (pipeline.mjs:264-273) is enough, whatever changed since the analysis.
THEOREM BoundariesAreKept == BoundaryInit /\ [][BoundaryNext]_boundaryVars => BoundariesHold
<1>1. BoundaryInv => LinksJoinRoles /\ PairsAreSettled
  BY DEF BoundaryInv
<1>2. BoundaryInv /\ [BoundaryNext]_boundaryVars => [GoesForCause]_boundaryVars
  BY BoundariesStand
<1>3. QED
  BY <1>1, <1>2, BoundariesCorrect, PTL DEF BoundariesHold
====
