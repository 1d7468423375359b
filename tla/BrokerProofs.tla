---- MODULE BrokerProofs ----
(***************************************************************************)
(* Whatever the number of processes, projects, versions and analyses: the   *)
(* registry implements ExtensionCatalogue, and what an analysis leaves in   *)
(* the model or returns rests on an approval that was in force. Of the      *)
(* pages: the panels ask for one thing at a time, and the live canvas shows *)
(* the newest snapshot and animates only what happened. And of the activity *)
(* list: an answer about a call is applied only while it is true, and no    *)
(* call is forgotten.                                                       *)
(***************************************************************************)
EXTENDS AnalysisBroker, Activity, Viewer, Panels, FiniteSetTheorems, TLAPS

(***************************************************************************)
(* The inductive invariant of the registry.                                 *)
(***************************************************************************)

Places == {"idle", "locking", "reading", "acting", "writing", "unlocking", "dead"}

Types ==
    /\ installed \in Digests \union {None}
    /\ grants \in [Projects -> GrantsType]
    /\ bundles \subseteq Digests
    /\ lock \in BOOLEAN
    /\ pc \in [Procs -> Places]
    /\ op \in [Procs -> Ops]
    /\ read \in [Procs -> CatalogueType]
    /\ clock \in 0..MaxWrites

OneInside == (\A p, q \in Inside : p = q) /\ (Inside # {} => lock)

Contents == [installed |-> installed, grants |-> grants]

\* An operation that has not written yet.
Unwritten(p) == pc[p] \in {"locking", "reading", "acting", "writing"}

\* An operation names what its kind needs.
Formed(o, now) ==
    /\ o.kind # "none"
    /\ o.kind \in {"install", "grant"} => o.digest \in Digests
    /\ o.kind \in {"grant", "revoke"} => o.project \in Projects
    /\ o.kind = "grant" => o.at \in 1..now

OpsAreFormed == \A p \in Procs : Unwritten(p) => Formed(op[p], clock)

\* No one else writes between a read and the write that rests on it.
ReadIsCurrent ==
    \A p \in Procs :
        /\ pc[p] = "acting" => read[p] = Contents
        /\ pc[p] = "writing" =>
              /\ Allowed(op[p], Contents) /\ read[p] = Apply(op[p], Contents)
              /\ op[p].kind = "install" => op[p].digest \in bundles

\* The time of an approval that is still to be written is no other's.
Fresh(time) == \A p \in Procs : Unwritten(p) /\ op[p].kind = "grant" => op[p].at # time

TimesDiffer ==
    /\ \A q \in Projects : grants[q].at <= clock /\ Fresh(grants[q].at)
    /\ \A p, q \in Procs : p # q /\ Unwritten(p) /\ op[p].kind = "grant"
                                  /\ Unwritten(q) /\ op[q].kind = "grant" => op[p].at # op[q].at

RegistryInv ==
    Types /\ OneInside /\ OpsAreFormed /\ ReadIsCurrent /\ TimesDiffer /\ ApprovalsAreOfInstalled

(***************************************************************************)
(* The inductive invariant of the broker.                                   *)
(***************************************************************************)

Stage == {"new", "loading", "checked", "authorized", "asked", "answered", "confirmed", "stored",
          "affirmed", "returned", "complete", "unavailable"}

Interpretations == [analysis : Analyses, evidence : 0..MaxRevision, current : BOOLEAN]

BrokerTypes ==
    /\ revision \in 0..MaxRevision /\ evidence \in 0..revision
    /\ stored \in SUBSET [analysis : Analyses, evidence : 0..MaxRevision, current : BOOLEAN]
    /\ at \in [Analyses -> Stage]
    /\ loaded \subseteq Analyses
    /\ want \in [Analyses -> Wants]
    /\ held \in [Analyses -> SUBSET {"answer", "admission"}]

\* What an analysis was asked with was an approval, and once gone it does not come back.
WantsAreApprovals ==
    \A a \in Analyses : at[a] # "new" =>
        /\ want[a].grant # NoGrant /\ want[a].digest = want[a].grant.digest
        /\ want[a].grant.at <= clock /\ Fresh(want[a].grant.at)
        /\ want[a].revision <= revision

\* An analysis whose approval was read after the answer, or the admission, had it then.
ApprovedThen ==
    \A a \in Analyses :
        /\ at[a] = "answered" /\ grants[Home] = want[a].grant => "answer" \in held[a]
        /\ at[a] \in {"confirmed", "stored", "affirmed", "returned", "complete"} => "answer" \in held[a]
        /\ at[a] = "stored" /\ grants[Home] = want[a].grant => "admission" \in held[a]
        /\ at[a] \in {"affirmed", "returned", "complete"} => "admission" \in held[a]

\* At the revision an analysis has seen, the evidence is what it saw, and what it stored is current.
SeenIsCurrent ==
    \A a \in Analyses :
        /\ at[a] \in {"asked", "answered", "confirmed"} /\ revision = want[a].revision =>
              want[a].evidence = evidence
        /\ at[a] \in {"stored", "affirmed", "returned", "complete"} => \E s \in stored : s.analysis = a
        /\ at[a] \in {"stored", "affirmed"} /\ revision = want[a].revision =>
              \E s \in stored : s.analysis = a /\ s.current /\ s.evidence = evidence

BrokerInv == BrokerTypes /\ WantsAreApprovals /\ ApprovedThen /\ SeenIsCurrent

Inv == RegistryInv /\ BrokerInv

(***************************************************************************)
(* The operators.                                                           *)
(***************************************************************************)

LEMMA BlankTyped == Blank \in CatalogueType /\ NoGrant \in GrantsType /\ NoOp \in Ops
BY RegistryAssumption DEF Blank, NoGrant, CatalogueType, GrantsType, NoOp, Operation, Ops

NoGrants == [p \in Projects |-> NoGrant]

\* What an operation makes of a catalogue, kind by kind.
IsRow(o, state, next) ==
    \/ /\ o.kind = "install" /\ next.installed = o.digest
       /\ next.grants = IF o.digest = state.installed THEN state.grants ELSE NoGrants
    \/ /\ o.kind = "remove" /\ state.installed # None
       /\ next.installed = None /\ next.grants = NoGrants
    \/ /\ o.kind = "revoke" /\ state.installed # None
       /\ next.installed = state.installed
       /\ next.grants = [state.grants EXCEPT ![o.project] = NoGrant]
    \/ /\ o.kind = "grant" /\ state.installed = o.digest
       /\ next.installed = state.installed
       /\ next.grants = [state.grants EXCEPT ![o.project] = [digest |-> o.digest, at |-> o.at]]

LEMMA OperationRows ==
  ASSUME NEW o \in Ops, Formed(o, clock), NEW state \in CatalogueType, Allowed(o, state), clock \in 0..MaxWrites
  PROVE  Apply(o, state) \in CatalogueType /\ IsRow(o, state, Apply(o, state))
<1> USE BlankTyped DEF Formed, CatalogueType, Ops
<1>1. CASE o.kind = "install"
  BY <1>1 DEF Apply, InstallRow, Blank, IsRow, NoGrants
<1>2. CASE o.kind = "remove"
  BY <1>2 DEF Apply, Allowed, Blank, IsRow, NoGrants
<1>3. CASE o.kind = "revoke"
  BY <1>3 DEF Apply, Allowed, IsRow
<1>4. CASE o.kind = "grant"
  BY <1>4, RegistryAssumption DEF Apply, Allowed, GrantsType, IsRow
<1> QED BY <1>1, <1>2, <1>3, <1>4

\* An operation leaves approvals of the installed version only, and no others than those that
\* were given and its own.
LEMMA RowsAreSound ==
  ASSUME NEW o \in Ops, Formed(o, clock), NEW state \in CatalogueType, NEW next \in CatalogueType,
         IsRow(o, state, next),
         \A q \in Projects : state.grants[q] # NoGrant => state.grants[q].digest = state.installed
  PROVE  /\ \A q \in Projects : next.grants[q] # NoGrant => next.grants[q].digest = next.installed
         /\ \A q \in Projects :
               \/ next.grants[q] \in {NoGrant, state.grants[q]}
               \/ o.kind = "grant" /\ next.grants[q] = [digest |-> o.digest, at |-> o.at]
         /\ \/ next.installed \in {None, state.installed}
            \/ o.kind = "install" /\ next.installed = o.digest
<1>1. state.grants \in [Projects -> GrantsType] /\ next.grants \in [Projects -> GrantsType]
  BY DEF CatalogueType
<1>2. \A q \in Projects :
         \/ next.grants[q] \in {NoGrant, state.grants[q]}
         \/ o.kind = "grant" /\ next.grants[q] = [digest |-> o.digest, at |-> o.at]
  BY <1>1 DEF IsRow, NoGrants
<1>3. \/ next.installed \in {None, state.installed}
      \/ o.kind = "install" /\ next.installed = o.digest
  BY DEF IsRow
<1>4. ASSUME NEW q \in Projects, next.grants[q] # NoGrant
      PROVE  next.grants[q].digest = next.installed
  <2>1. CASE o.kind = "install"
    BY <1>1, <1>4, <2>1 DEF IsRow, NoGrants
  <2>2. CASE o.kind = "remove"
    BY <1>1, <1>4, <2>2 DEF IsRow, NoGrants
  <2>3. CASE o.kind \in {"revoke", "grant"}
    <3>1. next.installed = state.installed
      BY <2>3 DEF IsRow
    <3>2. next.grants[q] = state.grants[q] \/ next.grants[q].digest = next.installed
      BY <1>1, <1>2, <1>4, <2>3 DEF IsRow
    <3> QED BY <1>4, <3>1, <3>2
  <2> QED BY <2>1, <2>2, <2>3 DEF IsRow
<1> QED BY <1>2, <1>3, <1>4

(***************************************************************************)
(* The steps of the registry.                                               *)
(***************************************************************************)

LEMMA RegistryStarts == RegistryInit => RegistryInv
<1> SUFFICES ASSUME RegistryInit PROVE RegistryInv
  OBVIOUS
<1>1. Types
  <2>1. grants = NoGrants /\ grants \in [Projects -> GrantsType]
    BY BlankTyped DEF RegistryInit, Blank, NoGrants
  <2>2. pc \in [Procs -> Places] /\ op \in [Procs -> Ops] /\ read \in [Procs -> CatalogueType]
    BY BlankTyped DEF RegistryInit, Places
  <2>3. lock \in BOOLEAN
    BY DEF RegistryInit
  <2>4. installed = None /\ bundles = {} /\ clock = 0
    BY DEF RegistryInit
  <2> QED BY <2>1, <2>2, <2>3, <2>4, RegistryAssumption DEF Types
<1>2. \A p \in Procs : pc[p] = "idle"
  BY DEF RegistryInit
<1>3. Inside = {} /\ \A p \in Procs : ~ Unwritten(p)
  BY <1>2 DEF Inside, Unwritten
<1>4. \A q \in Projects : grants[q] = NoGrant
  BY DEF RegistryInit, Blank
<1> QED
  BY <1>1, <1>2, <1>3, <1>4 DEF RegistryInit, RegistryInv, OneInside, OpsAreFormed, ReadIsCurrent,
     TimesDiffer, Fresh, ApprovalsAreOfInstalled, NoGrant

\* A step of one process that neither writes the catalogue nor begins an operation.
Aside(p) ==
    /\ UNCHANGED <<installed, grants, clock>>
    /\ bundles \subseteq bundles' /\ bundles' \subseteq Digests
    /\ \A q \in Procs \ {p} : pc'[q] = pc[q] /\ op'[q] = op[q] /\ read'[q] = read[q]
    /\ Unwritten(p)' => Unwritten(p) /\ op'[p] = op[p]

LEMMA AsideKeeps ==
  ASSUME RegistryInv, NEW p \in Procs, Aside(p), Types', OneInside',
         pc'[p] = "acting" => read'[p] = Contents,
         pc'[p] = "writing" => /\ Allowed(op[p], Contents) /\ read'[p] = Apply(op[p], Contents)
                               /\ op[p].kind = "install" => op[p].digest \in bundles'
  PROVE  RegistryInv'
<1> USE DEF RegistryInv, Aside
<1>1. \A q \in Procs : Unwritten(q)' => Unwritten(q) /\ op'[q] = op[q]
  BY DEF Unwritten
<1>2. OpsAreFormed' /\ TimesDiffer'
  BY <1>1 DEF OpsAreFormed, TimesDiffer, Formed, Fresh
<1>3. Contents' = Contents /\ ApprovalsAreOfInstalled'
  BY DEF Contents, ApprovalsAreOfInstalled
<1>4. ASSUME NEW q \in Procs
      PROVE  /\ pc'[q] = "acting" => read'[q] = Contents
             /\ pc'[q] = "writing" => /\ Allowed(op'[q], Contents) /\ read'[q] = Apply(op'[q], Contents)
                                      /\ op'[q].kind = "install" => op'[q].digest \in bundles'
  <2>1. CASE q = p
    BY <1>1, <2>1 DEF Unwritten
  <2>2. CASE q # p
    BY <1>4, <2>2 DEF ReadIsCurrent
  <2> QED BY <2>1, <2>2
<1>5. ReadIsCurrent'
  BY <1>3, <1>4 DEF ReadIsCurrent
<1> QED BY <1>2, <1>3, <1>5

LEMMA BeginKeeps ==
  ASSUME RegistryInv, NEW p \in Procs, Begin(p)
  PROVE  RegistryInv' /\ \A time \in 0..clock : Fresh(time) => Fresh(time)'
<1> USE DEF RegistryInv
<1>1. /\ pc[p] = "idle" /\ pc' = [pc EXCEPT ![p] = "locking"]
      /\ clock \in 0..MaxWrites /\ clock' = clock + 1 /\ clock' \in 1..MaxWrites
      /\ UNCHANGED <<installed, grants, bundles, lock, read>>
  <2>1. /\ pc[p] = "idle" /\ clock < MaxWrites /\ clock' = clock + 1
        /\ pc' = [pc EXCEPT ![p] = "locking"]
        /\ UNCHANGED <<installed, grants, bundles, lock, read>>
    BY DEF Begin, Go
  <2>2. clock \in 0..MaxWrites
    BY DEF Types
  <2> QED BY <2>1, <2>2, RegistryAssumption
<1>2. PICK o \in Ops : /\ op' = [op EXCEPT ![p] = o] /\ Formed(o, clock')
                       /\ o.kind = "grant" => o.at = clock'
  <2>1. CASE \E d \in Digests : op' = [op EXCEPT ![p] = Operation("install", d, None, 0)]
    <3>1. PICK d \in Digests : op' = [op EXCEPT ![p] = Operation("install", d, None, 0)]
      BY <2>1
    <3> DEFINE mine == Operation("install", d, None, 0)
    <3>2. mine \in Ops /\ Formed(mine, clock') /\ (mine.kind = "grant" => mine.at = clock')
      BY <1>1, <3>1, RegistryAssumption DEF Operation, Ops, Formed
    <3> QED BY <3>1, <3>2
  <2>2. CASE op' = [op EXCEPT ![p] = Operation("remove", None, None, 0)]
    <3> DEFINE mine == Operation("remove", None, None, 0)
    <3>2. mine \in Ops /\ Formed(mine, clock') /\ (mine.kind = "grant" => mine.at = clock')
      BY <1>1, RegistryAssumption DEF Operation, Ops, Formed
    <3> QED BY <2>2, <3>2
  <2>3. CASE \E q \in Projects, d \in Digests : op' = [op EXCEPT ![p] = Operation("grant", d, q, clock')]
    <3>1. PICK q \in Projects, d \in Digests : op' = [op EXCEPT ![p] = Operation("grant", d, q, clock')]
      BY <2>3
    <3> DEFINE mine == Operation("grant", d, q, clock')
    <3>2. mine \in Ops /\ Formed(mine, clock') /\ (mine.kind = "grant" => mine.at = clock')
      BY <1>1, <3>1, RegistryAssumption DEF Operation, Ops, Formed
    <3> QED BY <3>1, <3>2
  <2>4. CASE \E q \in Projects : op' = [op EXCEPT ![p] = Operation("revoke", None, q, 0)]
    <3>1. PICK q \in Projects : op' = [op EXCEPT ![p] = Operation("revoke", None, q, 0)]
      BY <2>4
    <3> DEFINE mine == Operation("revoke", None, q, 0)
    <3>2. mine \in Ops /\ Formed(mine, clock') /\ (mine.kind = "grant" => mine.at = clock')
      BY <1>1, <3>1, RegistryAssumption DEF Operation, Ops, Formed
    <3> QED BY <3>1, <3>2
  <2> QED BY <2>1, <2>2, <2>3, <2>4 DEF Begin
<1>3. Types'
  BY <1>1, <1>2 DEF Types, Places
<1>4. \A q \in Procs \ {p} : pc'[q] = pc[q] /\ op'[q] = op[q] /\ Unwritten(q)' = Unwritten(q)
  BY <1>1, <1>2 DEF Types, Unwritten
<1>5. pc'[p] = "locking" /\ op'[p] = o /\ (o.kind = "grant" => o.at = clock')
  BY <1>1, <1>2 DEF Types
<1>6. OneInside'
  <2>1. Inside' = Inside
    BY <1>1, <1>4, <1>5 DEF Inside
  <2> QED BY <1>1, <2>1 DEF OneInside
<1>7. \A q \in Procs : q # p /\ Unwritten(q) /\ op[q].kind = "grant" => op[q].at \in 1..clock
  BY DEF OpsAreFormed, Formed
<1>8. OpsAreFormed'
  <2>1. \A q \in Procs : q # p /\ Unwritten(q)' => Formed(op'[q], clock')
    BY <1>1, <1>4, RegistryAssumption DEF OpsAreFormed, Formed
  <2>2. Formed(op'[p], clock')
    BY <1>2, <1>5
  <2> QED BY <2>1, <2>2 DEF OpsAreFormed
<1>9. ReadIsCurrent' /\ ApprovalsAreOfInstalled'
  <2>1. Contents' = Contents /\ ApprovalsAreOfInstalled'
    BY <1>1 DEF ApprovalsAreOfInstalled, Contents
  <2>2. ReadIsCurrent'
    BY <1>1, <1>4, <1>5, <2>1 DEF ReadIsCurrent
  <2> QED BY <2>1, <2>2
<1>10. \A time \in 0..clock : Fresh(time) => Fresh(time)'
  BY <1>1, <1>4, <1>5, RegistryAssumption DEF Fresh
<1>11. \A q \in Projects : grants'[q].at \in 0..clock
  BY <1>1 DEF Types, GrantsType, TimesDiffer
<1>12. TimesDiffer'
  BY <1>1, <1>2, <1>4, <1>5, <1>7, <1>10, <1>11 DEF TimesDiffer
<1> QED BY <1>3, <1>6, <1>8, <1>9, <1>10, <1>12

LEMMA FewerInside ==
  ASSUME OneInside, Inside' \subseteq Inside, lock => lock'
  PROVE  OneInside'
<1>1. \A q, r \in Inside' : q = r
  BY DEF OneInside
<1>2. Inside' # {} => Inside # {}
  OBVIOUS
<1>3. Inside' # {} => lock'
  BY <1>2, Zenon DEF OneInside
<1> QED BY <1>1, <1>3 DEF OneInside

\* A step of one process that stays inside, enters or leaves.
LEMMA Passes ==
  ASSUME Types, OneInside, NEW p \in Procs, NEW place \in Places, Go(p, place), lock' \in BOOLEAN,
         \/ p \in Inside /\ lock' = lock
         \/ place \in {"idle", "locking", "dead"} /\ lock' = lock
         \/ ~ lock /\ lock'
         \/ p \in Inside /\ place = "idle"
  PROVE  /\ OneInside' /\ pc' \in [Procs -> Places] /\ pc'[p] = place
         /\ \A q \in Procs \ {p} : pc'[q] = pc[q]
<1>1. /\ pc' \in [Procs -> Places] /\ pc'[p] = place
      /\ \A q \in Procs \ {p} : pc'[q] = pc[q]
  BY DEF Go, Types
<1>2. Inside' \subseteq Inside \union {p}
  BY <1>1 DEF Inside
<1>3. ASSUME p \in Inside /\ lock' = lock PROVE OneInside'
  <2>1. Inside' \subseteq Inside
    BY <1>2, <1>3
  <2>2. lock => lock'
    BY <1>3, Zenon
  <2> QED BY <2>1, <2>2, FewerInside
<1>4. ASSUME place \in {"idle", "locking", "dead"} PROVE OneInside'
  <2>1. p \notin Inside'
    BY <1>1, <1>4 DEF Inside
  <2>2. Inside' \subseteq Inside
    BY <1>2, <2>1
  <2>3. CASE p \in Inside
    <3>1. Inside' = {}
      BY <2>1, <2>2, <2>3 DEF OneInside
    <3> QED BY <3>1 DEF OneInside
  <2>4. CASE p \notin Inside
    <3>1. lock => lock'
      BY <2>4, Zenon
    <3> QED BY <2>2, <3>1, FewerInside
  <2> QED BY <2>3, <2>4
<1>5. ASSUME ~ lock /\ lock' PROVE OneInside'
  <2>1. Inside' \subseteq {p}
    BY <1>2, <1>5 DEF OneInside
  <2>2. \A q, r \in Inside' : q = r
    BY <2>1
  <2>3. lock'
    BY <1>5
  <2> QED BY <2>2, <2>3, Zenon DEF OneInside
<1> QED BY <1>1, <1>3, <1>4, <1>5

LEMMA AcquireKeeps ==
  ASSUME RegistryInv, NEW p \in Procs, Acquire(p) PROVE Aside(p) /\ RegistryInv'
<1> USE DEF RegistryInv
<1>1. /\ pc[p] = "locking" /\ Go(p, "reading") /\ ~ lock /\ lock'
      /\ UNCHANGED <<installed, grants, bundles, op, read, clock>>
  BY DEF Acquire
<1>2. lock' \in BOOLEAN
  BY DEF Acquire
<1>3. /\ OneInside' /\ pc' \in [Procs -> Places] /\ pc'[p] = "reading"
      /\ \A q \in Procs \ {p} : pc'[q] = pc[q]
  BY <1>1, <1>2, Passes DEF Places
<1>4. Types'
  BY <1>1, <1>2, <1>3 DEF Types
<1>5. Aside(p)
  BY <1>1, <1>3, <1>4 DEF Aside, Unwritten, Types
<1> QED BY <1>3, <1>4, <1>5, AsideKeeps

LEMMA OverKeeps ==
  ASSUME RegistryInv, NEW p \in Procs, GiveUp(p) \/ Unlock(p) \/ Crash(p) PROVE Aside(p) /\ RegistryInv'
<1> USE DEF RegistryInv
<1>1. PICK place \in {"idle", "dead"} :
         /\ Go(p, place) /\ op' = [op EXCEPT ![p] = NoOp] /\ read' = [read EXCEPT ![p] = Blank]
         /\ UNCHANGED <<installed, grants, bundles, clock>>
         /\ lock' = lock \/ (pc[p] = "unlocking" /\ place = "idle")
  BY DEF GiveUp, Unlock, Crash, Over
<1>2. lock' \in BOOLEAN
  BY DEF GiveUp, Unlock, Crash, Types
<1>3. /\ OneInside' /\ pc' \in [Procs -> Places] /\ pc'[p] = place
      /\ \A q \in Procs \ {p} : pc'[q] = pc[q]
  BY <1>1, <1>2, Passes DEF Places, Inside
<1>4. Types'
  BY <1>1, <1>2, <1>3, BlankTyped DEF Types
<1>5. Aside(p)
  BY <1>1, <1>3 DEF Aside, Unwritten, Types
<1> QED BY <1>3, <1>4, <1>5, AsideKeeps

LEMMA InsideKeeps ==
  ASSUME RegistryInv, NEW p \in Procs, ReadState(p) \/ Act(p) \/ Refuse(p)
  PROVE  Aside(p) /\ RegistryInv'
<1> USE DEF RegistryInv
<1>1. Contents \in CatalogueType
  BY DEF Types, Contents, CatalogueType
<1>2. CASE ReadState(p)
  <2>1. /\ pc[p] = "reading" /\ Go(p, "acting") /\ read' = [read EXCEPT ![p] = Contents]
        /\ UNCHANGED <<installed, grants, bundles, lock, op, clock>>
    BY <1>2 DEF ReadState, Contents
  <2>2. /\ OneInside' /\ pc' \in [Procs -> Places] /\ pc'[p] = "acting"
        /\ \A q \in Procs \ {p} : pc'[q] = pc[q]
    BY <2>1, Passes DEF Places, Inside, Types
  <2>3. Types'
    BY <1>1, <2>1, <2>2 DEF Types
  <2>4. Aside(p) /\ read'[p] = Contents
    BY <2>1, <2>2 DEF Aside, Unwritten, Types
  <2> QED BY <2>2, <2>3, <2>4, AsideKeeps
<1>3. CASE Act(p)
  <2>1. /\ pc[p] = "acting" /\ Allowed(op[p], read[p]) /\ Go(p, "writing")
        /\ bundles' = IF op[p].kind = "install" THEN bundles \union {op[p].digest} ELSE bundles
        /\ read' = [read EXCEPT ![p] = Apply(op[p], read[p])]
        /\ UNCHANGED <<installed, grants, lock, op, clock>>
    BY <1>3 DEF Act
  <2>2. /\ OneInside' /\ pc' \in [Procs -> Places] /\ pc'[p] = "writing"
        /\ \A q \in Procs \ {p} : pc'[q] = pc[q]
    BY <2>1, Passes DEF Places, Inside, Types
  <2>3. read[p] = Contents /\ Formed(op[p], clock) /\ op[p] \in Ops /\ clock \in 0..MaxWrites
    BY <2>1 DEF ReadIsCurrent, OpsAreFormed, Unwritten, Types
  <2>4. Apply(op[p], Contents) \in CatalogueType
    BY <1>1, <2>1, <2>3, OperationRows
  <2>5. Types'
    BY <2>1, <2>2, <2>3, <2>4 DEF Types, Formed
  <2>6. Aside(p) /\ read'[p] = Apply(op[p], Contents)
    BY <2>1, <2>2, <2>3, <2>5 DEF Aside, Unwritten, Types
  <2>7. op[p].kind = "install" => op[p].digest \in bundles'
    BY <2>1
  <2> QED BY <2>1, <2>2, <2>3, <2>5, <2>6, <2>7, AsideKeeps
<1>4. CASE Refuse(p)
  <2>1. /\ pc[p] \in {"acting", "writing"} /\ Go(p, "unlocking")
        /\ UNCHANGED <<installed, grants, bundles, lock, op, read, clock>>
    BY <1>4 DEF Refuse
  <2>2. /\ OneInside' /\ pc' \in [Procs -> Places] /\ pc'[p] = "unlocking"
        /\ \A q \in Procs \ {p} : pc'[q] = pc[q]
    BY <2>1, Passes DEF Places, Inside, Types
  <2>3. Types'
    BY <2>1, <2>2 DEF Types
  <2>4. Aside(p)
    BY <2>1, <2>2, <2>3 DEF Aside, Unwritten, Types
  <2> QED BY <2>2, <2>3, <2>4, AsideKeeps
<1> QED BY <1>2, <1>3, <1>4

LEMMA WriteIsARow ==
  ASSUME RegistryInv, NEW p \in Procs, Write(p)
  PROVE  /\ op[p] \in Ops /\ Formed(op[p], clock) /\ Contents \in CatalogueType /\ Contents' \in CatalogueType
         /\ IsRow(op[p], Contents, Contents') /\ clock \in 0..MaxWrites
         /\ op[p].kind = "install" => op[p].digest \in bundles
<1> USE DEF RegistryInv
<1>1. /\ pc[p] = "writing" /\ installed' = read[p].installed /\ grants' = read[p].grants
      /\ read[p] \in CatalogueType
  BY DEF Write, Types
<1>2. Contents' = read[p]
  BY <1>1 DEF Contents, CatalogueType
<1>3. Contents \in CatalogueType /\ op[p] \in Ops /\ clock \in 0..MaxWrites
  BY DEF Types, Contents, CatalogueType
<1>4. /\ Formed(op[p], clock) /\ Allowed(op[p], Contents) /\ read[p] = Apply(op[p], Contents)
      /\ op[p].kind = "install" => op[p].digest \in bundles
  BY <1>1 DEF OpsAreFormed, ReadIsCurrent, Unwritten
<1> QED BY <1>1, <1>2, <1>3, <1>4, OperationRows

\* A write gives no approval but its own, whose time is fresh.
LEMMA WriteGives ==
  ASSUME RegistryInv, NEW p \in Procs, Write(p), NEW q \in Projects
  PROVE  \/ grants'[q] \in {NoGrant, grants[q]}
         \/ /\ op[p].kind = "grant" /\ Unwritten(p)
            /\ grants'[q] = [digest |-> op[p].digest, at |-> op[p].at]
<1>1. \A r \in Projects : Contents.grants[r] # NoGrant => Contents.grants[r].digest = Contents.installed
  BY DEF RegistryInv, ApprovalsAreOfInstalled, Contents
<1>2. \/ Contents'.grants[q] \in {NoGrant, Contents.grants[q]}
      \/ op[p].kind = "grant" /\ Contents'.grants[q] = [digest |-> op[p].digest, at |-> op[p].at]
  BY <1>1, WriteIsARow, RowsAreSound
<1>3. Unwritten(p)
  BY DEF Write, Unwritten
<1> QED BY <1>2, <1>3 DEF Contents

LEMMA WriteKeeps ==
  ASSUME RegistryInv, NEW p \in Procs, Write(p) PROVE RegistryInv'
<1> USE DEF RegistryInv
<1>1. /\ pc[p] = "writing" /\ Go(p, "unlocking") /\ UNCHANGED <<bundles, lock, op, read, clock>>
  BY DEF Write
<1>2. /\ OneInside' /\ pc' \in [Procs -> Places] /\ pc'[p] = "unlocking"
      /\ \A q \in Procs \ {p} : pc'[q] = pc[q]
  BY <1>1, Passes DEF Places, Inside, Types
<1>3. Types'
  <2>1. Contents' \in CatalogueType
    BY WriteIsARow
  <2>2. installed' \in Digests \union {None} /\ grants' \in [Projects -> GrantsType]
    BY <2>1 DEF Contents, CatalogueType
  <2> QED BY <1>1, <1>2, <2>2 DEF Types
<1>4. \A q \in Procs : Unwritten(q)' => Unwritten(q) /\ q # p
  BY <1>2 DEF Unwritten
<1>5. OpsAreFormed'
  BY <1>1, <1>4 DEF OpsAreFormed
<1>6. ASSUME NEW q \in Procs PROVE pc'[q] \notin {"acting", "writing"}
  <2>1. p \in Inside
    BY <1>1 DEF Inside
  <2> QED BY <1>2, <2>1 DEF OneInside, Inside
<1>7. ReadIsCurrent'
  BY <1>6 DEF ReadIsCurrent
<1>8. ApprovalsAreOfInstalled'
  <2>1. \A r \in Projects : Contents.grants[r] # NoGrant => Contents.grants[r].digest = Contents.installed
    BY DEF ApprovalsAreOfInstalled, Contents
  <2> HIDE DEF RegistryInv
  <2>2. /\ \A q \in Projects : Contents'.grants[q] # NoGrant => Contents'.grants[q].digest = Contents'.installed
        /\ \/ Contents'.installed \in {None, Contents.installed}
           \/ op[p].kind = "install" /\ Contents'.installed = op[p].digest
    <3>1. /\ op[p] \in Ops /\ Formed(op[p], clock) /\ Contents \in CatalogueType
          /\ Contents' \in CatalogueType /\ IsRow(op[p], Contents, Contents')
      BY WriteIsARow
    <3> QED BY <2>1, <3>1, RowsAreSound
  <2>3. installed' \in {None, installed} \/ installed' \in bundles
    BY <2>2, WriteIsARow DEF Contents
  <2> QED BY <1>1, <2>2, <2>3 DEF ApprovalsAreOfInstalled, Contents, RegistryInv
<1>9. ASSUME NEW q \in Projects
      PROVE  /\ grants'[q].at <= clock'
             /\ \A r \in Procs : Unwritten(r)' /\ op'[r].kind = "grant" => op'[r].at # grants'[q].at
  <2>1. CASE grants'[q] \in {NoGrant, grants[q]}
    <3>1. grants'[q].at = 0 \/ grants'[q].at = grants[q].at
      BY <2>1 DEF NoGrant
    <3>2. clock \in Nat /\ \A r \in Procs : Unwritten(r) /\ op[r].kind = "grant" => op[r].at \in 1..clock
      BY RegistryAssumption DEF Types, OpsAreFormed, Formed
    <3>3. grants[q].at <= clock /\ Fresh(grants[q].at) /\ Fresh(0)
      BY <3>2 DEF TimesDiffer, Fresh
    <3> HIDE DEF RegistryInv
    <3> QED BY <1>1, <1>4, <3>1, <3>2, <3>3 DEF Fresh
  <2>2. CASE op[p].kind = "grant" /\ Unwritten(p) /\ grants'[q].at = op[p].at
    <3>1. clock \in Nat /\ op[p].at \in 1..clock
      BY <2>2, RegistryAssumption DEF Types, OpsAreFormed, Formed
    <3>2. \A r \in Procs : Unwritten(r)' /\ op'[r].kind = "grant" => op'[r].at # grants'[q].at
      BY <1>1, <1>4, <2>2 DEF TimesDiffer
    <3> QED BY <1>1, <2>2, <3>1, <3>2
  <2> HIDE DEF RegistryInv
  <2>3. \/ grants'[q] \in {NoGrant, grants[q]}
        \/ /\ op[p].kind = "grant" /\ Unwritten(p)
           /\ grants'[q] = [digest |-> op[p].digest, at |-> op[p].at]
    BY WriteGives
  <2> QED BY <2>1, <2>2, <2>3
<1>10. TimesDiffer'
  BY <1>1, <1>4, <1>9 DEF TimesDiffer, Fresh
<1> QED BY <1>2, <1>3, <1>5, <1>7, <1>8, <1>10

\* Each step of the registry keeps the invariant.
LEMMA RegistryKeeps == RegistryInv /\ RegistryStep => RegistryInv'
BY BeginKeeps, AcquireKeeps, OverKeeps, InsideKeeps, WriteKeeps DEF RegistryStep

LEMMA RegistryRests == RegistryInv /\ UNCHANGED registryVars => RegistryInv'
BY DEF registryVars, RegistryInv, Types, OneInside, Inside, OpsAreFormed, ReadIsCurrent, Contents,
   TimesDiffer, Fresh, Unwritten, ApprovalsAreOfInstalled

\* A step of the registry is one of the catalogue, or none.
LEMMA CatalogueStep == RegistryInv /\ RegistryStep => [Catalogue!CatalogueNext]_(Catalogue!catalogue)
<1> SUFFICES ASSUME RegistryInv, NEW p \in Procs,
                    \/ Begin(p) \/ Acquire(p) \/ GiveUp(p) \/ ReadState(p) \/ Act(p) \/ Refuse(p)
                    \/ Write(p) \/ Unlock(p) \/ Crash(p)
             PROVE  [Catalogue!CatalogueNext]_(Catalogue!catalogue)
  BY DEF RegistryStep
<1>1. CASE ~ Write(p)
  BY <1>1 DEF Begin, Acquire, GiveUp, ReadState, Act, Refuse, Unlock, Crash, Catalogue!catalogue
<1>2. CASE Write(p)
  <2> DEFINE o == op[p]
  <2>1. /\ o \in Ops /\ Formed(o, clock) /\ IsRow(o, Contents, Contents') /\ Unwritten(p)
        /\ grants \in [Projects -> GrantsType] /\ clock \in 0..MaxWrites
    BY <1>2, WriteIsARow DEF Write, Unwritten, RegistryInv, Types
  <2>2. \A q \in Projects : o.kind = "grant" => o.at # grants[q].at
    BY <2>1 DEF RegistryInv, TimesDiffer, Fresh
  <2> HIDE DEF o
  <2>3. CASE o.kind = "install"
    <3>1. o.digest \in Digests /\ Catalogue!Install(o.digest)
      BY <2>1, <2>3 DEF IsRow, Contents, Formed, Catalogue!Install, NoGrants, NoGrant, Catalogue!NoGrant
    <3> QED BY <3>1 DEF Catalogue!CatalogueNext
  <2>4. CASE o.kind = "remove"
    <3>1. Catalogue!Remove
      BY <2>1, <2>4 DEF IsRow, Contents, Catalogue!Remove, NoGrants, NoGrant, Catalogue!NoGrant
    <3> QED BY <3>1 DEF Catalogue!CatalogueNext
  <2>5. CASE o.kind = "revoke"
    <3>1. o.project \in Projects /\ Catalogue!Revoke(o.project)
      BY <2>1, <2>5 DEF IsRow, Contents, Formed, Catalogue!Revoke, NoGrant, Catalogue!NoGrant
    <3> QED BY <3>1 DEF Catalogue!CatalogueNext
  <2>6. CASE o.kind = "grant"
    <3>1. /\ o.project \in Projects /\ o.digest \in Digests /\ installed = o.digest
          /\ installed' = installed
          /\ grants' = [grants EXCEPT ![o.project] = [digest |-> o.digest, at |-> o.at]]
      BY <2>1, <2>6 DEF IsRow, Contents, Formed
    <3>2. grants'[o.project] = [digest |-> o.digest, at |-> o.at]
      BY <2>1, <3>1
    <3>3. grants'[o.project].digest = o.digest /\ grants'[o.project] # grants[o.project]
      BY <2>2, <2>6, <3>1, <3>2
    <3>4. Catalogue!Grant(o.project, o.digest)
      BY <3>1, <3>2, <3>3 DEF Catalogue!Grant
    <3> QED BY <3>1, <3>4 DEF Catalogue!CatalogueNext
  <2> QED BY <2>1, <2>3, <2>4, <2>5, <2>6 DEF IsRow
<1> QED BY <1>1, <1>2

(***************************************************************************)
(* Approvals through a step of the registry.                                *)
(***************************************************************************)

\* A time that is no pending approval's stays so, and an approval that is gone is not given again.
LEMMA NotGivenAgain ==
  ASSUME RegistryInv, RegistryStep
  PROVE  /\ clock \in Nat /\ clock' \in Nat /\ clock <= clock'
         /\ \A time \in 0..clock : Fresh(time) => Fresh(time)'
         /\ \A q \in Projects : \A grant \in GrantsType :
               grant # NoGrant /\ Fresh(grant.at) /\ grants'[q] = grant => grants[q] = grant
<1> SUFFICES ASSUME NEW p \in Procs,
                    \/ Begin(p) \/ Acquire(p) \/ GiveUp(p) \/ ReadState(p) \/ Act(p) \/ Refuse(p)
                    \/ Write(p) \/ Unlock(p) \/ Crash(p)
             PROVE  /\ clock \in Nat /\ clock' \in Nat /\ clock <= clock'
                    /\ \A time \in 0..clock : Fresh(time) => Fresh(time)'
                    /\ \A q \in Projects : \A grant \in GrantsType :
                          grant # NoGrant /\ Fresh(grant.at) /\ grants'[q] = grant => grants[q] = grant
  BY DEF RegistryStep
<1>1. clock \in Nat
  BY RegistryAssumption DEF RegistryInv, Types
<1>2. CASE Begin(p)
  <2>1. clock' = clock + 1 /\ grants' = grants
    BY <1>2 DEF Begin
  <2> QED BY <1>1, <1>2, <2>1, BeginKeeps
<1>3. CASE Write(p)
  <2>1. clock' = clock
    BY <1>3 DEF Write
  <2>2. \A time \in 0..clock : Fresh(time) => Fresh(time)'
    BY <1>3 DEF Write, Go, Fresh, Unwritten, RegistryInv, Types
  <2>3. ASSUME NEW q \in Projects, NEW grant \in GrantsType,
               grant # NoGrant, Fresh(grant.at), grants'[q] = grant
        PROVE  grants[q] = grant
    <3>1. \/ grants'[q] \in {NoGrant, grants[q]}
          \/ /\ op[p].kind = "grant" /\ Unwritten(p)
             /\ grants'[q] = [digest |-> op[p].digest, at |-> op[p].at]
      BY <1>3, WriteGives
    <3>2. ~ (op[p].kind = "grant" /\ Unwritten(p) /\ grants'[q] = [digest |-> op[p].digest, at |-> op[p].at])
      BY <2>3 DEF Fresh
    <3> QED BY <2>3, <3>1, <3>2
  <2> QED BY <1>1, <2>1, <2>2, <2>3
<1>4. CASE Acquire(p) \/ GiveUp(p) \/ ReadState(p) \/ Act(p) \/ Refuse(p) \/ Unlock(p) \/ Crash(p)
  <2>1. Aside(p)
    BY <1>4, AcquireKeeps, OverKeeps, InsideKeeps
  <2>2. clock' = clock /\ grants' = grants
    BY <2>1 DEF Aside
  <2>3. \A time \in 0..clock : Fresh(time) => Fresh(time)'
    BY <2>1 DEF Aside, Fresh, Unwritten
  <2> QED BY <1>1, <2>2, <2>3
<1> QED BY <1>2, <1>3, <1>4

(***************************************************************************)
(* The steps of the broker.                                                 *)
(***************************************************************************)

LEMMA BrokerStarts == Init => Inv
<1> SUFFICES ASSUME Init PROVE Inv
  OBVIOUS
<1>1. RegistryInv
  BY RegistryStarts DEF Init
<1>2. \A a \in Analyses : at[a] = "new"
  BY DEF Init
<1>3. BrokerTypes
  <2>1. NoWant \in Wants
    BY BlankTyped, BrokerAssumption DEF NoWant, Wants
  <2> QED BY <2>1, BrokerAssumption DEF Init, BrokerTypes, Stage
<1> QED BY <1>1, <1>2, <1>3 DEF Inv, BrokerInv, WantsAreApprovals, ApprovedThen, SeenIsCurrent

\* Steps of the registry, between those of the analyses.
LEMMA RegistryAside ==
  ASSUME Inv, RegistryStep, UNCHANGED brokerVars PROVE Inv'
<1> USE DEF Inv, BrokerInv, brokerVars
<1>1. RegistryInv'
  BY RegistryKeeps
<1>2. BrokerTypes' /\ SeenIsCurrent'
  BY DEF BrokerTypes, SeenIsCurrent
<1>3. \A a \in Analyses : want[a] \in Wants /\ want[a].grant \in GrantsType /\ want[a].grant.at \in Nat
  BY RegistryAssumption DEF BrokerTypes, Wants, GrantsType
<1>4. WantsAreApprovals'
  <2>1. ASSUME NEW a \in Analyses, at[a] # "new"
        PROVE  want[a].grant.at <= clock' /\ Fresh(want[a].grant.at)'
    <3>1. want[a].grant.at <= clock /\ Fresh(want[a].grant.at) /\ want[a].grant.at \in Nat
      BY <1>3, <2>1 DEF WantsAreApprovals
    <3>2. clock \in Nat /\ clock' \in Nat /\ clock <= clock' /\ want'[a] = want[a]
      BY NotGivenAgain
    <3>3. want[a].grant.at \in 0..clock
      BY <3>1, <3>2
    <3> QED BY <3>1, <3>2, <3>3, NotGivenAgain
  <2> QED BY <2>1 DEF WantsAreApprovals
<1>5. ASSUME NEW a \in Analyses, at[a] # "new", grants'[Home] = want[a].grant
      PROVE  grants[Home] = want[a].grant
  BY <1>3, <1>5, NotGivenAgain, BrokerAssumption DEF WantsAreApprovals
<1>6. ApprovedThen'
  BY <1>5 DEF ApprovedThen
<1> QED BY <1>1, <1>2, <1>4, <1>6

LEMMA Calm ==
  ASSUME Inv, UNCHANGED registryVars
  PROVE  RegistryInv' /\ UNCHANGED <<installed, grants, clock>> /\ \A time : Fresh(time) => Fresh(time)'
BY RegistryRests DEF Inv, registryVars, Fresh, Unwritten

LEMMA ModelChangesKeeps == ASSUME Inv, ModelChanges PROVE Inv'
<1> USE DEF Inv, BrokerInv
<1>1. /\ UNCHANGED <<installed, grants, clock, at, want, held, loaded>>
      /\ revision' = revision + 1 /\ revision \in 0..MaxRevision /\ revision' \in 0..MaxRevision
      /\ RegistryInv' /\ \A time : Fresh(time) => Fresh(time)'
  <2>1. UNCHANGED registryVars
    BY DEF ModelChanges
  <2>2. revision < MaxRevision /\ revision' = revision + 1 /\ UNCHANGED <<at, want, held, loaded>>
    BY DEF ModelChanges
  <2>3. revision \in 0..MaxRevision
    BY DEF BrokerTypes
  <2> QED BY <2>1, <2>2, <2>3, Calm, BrokerAssumption
<1>2. /\ evidence' \in 0..revision'
      /\ stored' \in SUBSET [analysis : Analyses, evidence : 0..MaxRevision, current : BOOLEAN]
      /\ \A s \in stored : \E t \in stored' : t.analysis = s.analysis
  <2>1. CASE UNCHANGED <<evidence, stored>>
    BY <1>1, <2>1, BrokerAssumption DEF BrokerTypes
  <2>2. CASE evidence' = evidence + 1 /\ stored' = {[s EXCEPT !.current = FALSE] : s \in stored}
    <3>1. evidence' \in 0..revision'
      BY <1>1, <2>2, BrokerAssumption DEF BrokerTypes
    <3>2. ASSUME NEW s \in stored
          PROVE  /\ [s EXCEPT !.current = FALSE] \in Interpretations
                 /\ [s EXCEPT !.current = FALSE].analysis = s.analysis
                 /\ [s EXCEPT !.current = FALSE] \in stored'
      <4>1. s \in Interpretations
        BY <3>2 DEF BrokerTypes, Interpretations
      <4> QED BY <2>2, <3>2, <4>1 DEF Interpretations
    <3>3. \A t \in stored' : \E s \in stored : t = [s EXCEPT !.current = FALSE]
      BY <2>2
    <3>4. stored' \in SUBSET Interpretations
      BY <3>2, <3>3
    <3>5. \A s \in stored : \E t \in stored' : t.analysis = s.analysis
      BY <3>2
    <3> QED BY <3>1, <3>4, <3>5 DEF Interpretations
  <2> QED BY <2>1, <2>2 DEF ModelChanges
<1>3. BrokerTypes'
  BY <1>1, <1>2 DEF BrokerTypes
<1>4. \A a \in Analyses : at[a] # "new" => revision' # want'[a].revision
  BY <1>1 DEF WantsAreApprovals, BrokerTypes, Wants
<1>5. WantsAreApprovals' /\ ApprovedThen'
  BY <1>1 DEF WantsAreApprovals, ApprovedThen, BrokerTypes, Wants
<1>6. SeenIsCurrent'
  BY <1>1, <1>2, <1>4 DEF SeenIsCurrent
<1> QED BY <1>1, <1>3, <1>5, <1>6

LEMMA AskKeeps == ASSUME Inv, NEW a \in Analyses, Ask(a) PROVE Inv'
<1> USE DEF Inv, BrokerInv
<1>1. /\ UNCHANGED <<installed, grants, clock, revision, evidence, stored, held, loaded>>
      /\ at[a] = "new" /\ grants[Home] # NoGrant /\ at' = [at EXCEPT ![a] = "loading"]
      /\ want' = [want EXCEPT ![a] = [digest |-> grants[Home].digest, grant |-> grants[Home],
                                      revision |-> revision, evidence |-> evidence]]
      /\ RegistryInv' /\ \A time : Fresh(time) => Fresh(time)'
  BY Calm DEF Ask, Move, registryVars
<1> DEFINE mine == [digest |-> grants[Home].digest, grant |-> grants[Home],
                    revision |-> revision, evidence |-> evidence]
<1>2. mine \in Wants
  BY BrokerAssumption DEF Wants, RegistryInv, Types, GrantsType, BrokerTypes
<1>3. BrokerTypes'
  BY <1>1, <1>2 DEF BrokerTypes, Stage
<1>4. /\ mine.grant # NoGrant /\ mine.digest = mine.grant.digest
      /\ mine.grant.at <= clock /\ Fresh(mine.grant.at) /\ mine.revision <= revision
  BY <1>1, BrokerAssumption DEF RegistryInv, TimesDiffer, BrokerTypes
<1>5. want'[a] = mine /\ at'[a] = "loading" /\ \A b \in Analyses \ {a} : want'[b] = want[b] /\ at'[b] = at[b]
  BY <1>1 DEF BrokerTypes
<1> HIDE DEF mine
<1>6. WantsAreApprovals'
  BY <1>1, <1>4, <1>5 DEF WantsAreApprovals
<1>7. ApprovedThen' /\ SeenIsCurrent'
  BY <1>1, <1>5 DEF ApprovedThen, SeenIsCurrent
<1> QED BY <1>1, <1>3, <1>6, <1>7

LEMMA ReadAssetsKeeps == ASSUME Inv, NEW a \in Analyses, ReadAssets(a) PROVE Inv'
<1> USE DEF Inv, BrokerInv
<1>1. /\ UNCHANGED <<installed, grants, clock, revision, evidence, stored, want, held>>
      /\ at[a] # "new" /\ at' \in {at, [at EXCEPT ![a] = "unavailable"]}
      /\ loaded' \subseteq Analyses
      /\ RegistryInv' /\ \A time : Fresh(time) => Fresh(time)'
  BY Calm DEF ReadAssets, Move, registryVars, After, BrokerTypes
<1>2. BrokerTypes'
  BY <1>1 DEF BrokerTypes, Stage
<1>3. \A b \in Analyses : at'[b] = at[b] \/ (at[b] # "new" /\ at'[b] = "unavailable")
  BY <1>1 DEF BrokerTypes
<1>4. WantsAreApprovals' /\ ApprovedThen' /\ SeenIsCurrent'
  BY <1>1, <1>3 DEF WantsAreApprovals, ApprovedThen, SeenIsCurrent
<1> QED BY <1>1, <1>2, <1>4

LEMMA AbandonKeeps == ASSUME Inv, NEW a \in Analyses, Abandon(a) PROVE Inv'
<1> USE DEF Inv, BrokerInv
<1>1. /\ UNCHANGED <<installed, grants, clock, revision, evidence, stored, want, held>>
      /\ at[a] # "new" /\ at' = [at EXCEPT ![a] = "unavailable"]
      /\ loaded' \subseteq Analyses
      /\ RegistryInv' /\ \A time : Fresh(time) => Fresh(time)'
  BY Calm DEF Abandon, Move, registryVars, BrokerTypes
<1>2. BrokerTypes'
  BY <1>1 DEF BrokerTypes, Stage
<1>3. \A b \in Analyses : at'[b] = at[b] \/ (at[b] # "new" /\ at'[b] = "unavailable")
  BY <1>1 DEF BrokerTypes
<1>4. WantsAreApprovals' /\ ApprovedThen' /\ SeenIsCurrent'
  BY <1>1, <1>3 DEF WantsAreApprovals, ApprovedThen, SeenIsCurrent
<1> QED BY <1>1, <1>2, <1>4

\* An approval that is still the one asked with was so when the answer came, or at the admission.
LEMMA ReadGrantKeeps == ASSUME Inv, NEW a \in Analyses, ReadGrant(a) PROVE Inv'
<1> USE DEF Inv, BrokerInv
<1>1. PICK place \in Stage :
      /\ UNCHANGED <<installed, grants, clock, revision, evidence, stored, want, held>>
      /\ at' = [at EXCEPT ![a] = place] /\ loaded' \subseteq Analyses
      /\ RegistryInv' /\ \A time : Fresh(time) => Fresh(time)'
      /\ \/ place = "unavailable" /\ at[a] # "new"
         \/ /\ grants[Home] = want[a].grant
            /\ <<at[a], place>> \in {<<"loading", "checked">>, <<"checked", "authorized">>,
                                     <<"answered", "confirmed">>, <<"stored", "affirmed">>,
                                     <<"returned", "complete">>}
  <2>1. /\ UNCHANGED <<installed, grants, clock, revision, evidence, stored, want, held>>
        /\ loaded' \subseteq Analyses
        /\ RegistryInv' /\ \A time : Fresh(time) => Fresh(time)'
    BY Calm DEF ReadGrant, registryVars, BrokerTypes
  <2>2. at[a] \in {"loading", "checked", "answered", "stored", "returned"}
    BY DEF ReadGrant, After
  <2>3. at' = [at EXCEPT ![a] = IF grants[Home] = want[a].grant THEN After[at[a]] ELSE "unavailable"]
    BY DEF ReadGrant, Move
  <2>4. CASE grants[Home] # want[a].grant
    BY <2>1, <2>2, <2>3, <2>4 DEF Stage
  <2>5. CASE grants[Home] = want[a].grant
    <3>1. at' = [at EXCEPT ![a] = After[at[a]]]
      BY <2>3, <2>5
    <3>2. /\ <<at[a], After[at[a]]>> \in {<<"loading", "checked">>, <<"checked", "authorized">>,
                                          <<"answered", "confirmed">>, <<"stored", "affirmed">>,
                                          <<"returned", "complete">>}
          /\ After[at[a]] \in Stage
      BY <2>2 DEF After, Stage
    <3> QED BY <2>1, <2>5, <3>1, <3>2
  <2> QED BY <2>4, <2>5
<1>2. BrokerTypes'
  BY <1>1 DEF BrokerTypes, Stage
<1>3. at'[a] = place /\ at[a] # "new" /\ \A b \in Analyses \ {a} : at'[b] = at[b]
  BY <1>1 DEF BrokerTypes
<1>4. WantsAreApprovals'
  BY <1>1, <1>3 DEF WantsAreApprovals
<1>5. ApprovedThen'
  BY <1>1, <1>3 DEF ApprovedThen
<1>6. SeenIsCurrent'
  BY <1>1, <1>3 DEF SeenIsCurrent
<1> QED BY <1>1, <1>2, <1>4, <1>5, <1>6

LEMMA EvaluateKeeps == ASSUME Inv, NEW a \in Analyses, Evaluate(a) PROVE Inv'
<1> USE DEF Inv, BrokerInv
<1>1. PICK place \in {"asked", "unavailable"} :
      /\ UNCHANGED <<installed, grants, clock, revision, evidence, stored, held, loaded>>
      /\ at[a] = "authorized" /\ at' = [at EXCEPT ![a] = place]
      /\ place = "asked" => want' = [want EXCEPT ![a].evidence = evidence]
      /\ place = "unavailable" => want' = want
      /\ RegistryInv' /\ \A time : Fresh(time) => Fresh(time)'
  BY Calm DEF Evaluate, Move, registryVars
<1>2. /\ want' \in [Analyses -> Wants]
      /\ at'[a] = place /\ \A b \in Analyses \ {a} : want'[b] = want[b] /\ at'[b] = at[b]
      /\ place = "asked" => want'[a].evidence = evidence
      /\ want'[a].grant = want[a].grant /\ want'[a].digest = want[a].digest
      /\ want'[a].revision = want[a].revision
  <2>1. want \in [Analyses -> Wants] /\ evidence \in 0..MaxRevision /\ at \in [Analyses -> Stage]
    BY BrokerAssumption DEF BrokerTypes
  <2> QED BY <1>1, <2>1 DEF Wants
<1>3. BrokerTypes'
  BY <1>1, <1>2 DEF BrokerTypes, Stage
<1>4. WantsAreApprovals'
  BY <1>1, <1>2 DEF WantsAreApprovals
<1>5. ApprovedThen' /\ SeenIsCurrent'
  BY <1>1, <1>2 DEF ApprovedThen, SeenIsCurrent
<1> QED BY <1>1, <1>3, <1>4, <1>5

\* An approval of the installed version is in force as long as it stands.
LEMMA StandingIsInForce ==
  ASSUME Inv, NEW a \in Analyses, at[a] # "new", grants[Home] = want[a].grant
  PROVE  InForce(a)
BY BrokerAssumption DEF Inv, BrokerInv, WantsAreApprovals, RegistryInv, ApprovalsAreOfInstalled, InForce

LEMMA AnswerKeeps == ASSUME Inv, NEW a \in Analyses, Answer(a) PROVE Inv'
<1> USE DEF Inv, BrokerInv
<1>1. PICK place \in {"answered", "unavailable"} :
      /\ UNCHANGED <<installed, grants, clock, revision, evidence, stored, want, loaded>>
      /\ at[a] = "asked" /\ at' = [at EXCEPT ![a] = place]
      /\ held' = [held EXCEPT ![a] = IF InForce(a) THEN @ \union {"answer"} ELSE @]
      /\ RegistryInv' /\ \A time : Fresh(time) => Fresh(time)'
  BY Calm DEF Answer, Move, Held, registryVars
<1>2. /\ at'[a] = place /\ \A b \in Analyses \ {a} : held'[b] = held[b] /\ at'[b] = at[b]
      /\ held'[a] \subseteq {"answer", "admission"}
      /\ InForce(a) => "answer" \in held'[a]
  BY <1>1 DEF BrokerTypes
<1>3. BrokerTypes'
  BY <1>1, <1>2 DEF BrokerTypes, Stage
<1>4. grants[Home] = want[a].grant => "answer" \in held'[a]
  BY <1>1, <1>2, StandingIsInForce
<1>5. WantsAreApprovals' /\ SeenIsCurrent'
  BY <1>1, <1>2 DEF WantsAreApprovals, SeenIsCurrent
<1>6. ApprovedThen'
  BY <1>1, <1>2, <1>4 DEF ApprovedThen
<1> QED BY <1>1, <1>3, <1>5, <1>6

LEMMA ConfirmKeeps == ASSUME Inv, NEW a \in Analyses, Confirm(a) PROVE Inv'
<1> USE DEF Inv, BrokerInv
<1>1. PICK place \in {"returned", "unavailable"} :
      /\ UNCHANGED <<installed, grants, clock, revision, evidence, stored, want, held, loaded>>
      /\ at[a] = "affirmed" /\ at' = [at EXCEPT ![a] = place]
      /\ RegistryInv' /\ \A time : Fresh(time) => Fresh(time)'
  BY Calm DEF Confirm, Move, registryVars
<1>2. at'[a] = place /\ \A b \in Analyses \ {a} : at'[b] = at[b]
  BY <1>1 DEF BrokerTypes
<1>3. BrokerTypes'
  BY <1>1 DEF BrokerTypes, Stage
<1>4. WantsAreApprovals' /\ ApprovedThen' /\ SeenIsCurrent'
  BY <1>1, <1>2 DEF WantsAreApprovals, ApprovedThen, SeenIsCurrent
<1> QED BY <1>1, <1>3, <1>4

\* The model takes the interpretations of an analysis whose evidence has not changed.
LEMMA AdmitKeeps == ASSUME Inv, NEW a \in Analyses, Admit(a) PROVE Inv'
<1> USE DEF Inv, BrokerInv
<1>1. /\ UNCHANGED <<installed, grants, clock, evidence, loaded>> /\ at[a] = "confirmed"
      /\ RegistryInv' /\ \A time : Fresh(time) => Fresh(time)'
  BY Calm DEF Admit, registryVars
<1>2. CASE Move(a, "unavailable") /\ UNCHANGED <<revision, stored, want, held>>
  <2>1. at' = [at EXCEPT ![a] = "unavailable"]
    BY <1>2 DEF Move
  <2>2. at'[a] = "unavailable" /\ \A b \in Analyses \ {a} : at'[b] = at[b]
    BY <2>1 DEF BrokerTypes
  <2>3. BrokerTypes'
    BY <1>1, <1>2, <2>1 DEF BrokerTypes, Stage
  <2>4. WantsAreApprovals' /\ ApprovedThen' /\ SeenIsCurrent'
    BY <1>1, <1>2, <2>2 DEF WantsAreApprovals, ApprovedThen, SeenIsCurrent
  <2> QED BY <1>1, <2>3, <2>4
<1>3. CASE /\ revision = want[a].revision /\ revision < MaxRevision /\ revision' = revision + 1
           /\ stored' = stored \union {[analysis |-> a, evidence |-> want[a].evidence, current |-> TRUE]}
           /\ want' = [want EXCEPT ![a].revision = revision']
           /\ Move(a, "stored") /\ Held(a, "admission")
  <2> DEFINE mine == [analysis |-> a, evidence |-> want[a].evidence, current |-> TRUE]
  <2>1. /\ revision \in 0..MaxRevision /\ revision' \in 0..MaxRevision /\ evidence \in 0..revision'
        /\ want[a].evidence = evidence
    BY <1>1, <1>3, BrokerAssumption DEF BrokerTypes, SeenIsCurrent
  <2>2. /\ mine \in Interpretations /\ mine \in stored'
        /\ mine.analysis = a /\ mine.current /\ mine.evidence = evidence
    BY <1>3, <2>1, BrokerAssumption DEF BrokerTypes, Interpretations
  <2>3. stored \subseteq stored' /\ stored' \in SUBSET Interpretations
    BY <1>3, <2>2 DEF BrokerTypes, Interpretations
  <2> HIDE DEF mine
  <2>4. /\ want' \in [Analyses -> Wants]
        /\ \A b \in Analyses \ {a} : want'[b] = want[b]
        /\ want'[a].grant = want[a].grant /\ want'[a].digest = want[a].digest
        /\ want'[a].revision = revision'
    <3>1. want \in [Analyses -> Wants]
      BY DEF BrokerTypes
    <3> QED BY <1>3, <2>1, <3>1 DEF Wants
  <2>5. at' = [at EXCEPT ![a] = "stored"] /\ at'[a] = "stored" /\ \A b \in Analyses \ {a} : at'[b] = at[b]
    BY <1>3 DEF Move, BrokerTypes
  <2>6. /\ \A b \in Analyses \ {a} : held'[b] = held[b]
        /\ held[a] \subseteq held'[a] /\ held'[a] \subseteq {"answer", "admission"}
        /\ InForce(a) => "admission" \in held'[a]
        /\ held' \in [Analyses -> SUBSET {"answer", "admission"}]
    BY <1>3 DEF Held, BrokerTypes
  <2>7. BrokerTypes'
    BY <1>1, <2>1, <2>3, <2>4, <2>5, <2>6 DEF BrokerTypes, Stage, Interpretations
  <2>8. WantsAreApprovals'
    BY <1>1, <1>3, <2>1, <2>4, <2>5, BrokerAssumption DEF WantsAreApprovals, BrokerTypes, Wants
  <2>9. ApprovedThen'
    <3>1. grants[Home] = want[a].grant => "admission" \in held'[a]
      BY <1>1, <2>6, StandingIsInForce
    <3> QED BY <1>1, <2>4, <2>5, <2>6, <3>1 DEF ApprovedThen
  <2>10. SeenIsCurrent'
    <3>1. ASSUME NEW b \in Analyses \ {a}, at[b] # "new" PROVE revision' # want'[b].revision
      BY <1>3, <2>1, <2>4, <3>1, BrokerAssumption DEF WantsAreApprovals, BrokerTypes, Wants
    <3> QED BY <1>1, <2>2, <2>3, <2>4, <2>5, <3>1 DEF SeenIsCurrent
  <2> QED BY <1>1, <2>7, <2>8, <2>9, <2>10
<1> QED BY <1>2, <1>3 DEF Admit

LEMMA InvKeeps == Inv /\ [Next]_vars => Inv'
<1> SUFFICES ASSUME Inv, [Next]_vars PROVE Inv'
  OBVIOUS
<1>1. CASE UNCHANGED vars
  <2>1. UNCHANGED registryVars /\ UNCHANGED brokerVars
    BY <1>1 DEF vars
  <2> QED BY <2>1, Calm DEF Inv, BrokerInv, brokerVars, BrokerTypes, WantsAreApprovals, ApprovedThen,
             SeenIsCurrent
<1>2. CASE RegistryStep /\ UNCHANGED brokerVars
  BY <1>2, RegistryAside
<1>3. CASE ModelChanges
  BY <1>3, ModelChangesKeeps
<1>4. ASSUME NEW a \in Analyses,
             \/ Ask(a) \/ ReadAssets(a) \/ ReadGrant(a) \/ Evaluate(a) \/ Answer(a)
             \/ Admit(a) \/ Confirm(a) \/ Abandon(a)
      PROVE  Inv'
  BY <1>4, AskKeeps, ReadAssetsKeeps, ReadGrantKeeps, EvaluateKeeps, AnswerKeeps, AdmitKeeps,
     ConfirmKeeps, AbandonKeeps
<1> QED BY <1>1, <1>2, <1>3, <1>4 DEF Next

(***************************************************************************)
(* What follows.                                                            *)
(***************************************************************************)

\* The types of the registry and of the broker, and one process past the lock directory.
THEOREM TypesHold == Spec => []TypeOK
<1>1. Inv => TypeOK
  <2> SUFFICES ASSUME Inv PROVE TypeOK
    OBVIOUS
  <2>1. Cardinality(Inside) <= 1
    <3>1. CASE Inside = {}
      BY <3>1, FS_EmptySet
    <3>2. CASE Inside # {}
      <4>1. PICK p \in Inside : Inside = {p}
        BY <3>2 DEF Inv, RegistryInv, OneInside
      <4>2. Cardinality({p}) = 1
        BY FS_Singleton
      <4> QED BY <4>1, <4>2
    <3> QED BY <3>1, <3>2
  <2>2. [installed |-> installed, grants |-> grants] \in CatalogueType
    BY DEF Inv, RegistryInv, Types, CatalogueType
  <2>3. RegistryTypeOK
    BY <2>1, <2>2 DEF RegistryTypeOK, Inv, RegistryInv, Types, OneInside, Places
  <2>4. {Stages[i] : i \in DOMAIN Stages} \union {"unavailable"} = Stage
    BY DEF Stages, Stage
  <2> QED BY <2>3, <2>4, BrokerAssumption DEF TypeOK, Inv, BrokerInv, BrokerTypes
<1> QED BY <1>1, BrokerStarts, InvKeeps, PTL DEF Spec

\* Approvals name the installed version, whose bundle is there (registry.mjs:59-84), whoever
\* writes at once and dies when.
THEOREM ApprovalsFollow == Spec => []ApprovalsAreOfInstalled
<1>1. Inv => ApprovalsAreOfInstalled
  BY DEF Inv, RegistryInv
<1> QED BY <1>1, BrokerStarts, InvKeeps, PTL DEF Spec

LEMMA CatalogueStarts == Init => Catalogue!CatalogueInit
BY DEF Init, RegistryInit, Blank, NoGrant, Catalogue!CatalogueInit, Catalogue!NoGrant

\* The registry implements the catalogue: whole operations, one after the other.
THEOREM CatalogueImplemented == Spec => WritesAreAtomic
<1>1. Inv /\ [Next]_vars => [Catalogue!CatalogueNext]_(Catalogue!catalogue)
  <2> SUFFICES ASSUME Inv, [Next]_vars PROVE [Catalogue!CatalogueNext]_(Catalogue!catalogue)
    OBVIOUS
  <2>1. CASE RegistryStep
    BY <2>1, CatalogueStep DEF Inv
  <2>2. CASE ~ RegistryStep
    <3>1. UNCHANGED registryVars
      BY <2>2 DEF Next, vars, ModelChanges, Ask, ReadAssets, ReadGrant, Evaluate, Answer, Admit,
         Confirm, Abandon
    <3> QED BY <3>1 DEF registryVars, Catalogue!catalogue
  <2> QED BY <2>1, <2>2
<1> QED BY <1>1, CatalogueStarts, BrokerStarts, InvKeeps, PTL DEF Spec, WritesAreAtomic, Catalogue!CatalogueSpec

\* Interpretations are admitted on the evidence they were asked about and under an approval in
\* force after the answer; a complete analysis was approved at its admission and is stored
\* (broker.mjs, whatever changed between its awaits).
THEOREM AnalysesHold == Spec => AnalysisHolds
<1>1. Inv /\ [Next]_vars => [AdmissionIsCurrent /\ CompleteIsApprovedAndStored]_vars
  <2> SUFFICES ASSUME Inv, Next PROVE AdmissionIsCurrent /\ CompleteIsApprovedAndStored
    OBVIOUS
  <2>1. AdmissionIsCurrent
    <3> SUFFICES ASSUME NEW s \in stored' \ stored, ~ \E t \in stored : t.analysis = s.analysis
                 PROVE  s.evidence = evidence /\ "answer" \in held[s.analysis]
      BY DEF AdmissionIsCurrent
    <3>1. CASE ModelChanges
      <4>1. \E t \in stored : s = [t EXCEPT !.current = FALSE]
        BY <3>1 DEF ModelChanges
      <4> QED BY <4>1 DEF Inv, BrokerInv, BrokerTypes
    <3>2. ASSUME NEW a \in Analyses, Admit(a) PROVE s.evidence = evidence /\ "answer" \in held[s.analysis]
      <4>1. /\ s = [analysis |-> a, evidence |-> want[a].evidence, current |-> TRUE]
            /\ at[a] = "confirmed" /\ revision = want[a].revision
        BY <3>2 DEF Admit
      <4>2. want[a].evidence = evidence /\ "answer" \in held[a]
        BY <4>1 DEF Inv, BrokerInv, SeenIsCurrent, ApprovedThen
      <4> QED BY <4>1, <4>2
    <3>3. CASE UNCHANGED stored
      BY <3>3
    <3> QED BY <3>1, <3>2, <3>3 DEF Next, brokerVars, Ask, ReadAssets, ReadGrant, Evaluate, Answer,
               Confirm, Abandon
  <2>2. ASSUME NEW a \in Analyses, at[a] = "complete"
        PROVE  "admission" \in held[a] /\ \E s \in stored : s.analysis = a
    BY <2>2 DEF Inv, BrokerInv, ApprovedThen, SeenIsCurrent
  <2>3. ASSUME NEW a \in Analyses, at'[a] = "returned", at[a] # "returned"
        PROVE  \E s \in stored : s.analysis = a /\ s.current /\ s.evidence = evidence
    <3>1. at \in [Analyses -> Stage]
      BY DEF Inv, BrokerInv, BrokerTypes
    <3>2. Confirm(a) /\ revision = want[a].revision
      BY <2>3, <3>1 DEF Next, brokerVars, ModelChanges, Ask, ReadAssets, ReadGrant, Evaluate, Answer,
         Admit, Confirm, Abandon, Move, After
    <3> QED BY <3>2 DEF Confirm, Inv, BrokerInv, SeenIsCurrent
  <2> QED BY <2>1, <2>2, <2>3 DEF CompleteIsApprovedAndStored
<1> QED BY <1>1, BrokerStarts, InvKeeps, PTL DEF Spec, AnalysisHolds

(***************************************************************************)
(* The dialogs: whose answer may still be shown.                            *)
(***************************************************************************)

PanelTypes ==
    /\ opened \in [Dialogs -> BOOLEAN] /\ loading \in [Dialogs -> BOOLEAN]
    /\ failed \in [Dialogs -> BOOLEAN]
    /\ ticket \in [Dialogs -> Nat] /\ content \in [Dialogs -> Nat] /\ began \in [Dialogs -> Nat]
    /\ \A c \in asked : c \in [dialog : Dialogs, ticket : Nat, aborted : BOOLEAN]
    /\ \A t \in copying : t \in Nat
    /\ copied \in Nat /\ lookups \in 0..1

\* No request is of a ticket still to come. Only the log gives up requests, and then all but
\* the newest.
AskedHolds ==
    \A c \in asked :
        /\ c.ticket \in 1..ticket[c.dialog]
        /\ c.dialog = "connection" => ~ c.aborted
        /\ c.dialog = "log" /\ ~ c.aborted => c.ticket = ticket["log"]

\* An opening has a ticket of its own, and what is copied under the present one is still shown.
OpenedHolds ==
    /\ \A d \in Dialogs : opened[d] => began[d] \in 1..ticket[d]
    /\ \A t \in copying : t \in 1..ticket["connection"]
    /\ opened["connection"] /\ ticket["connection"] \in copying
        => content["connection"] = ticket["connection"]

\* PanelsAreOwn without its bound on requests, which follows from the rest.
ShownHolds ==
    /\ \A d \in Dialogs :
        /\ content[d] # 0 => opened[d] /\ content[d] \in began[d]..ticket[d]
        /\ loading[d] <=> opened[d] /\ \E c \in asked :
                            c.dialog = d /\ c.ticket = ticket[d] /\ ~ c.aborted
    /\ content["connection"] # 0 => content["connection"] = ticket["connection"]
    /\ copied # 0 => copied = content["connection"]

PanelsInv == PanelTypes /\ AskedHolds /\ OpenedHolds /\ ShownHolds

\* Requests under way after the log has given up its own, and after nothing was given up.
LEMMA AbortEffect ==
  ASSUME PanelTypes, NEW d \in Dialogs
  PROVE  /\ \A c \in abortLoad(d) : c \in [dialog : Dialogs, ticket : Nat, aborted : BOOLEAN]
         /\ \A c \in abortLoad(d) : \E a \in asked : c.dialog = a.dialog /\ c.ticket = a.ticket
                                        /\ (a.aborted => c.aborted)
         /\ \A c \in abortLoad(d) : c.dialog = "connection" => c \in asked
         /\ d = "log" => \A c \in abortLoad(d) : c.dialog = "log" => c.aborted
         /\ \A c \in asked : c.dialog = "connection" => c \in abortLoad(d)
         /\ d # "log" => abortLoad(d) = asked
<1>1. CASE d # "log"
  BY <1>1 DEF abortLoad, PanelTypes, Dialogs
<1>2. CASE d = "log"
  <2> DEFINE given(a) == [a EXCEPT !.aborted = a.aborted \/ a.dialog = "log"]
  <2>1. abortLoad(d) = {given(a) : a \in asked}
    BY <1>2 DEF abortLoad
  <2>2. ASSUME NEW a \in asked
        PROVE  /\ given(a) \in [dialog : Dialogs, ticket : Nat, aborted : BOOLEAN]
               /\ given(a).dialog = a.dialog /\ given(a).ticket = a.ticket
               /\ a.aborted \/ a.dialog = "log" => given(a).aborted
               /\ a.dialog = "connection" => given(a) = a
    <3>1. a \in [dialog : Dialogs, ticket : Nat, aborted : BOOLEAN]
      BY DEF PanelTypes
    <3> QED
      BY <3>1
  <2> HIDE DEF given
  <2>3. \A a \in asked : given(a) \in abortLoad(d)
    BY <2>1
  <2>4. \A c \in abortLoad(d) : \E a \in asked : c = given(a)
    BY <2>1
  <2> QED
    BY <1>2, <2>2, <2>3, <2>4
<1> QED
  BY <1>1, <1>2

\* A dialog that is opened, or asks again, shows what it asked before or nothing.
LEMMA LoadKeeps ==
  ASSUME PanelsInv, NEW d \in Dialogs, Load(d),
         UNCHANGED <<copying, aboutVars>>,
         \/ ~ opened[d] /\ opened' = [opened EXCEPT ![d] = TRUE] /\ began' = [began EXCEPT ![d] = ticket[d] + 1]
         \/ opened[d] /\ UNCHANGED <<opened, began>>
  PROVE  PanelsInv'
<1> DEFINE new == [dialog |-> d, ticket |-> ticket[d] + 1, aborted |-> FALSE]
<1>i. PanelTypes /\ AskedHolds /\ OpenedHolds /\ ShownHolds
  BY DEF PanelsInv
<1>1. new \in [dialog : Dialogs, ticket : Nat, aborted : BOOLEAN] /\ new \in asked'
  BY <1>i DEF PanelTypes, Load
<1>2. \A c \in asked' : c = new \/ c \in abortLoad(d)
  BY DEF Load
<1>3. /\ ticket' \in [Dialogs -> Nat] /\ ticket'[d] = ticket[d] + 1 /\ ticket[d] \in Nat
      /\ \A o \in Dialogs : o # d => ticket'[o] = ticket[o]
  BY <1>i DEF PanelTypes, Load
<1>4. /\ opened' \in [Dialogs -> BOOLEAN] /\ opened'[d] /\ began' \in [Dialogs -> Nat]
      /\ \A o \in Dialogs : o # d => opened'[o] = opened[o] /\ began'[o] = began[o]
      /\ began'[d] \in 1..(ticket[d] + 1)
  <2>1. CASE opened' = [opened EXCEPT ![d] = TRUE] /\ began' = [began EXCEPT ![d] = ticket[d] + 1]
    BY <1>i, <2>1 DEF PanelTypes
  <2>2. CASE opened[d] /\ UNCHANGED <<opened, began>>
    BY <1>i, <2>2 DEF PanelTypes, OpenedHolds
  <2> QED
    BY <2>1, <2>2
<1>5. /\ loading' \in [Dialogs -> BOOLEAN] /\ loading'[d] /\ failed' \in [Dialogs -> BOOLEAN]
      /\ \A o \in Dialogs : o # d => loading'[o] = loading[o]
  BY <1>i DEF PanelTypes, Load
<1>6. /\ content' \in [Dialogs -> Nat] /\ copied' \in Nat
      /\ \A o \in Dialogs : o # d => content'[o] = content[o]
      /\ d = "connection" => content'[d] = 0 /\ copied' = 0
      /\ d # "connection" => content' = content /\ copied' = copied
  BY <1>i DEF PanelTypes, Load
<1>7. copying' = copying /\ lookups' = lookups
  BY DEF aboutVars
<1>8. PanelTypes'
  <2>1. \A c \in asked' : c \in [dialog : Dialogs, ticket : Nat, aborted : BOOLEAN]
    BY <1>i, <1>1, <1>2, AbortEffect
  <2> HIDE DEF new
  <2> QED
    BY <1>i, <1>3, <1>4, <1>5, <1>6, <1>7, <2>1 DEF PanelTypes
<1>9. AskedHolds'
  <2>1. ASSUME NEW c \in asked'
        PROVE  /\ c.ticket \in 1..ticket'[c.dialog]
               /\ c.dialog = "connection" => ~ c.aborted
               /\ c.dialog = "log" /\ ~ c.aborted => c.ticket = ticket'["log"]
    <3>1. CASE c = new
      BY <1>1, <1>3, <3>1
    <3>2. CASE c \in abortLoad(d)
      <4>1. PICK a \in asked : c.dialog = a.dialog /\ c.ticket = a.ticket /\ (a.aborted => c.aborted)
        BY <1>i, <3>2, AbortEffect
      <4>2. a.ticket \in 1..ticket[a.dialog] /\ a.dialog \in Dialogs /\ ticket[a.dialog] \in Nat
        BY <1>i DEF PanelTypes, AskedHolds
      <4>3. c.ticket \in 1..ticket'[c.dialog]
        BY <1>3, <4>1, <4>2
      <4>4. c.dialog = "connection" => ~ c.aborted
        BY <1>i, <3>2, AbortEffect DEF AskedHolds
      <4>5. c.dialog = "log" /\ ~ c.aborted => c.ticket = ticket'["log"]
        BY <1>i, <1>3, <3>2, <4>1, AbortEffect DEF AskedHolds, Dialogs
      <4> QED
        BY <4>3, <4>4, <4>5
    <3> QED
      BY <1>2, <3>1, <3>2
  <2> QED
    BY <2>1 DEF AskedHolds
<1>10. OpenedHolds'
  <2>1. \A t \in copying : t \in 1..ticket["connection"]
    BY <1>i DEF OpenedHolds
  <2> QED
    BY <1>i, <1>3, <1>4, <1>6, <1>7, <2>1 DEF OpenedHolds, Dialogs
<1>11. ASSUME NEW o \in Dialogs
       PROVE  /\ content'[o] # 0 => opened'[o] /\ content'[o] \in began'[o]..ticket'[o]
              /\ loading'[o] <=> opened'[o] /\ \E c \in asked' :
                                  c.dialog = o /\ c.ticket = ticket'[o] /\ ~ c.aborted
  <2>1. CASE o = d
    <3>1. content'[o] # 0 => opened'[o] /\ content'[o] \in began'[o]..ticket'[o]
      <4>1. CASE opened[d] /\ UNCHANGED <<opened, began>>
        BY <1>i, <2>1, <1>3, <1>4, <1>6, <4>1 DEF ShownHolds, PanelTypes
      <4>2. CASE ~ opened[d]
        BY <1>i, <2>1, <1>6, <4>2 DEF ShownHolds, Dialogs
      <4> QED
        BY <4>1, <4>2
    <3>2. new.dialog = d /\ new.ticket = ticket'[d] /\ ~ new.aborted
      BY <1>3
    <3> QED
      BY <1>1, <1>4, <1>5, <2>1, <3>1, <3>2
  <2>2. CASE o # d
    <3>1. ticket'[o] = ticket[o] /\ opened'[o] = opened[o] /\ began'[o] = began[o]
          /\ content'[o] = content[o] /\ loading'[o] = loading[o]
      BY <1>3, <1>4, <1>5, <1>6, <2>2
    <3>2. (\E c \in asked' : c.dialog = o /\ c.ticket = ticket'[o] /\ ~ c.aborted)
          <=> \E c \in asked : c.dialog = o /\ c.ticket = ticket[o] /\ ~ c.aborted
      <4>1. CASE d # "log"
        <5>1. asked' = asked \union {new}
          BY <1>i, <4>1, AbortEffect DEF Load
        <5> QED
          BY <2>2, <3>1, <5>1
      <4>2. CASE d = "log"
        <5>1. o = "connection"
          BY <2>2, <4>2 DEF Dialogs
        <5>2. \A c : c.dialog = "connection" => (c \in asked' <=> c \in asked)
          BY <1>i, <1>1, <1>2, <4>2, AbortEffect DEF Load
        <5> QED
          BY <3>1, <5>1, <5>2
      <4> QED
        BY <4>1, <4>2
    <3> QED
      BY <1>i, <3>1, <3>2 DEF ShownHolds
  <2> QED
    BY <2>1, <2>2
<1>12. ShownHolds'
  BY <1>i, <1>3, <1>6, <1>11 DEF ShownHolds, Dialogs
<1> QED
  BY <1>8, <1>9, <1>10, <1>12 DEF PanelsInv

\* A closed dialog shows nothing; the other one keeps what it has.
LEMMA CloseKeeps ==
  ASSUME PanelsInv, NEW d \in Dialogs, CloseDialog(d)
  PROVE  PanelsInv'
<1>i. PanelTypes /\ AskedHolds /\ OpenedHolds /\ ShownHolds
  BY DEF PanelsInv
<1>1. /\ ticket' \in [Dialogs -> Nat] /\ ticket'[d] = ticket[d] + 1 /\ ticket[d] \in Nat
      /\ \A o \in Dialogs : o # d => ticket'[o] = ticket[o]
  BY <1>i DEF PanelTypes, CloseDialog, Finished
<1>2. /\ opened' \in [Dialogs -> BOOLEAN] /\ ~ opened'[d]
      /\ loading' \in [Dialogs -> BOOLEAN] /\ ~ loading'[d] /\ failed' \in [Dialogs -> BOOLEAN]
      /\ \A o \in Dialogs : o # d => opened'[o] = opened[o] /\ loading'[o] = loading[o]
  BY <1>i DEF PanelTypes, CloseDialog, Finished
<1>3. /\ content' \in [Dialogs -> Nat] /\ content'[d] = 0 /\ copied' \in Nat
      /\ \A o \in Dialogs : o # d => content'[o] = content[o]
      /\ IF d = "connection" THEN copied' = 0 ELSE copied' = copied
  BY <1>i DEF PanelTypes, CloseDialog, Finished
<1>4. asked' = abortLoad(d) /\ copying' = copying /\ lookups' = lookups /\ began' = began
  BY DEF CloseDialog, Finished, aboutVars
<1>5. PanelTypes'
  BY <1>i, <1>1, <1>2, <1>3, <1>4, AbortEffect DEF PanelTypes
<1>6. AskedHolds'
  <2>1. ASSUME NEW c \in abortLoad(d)
        PROVE  /\ c.ticket \in 1..ticket'[c.dialog]
               /\ c.dialog = "connection" => ~ c.aborted
               /\ c.dialog = "log" /\ ~ c.aborted => c.ticket = ticket'["log"]
    <3>1. PICK a \in asked : c.dialog = a.dialog /\ c.ticket = a.ticket /\ (a.aborted => c.aborted)
      BY <1>i, AbortEffect
    <3>2. a.ticket \in 1..ticket[a.dialog] /\ a.dialog \in Dialogs /\ ticket[a.dialog] \in Nat
      BY <1>i DEF PanelTypes, AskedHolds
    <3>3. c.ticket \in 1..ticket'[c.dialog]
      BY <1>1, <3>1, <3>2
    <3>4. c.dialog = "connection" => ~ c.aborted
      BY <1>i, AbortEffect DEF AskedHolds
    <3>5. c.dialog = "log" /\ ~ c.aborted => c.ticket = ticket'["log"]
      BY <1>i, <1>1, <3>1, AbortEffect DEF AskedHolds, Dialogs
    <3> QED
      BY <3>3, <3>4, <3>5
  <2> QED
    BY <1>4, <2>1 DEF AskedHolds
<1>7. OpenedHolds'
  BY <1>i, <1>1, <1>2, <1>3, <1>4 DEF OpenedHolds, Dialogs
<1>8. ASSUME NEW o \in Dialogs
      PROVE  /\ content'[o] # 0 => opened'[o] /\ content'[o] \in began'[o]..ticket'[o]
             /\ loading'[o] <=> opened'[o] /\ \E c \in asked' :
                                 c.dialog = o /\ c.ticket = ticket'[o] /\ ~ c.aborted
  <2>1. CASE o = d
    BY <1>2, <1>3, <2>1
  <2>2. CASE o # d
    <3>1. ticket'[o] = ticket[o] /\ opened'[o] = opened[o] /\ began'[o] = began[o]
          /\ content'[o] = content[o] /\ loading'[o] = loading[o]
      BY <1>1, <1>2, <1>3, <1>4, <2>2
    <3>2. (\E c \in asked' : c.dialog = o /\ c.ticket = ticket'[o] /\ ~ c.aborted)
          <=> \E c \in asked : c.dialog = o /\ c.ticket = ticket[o] /\ ~ c.aborted
      <4>1. CASE d # "log"
        BY <1>i, <1>4, <3>1, <4>1, AbortEffect
      <4>2. CASE d = "log"
        <5>1. o = "connection"
          BY <2>2, <4>2 DEF Dialogs
        <5>2. \A c : c.dialog = "connection" => (c \in asked' <=> c \in asked)
          BY <1>i, <1>4, AbortEffect
        <5> QED
          BY <3>1, <5>1, <5>2
      <4> QED
        BY <4>1, <4>2
    <3> QED
      BY <1>i, <3>1, <3>2 DEF ShownHolds
  <2> QED
    BY <2>1, <2>2
<1>9. ShownHolds'
  BY <1>i, <1>1, <1>3, <1>8 DEF ShownHolds, Dialogs
<1> QED
  BY <1>5, <1>6, <1>7, <1>9 DEF PanelsInv

\* Only the answer to the newest request of an open dialog changes what it shows.
LEMMA PanelAnswerKeeps ==
  ASSUME PanelsInv, NEW c \in asked, Answered(c)
  PROVE  PanelsInv'
<1>i. PanelTypes /\ AskedHolds /\ OpenedHolds /\ ShownHolds
  BY DEF PanelsInv
<1>1. /\ asked' = asked \ {c}
      /\ UNCHANGED <<opened, ticket, copying, copied, began, lookups>>
  BY DEF Answered, aboutVars
<1>2. c \in [dialog : Dialogs, ticket : Nat, aborted : BOOLEAN] /\ c.ticket \in 1..ticket[c.dialog]
  BY <1>i DEF PanelTypes, AskedHolds
<1>3. AskedHolds'
  BY <1>i, <1>1 DEF AskedHolds
<1>4. CASE ~ (CurrentAnswer(c) /\ ~ c.aborted)
  <2>1. UNCHANGED <<loading, failed, content>>
    BY <1>4 DEF Answered
  <2>2. PanelTypes' /\ OpenedHolds'
    BY <1>i, <1>1, <2>1 DEF PanelTypes, OpenedHolds
  <2>3. \A d \in Dialogs : opened[d] =>
          ((\E a \in asked' : a.dialog = d /\ a.ticket = ticket[d] /\ ~ a.aborted)
            <=> \E a \in asked : a.dialog = d /\ a.ticket = ticket[d] /\ ~ a.aborted)
    BY <1>1, <1>4 DEF CurrentAnswer
  <2>4. ShownHolds'
    BY <1>i, <1>1, <2>1, <2>3 DEF ShownHolds
  <2> QED
    BY <1>3, <2>2, <2>4 DEF PanelsInv
<1>5. CASE CurrentAnswer(c) /\ ~ c.aborted
  <2> DEFINE e == c.dialog
  <2>1. e \in Dialogs /\ opened[e] /\ c.ticket = ticket[e] /\ c.ticket # 0 /\ c.ticket \in Nat
    BY <1>i, <1>2, <1>5 DEF CurrentAnswer, PanelTypes
  <2>2. /\ loading' = [loading EXCEPT ![e] = FALSE]
        /\ content' = content \/ content' = [content EXCEPT ![e] = c.ticket]
        /\ failed' = failed \/ failed' = [failed EXCEPT ![e] = TRUE]
    BY <1>5 DEF Answered
  <2>3. /\ loading' \in [Dialogs -> BOOLEAN] /\ ~ loading'[e] /\ failed' \in [Dialogs -> BOOLEAN]
        /\ \A o \in Dialogs : o # e => loading'[o] = loading[o]
    BY <1>i, <2>1, <2>2 DEF PanelTypes
  <2>4. /\ content' \in [Dialogs -> Nat] /\ content'[e] \in {content[e], ticket[e]}
        /\ \A o \in Dialogs : o # e => content'[o] = content[o]
    BY <1>i, <2>1, <2>2 DEF PanelTypes
  <2>5. PanelTypes'
    BY <1>i, <1>1, <2>3, <2>4 DEF PanelTypes
  <2>6. \A a \in asked : a.dialog = e /\ a.ticket = ticket[e] /\ ~ a.aborted => a = c
    <3>1. \A a \in asked : a \in [dialog : Dialogs, ticket : Nat, aborted : BOOLEAN]
      BY <1>i DEF PanelTypes
    <3> QED
      BY <1>2, <1>5, <2>1, <3>1
  <2>7. began[e] \in 1..ticket[e]
    BY <1>i, <2>1 DEF OpenedHolds
  <2> HIDE DEF e
  <2>8. OpenedHolds'
    BY <1>i, <1>1, <2>1, <2>4 DEF OpenedHolds, Dialogs
  <2>9. ASSUME NEW o \in Dialogs
        PROVE  /\ content'[o] # 0 => opened'[o] /\ content'[o] \in began'[o]..ticket'[o]
               /\ loading'[o] <=> opened'[o] /\ \E a \in asked' :
                                   a.dialog = o /\ a.ticket = ticket'[o] /\ ~ a.aborted
    <3>1. CASE o = e
      <4>1. content[e] # 0 => content[e] \in began[e]..ticket[e]
        BY <1>i, <2>1 DEF ShownHolds
      <4>2. content'[e] # 0 => content'[e] \in began[e]..ticket[e]
        BY <2>1, <2>4, <2>7, <4>1
      <4>3. ~ \E a \in asked' : a.dialog = e /\ a.ticket = ticket[e] /\ ~ a.aborted
        BY <1>1, <2>6
      <4> QED
        BY <1>1, <2>1, <2>3, <3>1, <4>2, <4>3
    <3>2. CASE o # e
      <4>1. c.dialog # o
        BY <3>2 DEF e
      <4>2. (\E a \in asked' : a.dialog = o /\ a.ticket = ticket[o] /\ ~ a.aborted)
            <=> \E a \in asked : a.dialog = o /\ a.ticket = ticket[o] /\ ~ a.aborted
        BY <1>1, <4>1
      <4> QED
        BY <1>i, <1>1, <2>3, <2>4, <3>2, <4>2 DEF ShownHolds
    <3> QED
      BY <3>1, <3>2
  <2>10. ShownHolds'
    <3>1. content'["connection"] # 0 => content'["connection"] = ticket["connection"]
      BY <1>i, <2>4 DEF ShownHolds, Dialogs
    <3>2. copied # 0 => copied = content'["connection"]
      BY <1>i, <2>4 DEF ShownHolds, Dialogs
    <3> QED
      BY <1>1, <2>9, <3>1, <3>2 DEF ShownHolds
  <2> QED
    BY <1>3, <2>5, <2>8, <2>10 DEF PanelsInv
<1> QED
  BY <1>4, <1>5

LEMMA PanelsKept == PanelsInv /\ [PanelNext]_panelVars => PanelsInv'
<1> SUFFICES ASSUME PanelsInv, [PanelNext]_panelVars PROVE PanelsInv'
  OBVIOUS
<1>i. PanelTypes /\ AskedHolds /\ OpenedHolds /\ ShownHolds
  BY DEF PanelsInv
<1>1. ASSUME NEW d \in Dialogs, Opens(d) \/ LoadsAgain(d)
      PROVE  PanelsInv'
  BY <1>1, LoadKeeps DEF Opens, LoadsAgain
<1>2. ASSUME UNCHANGED dialogVars, lookups' \in 0..1
      PROVE  PanelsInv'
  BY <1>i, <1>2 DEF dialogVars, PanelsInv, PanelTypes, AskedHolds, OpenedHolds, ShownHolds
<1>3. CASE Copies
  <2>1. /\ copied' = 0 /\ copying' = copying \union {ticket["connection"]}
        /\ content["connection"] = ticket["connection"] /\ opened["connection"]
        /\ UNCHANGED <<opened, ticket, asked, content, loading, failed, began, lookups>>
    BY <1>3 DEF Copies, aboutVars
  <2>2. "connection" \in Dialogs /\ ticket["connection"] \in Nat
    BY <1>i DEF Dialogs, PanelTypes
  <2>3. ticket["connection"] \in 1..ticket["connection"]
    BY <1>i, <2>1, <2>2 DEF OpenedHolds, PanelTypes
  <2> QED
    BY <1>i, <2>1, <2>2, <2>3 DEF PanelsInv, PanelTypes, AskedHolds, OpenedHolds, ShownHolds
<1>4. ASSUME NEW t \in copying, Copied(t)
      PROVE  PanelsInv'
  <2>1. /\ copying' = copying \ {t}
        /\ copied' = copied \/ (copied' = t /\ opened["connection"] /\ t = ticket["connection"])
        /\ UNCHANGED <<opened, ticket, asked, content, loading, failed, began, lookups>>
    BY <1>4 DEF Copied, aboutVars
  <2>2. copied' \in Nat /\ (copied' # 0 => copied' = content["connection"])
    BY <1>i, <2>1 DEF PanelTypes, OpenedHolds, ShownHolds
  <2> QED
    BY <1>i, <2>1, <2>2 DEF PanelsInv, PanelTypes, AskedHolds, OpenedHolds, ShownHolds
<1>5. CASE Disposed
  <2>1. /\ \A d \in Dialogs : ~ opened'[d] /\ ~ loading'[d] /\ content'[d] = 0
        /\ opened' \in [Dialogs -> BOOLEAN] /\ loading' \in [Dialogs -> BOOLEAN]
        /\ failed' \in [Dialogs -> BOOLEAN] /\ content' \in [Dialogs -> Nat] /\ copied' = 0
    BY <1>5 DEF Disposed, Never
  <2>2. asked' = abortLoad("log") /\ UNCHANGED <<ticket, copying, began, lookups>> /\ "log" \in Dialogs
    BY <1>5 DEF Disposed, Dialogs
  <2>3. PanelTypes'
    BY <1>i, <2>1, <2>2, AbortEffect DEF PanelTypes
  <2>4. AskedHolds'
    <3>1. ASSUME NEW c \in abortLoad("log")
          PROVE  /\ c.ticket \in 1..ticket[c.dialog]
                 /\ c.dialog = "connection" => ~ c.aborted
                 /\ c.dialog = "log" /\ ~ c.aborted => c.ticket = ticket["log"]
      BY <1>i, <2>2, AbortEffect DEF AskedHolds
    <3> QED
      BY <2>2, <3>1 DEF AskedHolds
  <2>5. OpenedHolds' /\ ShownHolds'
    BY <1>i, <2>1, <2>2 DEF OpenedHolds, ShownHolds, Dialogs
  <2> QED
    BY <2>3, <2>4, <2>5 DEF PanelsInv
<1>6. CASE \/ Refreshes \/ AnotherPageAsks \/ LookedUp \/ CacheExpires \/ AboutAnswered
           \/ UNCHANGED panelVars
  <2>1. lookups \in 0..1
    BY <1>i DEF PanelTypes
  <2>2. Looking \in 0..1
    BY <2>1 DEF Looking
  <2> QED
    BY <1>2, <1>6, <2>1, <2>2 DEF Refreshes, AnotherPageAsks, LookedUp, CacheExpires, AboutAnswered,
                                  panelVars, aboutVars
<1> QED
  BY <1>1, <1>3, <1>4, <1>5, <1>6, CloseKeeps, PanelAnswerKeeps DEF PanelNext

LEMMA PanelsStart == PanelInit => PanelsInv
BY DEF PanelInit, Never, PanelsInv, PanelTypes, AskedHolds, OpenedHolds, ShownHolds, Dialogs

\* The log has one request under way, since it gives up the one before.
LEMMA OneRequest == PanelsInv => PanelsAreOwn
<1> SUFFICES ASSUME PanelsInv PROVE PanelsAreOwn
  OBVIOUS
<1> DEFINE running == {c \in asked : c.dialog = "log" /\ ~ c.aborted}
           only == [dialog |-> "log", ticket |-> ticket["log"], aborted |-> FALSE]
<1>1. \A c \in running : c = only
  <2>1. \A c \in asked : c \in [dialog : Dialogs, ticket : Nat, aborted : BOOLEAN]
    BY DEF PanelsInv, PanelTypes
  <2>2. \A c \in running : c.ticket = ticket["log"]
    BY DEF PanelsInv, AskedHolds
  <2> QED
    BY <2>1, <2>2
<1>2. running \subseteq {only} /\ IsFiniteSet({only}) /\ Cardinality({only}) = 1
  BY <1>1, FS_Singleton
<1>3. Cardinality(running) <= 1
  <2> HIDE DEF running, only
  <2> QED
    BY <1>2, FS_Subset
<1>4. lookups <= 1
  BY DEF PanelsInv, PanelTypes
<1> QED
  BY <1>3, <1>4 DEF PanelsInv, ShownHolds, PanelsAreOwn

\* A dialog that was closed and opened again shows, and says of itself that it loads, only what
\* this opening asked for; the diagnostic log has one request under way and the daemon one
\* lookup of the registry (app.js: the epochs of the dialogs; dashboard-info.mjs: the lookup
\* that is joined).
THEOREM PanelsCorrect == PanelSpec => []PanelsAreOwn
<1>1. PanelSpec => []PanelsInv
  BY PanelsStart, PanelsKept, PTL DEF PanelSpec
<1> QED
  BY <1>1, OneRequest, PTL

(***************************************************************************)
(* The live canvas: an inductive invariant of the three paths that bring a   *)
(* snapshot, of the effects that run, and of the request that is under way.   *)
(***************************************************************************)

\* At most one connect is of the attempt that counts, and it comes before the stream.
LinkHolds ==
    /\ log # <<>>
    /\ \A c, d \in connects : c.attempt = attempt /\ d.attempt = attempt => c = d
    /\ \A c \in connects : c.attempt = attempt => stream = "none" /\ connection # "connected"
    /\ Runs /\ connection = "connected" => stream = "open"
    /\ stream = "open" /\ wire # <<>> => Last(wire) = Newest
    /\ stream # "open" => wire = <<>>

\* A request that is not under way has neither a version nor a baseline.
ControlHolds ==
    /\ control.at = "idle" => control = NoControl
    /\ control.version # 0 => control.at = "refreshing"

\* Whether everything that was sent on the stream has been shown, and nothing was lost.
Delivered == stream = "open" /\ wire = <<>> /\ ~ banner

\* Then the newest snapshot is shown, unless a request was begun over a loss; and its refresh
\* brings it.
UpToDate ==
    Delivered =>
        /\ control.at = "idle" \/ (control.at = "refreshing" /\ ~ control.fresh) => shown = Newest
        /\ control.fresh /\ control.version # 0 => control.version = Newest

\* The baseline is the snapshot that the stream delivered last.
MotionFollows == motion => shown # 0 /\ delivered = shown

EffectsMove == appear \union burst # {} => motion

ViewerInv ==
    /\ ViewerTypeOK /\ LinkHolds /\ ControlHolds /\ UpToDate
    /\ MotionFollows /\ EffectsMove /\ EffectsAreDrawn


LEMMA ViewerStarts == ViewerInit => ViewerInv
<1> SUFFICES ASSUME ViewerInit PROVE ViewerInv
  OBVIOUS
<1>1. PICK s \in Snapshots : log = <<s>>
  BY DEF ViewerInit
<1>2. log \in Seq(Snapshots) /\ Len(log) = 1 /\ wire \in Seq(DOMAIN log)
  BY <1>1 DEF ViewerInit
<1>3. connects \subseteq [attempt : 1..1, version : 0..1]
  BY DEF ViewerInit
<1>4. NoControl \in [at : {"idle", "posting", "posted", "refreshing"},
                     target : ViewerSessions \union {NoSession}, fresh : BOOLEAN, version : 0..1]
      /\ NoControl.at = "idle" /\ NoControl.version = 0 /\ NoControl.fresh = FALSE
  BY DEF NoControl
<1>5. ViewerTypeOK
  <2>1. attempt \in Nat \ {0} /\ connects \subseteq [attempt : 1..attempt, version : 0..Len(log)]
    BY <1>2, <1>3 DEF ViewerInit
  <2>2. control \in [at : {"idle", "posting", "posted", "refreshing"},
                     target : ViewerSessions \union {NoSession}, fresh : BOOLEAN, version : 0..Len(log)]
    BY <1>2, <1>4 DEF ViewerInit
  <2>3. acts \in 0..MaxActs /\ shown \in 0..Len(log) /\ replay \in 0..Len(log) /\ delivered \in 0..Len(log)
    BY <1>2, ViewerAssumption DEF ViewerInit
  <2>4. QED
    BY <1>2, <2>1, <2>2, <2>3 DEF ViewerInit, ViewerTypeOK
<1>6. LinkHolds
  BY DEF ViewerInit, LinkHolds
<1>7. ControlHolds /\ UpToDate /\ MotionFollows /\ EffectsMove /\ EffectsAreDrawn
  BY <1>4 DEF ViewerInit, ControlHolds, UpToDate, Delivered, MotionFollows, EffectsMove, EffectsAreDrawn
<1>8. QED
  BY <1>5, <1>6, <1>7 DEF ViewerInv

-----------------------------------------------------------------------------
(* What is drawn. *)

\* Steps that at most end effects.
LEMMA PictureStep ==
    ASSUME ViewerInv, UNCHANGED <<daemonVars, linkVars, shown, banner, control, page, delivered>>,
           appear' \subseteq appear, burst' \subseteq burst, motion' \in BOOLEAN, motion' => motion,
           replay' \in 0..Len(log), quiet' \in {"no", "still", "unfollowed"},
           canvas' \in {"snapshots", "views"}, acts' \in 0..MaxActs,
           appear' \union burst' # {} =>
               motion' /\ replay' = 0 /\ quiet' = "no" /\ canvas' = "snapshots" /\ Runs
    PROVE  ViewerInv' /\ ArrivalsAreNew
<1>1. ViewerTypeOK'
  BY DEF ViewerInv, ViewerTypeOK, daemonVars, linkVars
<1>2. LinkHolds' /\ ControlHolds' /\ UpToDate'
  BY DEF ViewerInv, LinkHolds, ControlHolds, UpToDate, Delivered, Runs, Newest, daemonVars, linkVars
<1>3. MotionFollows' /\ EffectsMove' /\ ArrivalsAreNew
  BY DEF ViewerInv, MotionFollows, EffectsMove, ArrivalsAreNew
<1>4. EffectsAreDrawn'
  <2> SUFFICES ASSUME appear' \union burst' # {}
               PROVE  /\ appear' \subseteq log[shown].nodes /\ burst' \intersect log[shown].nodes = {}
                      /\ Cardinality(appear' \union burst') <= MaxEffects
    BY DEF EffectsAreDrawn, daemonVars, linkVars, Runs
  <2>1. /\ appear \subseteq log[shown].nodes /\ burst \intersect log[shown].nodes = {}
        /\ Cardinality(appear \union burst) <= MaxEffects
        /\ appear \union burst \subseteq Nodes
    BY DEF ViewerInv, EffectsAreDrawn, ViewerTypeOK
  <2>2. Cardinality(appear' \union burst') <= Cardinality(appear \union burst)
    BY <2>1, ViewerAssumption, FS_Subset
  <2>3. IsFiniteSet(appear \union burst) /\ IsFiniteSet(appear' \union burst')
    BY <2>1, ViewerAssumption, FS_Subset
  <2>4. QED
    BY <2>1, <2>2, <2>3, FS_CardinalityType, ViewerAssumption
<1>5. QED
  BY <1>1, <1>2, <1>3, <1>4 DEF ViewerInv

LEMMA PictureSteps ==
    ASSUME ViewerInv,
           \/ EffectEnds \/ (\E v \in DOMAIN log : ReplayAt(v)) \/ LiveAgain
           \/ Still \/ Unfollow \/ Moves \/ ViewDrawn
    PROVE  ViewerInv' /\ ArrivalsAreNew
<1>1. /\ motion \in BOOLEAN /\ replay \in 0..Len(log) /\ quiet \in {"no", "still", "unfollowed"}
      /\ canvas \in {"snapshots", "views"} /\ acts \in 0..MaxActs /\ shown \in 0..Len(log) /\ log \in Seq(Snapshots)
      /\ EffectsMove
      /\ appear \union burst # {} => replay = 0 /\ quiet = "no" /\ canvas = "snapshots" /\ Runs
  BY DEF ViewerInv, ViewerTypeOK, EffectsAreDrawn
<1>2. Spent => acts' \in 0..MaxActs
  BY <1>1, ViewerAssumption DEF Spent
<1>3. CASE EffectEnds
  BY <1>1, <1>3, PictureStep DEF EffectEnds, EffectsMove
<1>4. ASSUME NEW v \in DOMAIN log, ReplayAt(v) PROVE ViewerInv' /\ ArrivalsAreNew
  <2>1. v \in 0..Len(log)
    BY <1>1
  <2>2. QED
    BY <1>1, <1>2, <1>4, <2>1, PictureStep DEF ReplayAt, Reset
<1>5. CASE LiveAgain
  <2>1. 0 \in 0..Len(log)
    BY <1>1
  <2>2. QED
    BY <1>1, <1>5, <2>1, PictureStep DEF LiveAgain, Reset
<1>6. CASE Still \/ ViewDrawn
  BY <1>1, <1>2, <1>6, PictureStep DEF Still, ViewDrawn, Reset
<1>7. CASE Unfollow
  BY <1>1, <1>2, <1>7, PictureStep DEF Unfollow
<1>8. CASE Moves
  BY <1>1, <1>8, PictureStep DEF Moves, pictureVars, EffectsMove
<1>9. QED
  BY <1>3, <1>4, <1>5, <1>6, <1>7, <1>8

\* Steps that neither draw nor end what is drawn.
LEMMA PictureRests ==
    ASSUME ViewerInv, UNCHANGED <<pictureVars, quiet, canvas, page, delivered>>,
           \A v \in DOMAIN log : log'[v] = log[v]
    PROVE  MotionFollows' /\ EffectsMove' /\ EffectsAreDrawn' /\ ArrivalsAreNew
<1>1. MotionFollows' /\ EffectsMove' /\ ArrivalsAreNew
  BY DEF ViewerInv, MotionFollows, EffectsMove, ArrivalsAreNew, pictureVars
<1>2. EffectsAreDrawn'
  <2> SUFFICES ASSUME appear \union burst # {} PROVE EffectsAreDrawn'
    BY DEF EffectsAreDrawn, pictureVars
  <2>1. shown \in DOMAIN log
    BY DEF ViewerInv, ViewerTypeOK, EffectsMove, MotionFollows
  <2>2. QED
    BY <2>1 DEF ViewerInv, EffectsAreDrawn, pictureVars, Runs
<1>3. QED
  BY <1>1, <1>2

\* Steps that end all effects and the baseline.
LEMMA PictureResets ==
    ASSUME Reset
    PROVE  MotionFollows' /\ EffectsMove' /\ EffectsAreDrawn' /\ ArrivalsAreNew /\ motion' = FALSE
           /\ appear' = {} /\ burst' = {}
BY DEF Reset, MotionFollows, EffectsMove, EffectsAreDrawn, ArrivalsAreNew


LEMMA NothingAnimates ==
    ASSUME NEW before, before.appear = {}, before.burst = {}, NEW drawn, Animate({}, {}, before, drawn)
    PROVE  appear' = {} /\ burst' = {}
BY DEF Animate

\* What a comparison of two snapshots leaves: it is of what is there, and of what has gone.
LEMMA ComparisonAnimates ==
    ASSUME NEW old, NEW new, old \subseteq Nodes, new \subseteq Nodes,
           NEW before, before.appear \subseteq old, before.burst \intersect old = {}, before.burst \subseteq Nodes,
           quiet # "still", Animate(new \ old, old \ new, before, new)
    PROVE  /\ appear' \subseteq new /\ burst' \intersect new = {} /\ burst' \subseteq Nodes
           /\ appear' \ before.appear \subseteq new \ old
           /\ burst' \ before.burst \subseteq old \ new
           /\ Cardinality(appear' \union burst') <= MaxEffects
<1> DEFINE added == new \ old
           removed == old \ new
           kept == before.burst \ new
<1>1. PICK gone \in SUBSET removed, found \in SUBSET added :
         /\ burst' = (kept \ (removed \union added)) \union gone
         /\ Fitting(added, (burst' \union (before.appear \ removed)) \ added, found)
         /\ appear' = (before.appear \ (removed \union added)) \union found
  BY DEF Animate
<1>2. /\ appear' \subseteq new /\ burst' \intersect new = {} /\ burst' \subseteq Nodes
      /\ appear' \ before.appear \subseteq added /\ burst' \ before.burst \subseteq removed
  BY <1>1
<1>3. appear' \union burst' = found \union ((burst' \union (before.appear \ removed)) \ added)
  BY <1>1, <1>2
<1>4. QED
  BY <1>1, <1>2, <1>3 DEF Fitting

\* A snapshot that is accepted, from the stream or from elsewhere.
LEMMA AcceptKeeps ==
    ASSUME ViewerInv, NEW v \in DOMAIN log, NEW streamed \in BOOLEAN, NEW busy, Accept(v, streamed, busy),
           UNCHANGED <<log, quiet, canvas, page>>, Runs \/ ~ streamed,
           delivered' = IF streamed THEN v ELSE delivered
    PROVE  /\ shown' = v /\ replay' \in 0..Len(log) /\ control' = [busy EXCEPT !.fresh = FALSE]
           /\ appear' \subseteq Nodes /\ burst' \subseteq Nodes /\ motion' \in BOOLEAN
           /\ MotionFollows' /\ EffectsMove' /\ EffectsAreDrawn' /\ ArrivalsAreNew
<1> DEFINE switched == shown # 0 /\ log[v].session # log[shown].session
           frame == IF switched THEN 0 ELSE replay
           new == log[v].nodes
           old == IF shown = 0 THEN {} ELSE log[shown].nodes
           compared == Compared(v, streamed, switched)
           before == IF streamed /\ ~switched /\ shown # 0
                     THEN [appear |-> appear, burst |-> burst] ELSE [appear |-> {}, burst |-> {}]
           drawn == IF frame = 0 THEN new ELSE log[frame].nodes
<1>1. /\ shown' = v /\ replay' = frame /\ control' = [busy EXCEPT !.fresh = FALSE]
      /\ motion' = (streamed /\ frame = 0 /\ quiet # "still" /\ page # "closed")
      /\ Animate(IF compared THEN new \ old ELSE {}, IF compared THEN old \ new ELSE {}, before, drawn)
  BY DEF Accept
<1>2. /\ log \in Seq(Snapshots) /\ shown \in 0..Len(log) /\ replay \in 0..Len(log) /\ delivered \in 0..Len(log)
      /\ appear \subseteq Nodes /\ burst \subseteq Nodes
      /\ \A i \in DOMAIN log : log[i].nodes \subseteq Nodes
  <2>1. \A i \in DOMAIN log : log[i] \in Snapshots
    BY DEF ViewerInv, ViewerTypeOK
  <2>2. QED
    BY <2>1 DEF ViewerInv, ViewerTypeOK, Snapshots
<1>3. /\ v # 0 /\ frame \in 0..Len(log) /\ new \subseteq Nodes /\ old \subseteq Nodes
      /\ shown # 0 => shown \in DOMAIN log /\ old = log[shown].nodes
  BY <1>2
<1>4. /\ before.appear = IF streamed /\ ~switched /\ shown # 0 THEN appear ELSE {}
      /\ before.burst = IF streamed /\ ~switched /\ shown # 0 THEN burst ELSE {}
  OBVIOUS
<1>5. compared => /\ canvas = "snapshots" /\ quiet = "no" /\ streamed /\ motion /\ ~switched /\ replay = 0
                  /\ shown # 0 /\ delivered = shown /\ Runs
  BY DEF Compared, ViewerInv, MotionFollows
<1>6. appear \union burst # {} => /\ replay = 0 /\ quiet = "no" /\ canvas = "snapshots" /\ motion
                                  /\ appear \subseteq log[shown].nodes /\ burst \intersect log[shown].nodes = {}
  BY DEF ViewerInv, EffectsAreDrawn, EffectsMove
<1>7. MotionFollows'
  BY <1>1, <1>3 DEF MotionFollows
<1>8. CASE ~ compared
  <2>1. before.appear = {} /\ before.burst = {}
    BY <1>4, <1>6, <1>8 DEF Compared
  <2>2. appear' = {} /\ burst' = {}
    BY <1>1, <1>8, <2>1, NothingAnimates
  <2>3. EffectsMove' /\ EffectsAreDrawn' /\ ArrivalsAreNew
    BY <2>2 DEF EffectsMove, EffectsAreDrawn, ArrivalsAreNew
  <2>4. QED
    BY <1>1, <1>3, <1>7, <2>2, <2>3
<1>9. CASE compared
  <2>1. /\ before.appear = appear /\ before.burst = burst /\ frame = 0 /\ drawn = new
        /\ old = log[shown].nodes
    BY <1>3, <1>4, <1>5, <1>9
  <2>2. before.appear \subseteq old /\ before.burst \intersect old = {} /\ before.burst \subseteq Nodes
    BY <1>2, <1>6, <2>1
  <2>3. Animate(new \ old, old \ new, before, new)
    BY <1>1, <1>9, <2>1
  <2>10. quiet # "still"
    BY <1>5, <1>9
  <2> HIDE DEF before, new, old, compared, drawn, frame
  <2>4. /\ appear' \subseteq new /\ burst' \intersect new = {} /\ burst' \subseteq Nodes
        /\ appear' \ appear \subseteq new \ old
        /\ burst' \ burst \subseteq old \ new
        /\ Cardinality(appear' \union burst') <= MaxEffects
    <3>1. new \subseteq Nodes /\ old \subseteq Nodes /\ before.appear \subseteq old
      BY <1>3, <2>2
    <3>2. /\ appear' \subseteq new /\ burst' \intersect new = {} /\ burst' \subseteq Nodes
          /\ appear' \ before.appear \subseteq new \ old
          /\ burst' \ before.burst \subseteq old \ new
          /\ Cardinality(appear' \union burst') <= MaxEffects
      BY <2>2, <2>3, <2>10, <3>1, ComparisonAnimates
    <3>3. QED
      BY <2>1, <3>2
  <2>5. motion' /\ replay' = 0
    BY <1>1, <1>5, <1>9, <2>1 DEF Runs
  <2>6. EffectsMove'
    BY <2>5 DEF EffectsMove
  <2>7. EffectsAreDrawn'
    BY <1>1, <1>5, <1>9, <2>4, <2>5 DEF EffectsAreDrawn, Runs, new
  <2>8. ArrivalsAreNew
    BY <1>1, <1>5, <1>9, <2>1, <2>4 DEF ArrivalsAreNew, new
  <2>9. QED
    BY <1>1, <1>2, <1>3, <1>7, <2>4, <2>5, <2>6, <2>7, <2>8
<1>10. QED
  BY <1>8, <1>9


-----------------------------------------------------------------------------
(* The daemon. *)

LEMMA PublishEffect ==
    ASSUME ViewerInv, NEW s \in Snapshots, Publish(s)
    PROVE  /\ log' \in Seq(Snapshots) /\ Len(log') = Len(log) + 1 /\ Len(log) \in Nat
           /\ \A v \in DOMAIN log : log'[v] = log[v]
           /\ wire' \in Seq(DOMAIN log')
           /\ stream = "open" => wire' # <<>> /\ Last(wire') = Len(log')
           /\ stream # "open" => wire' = <<>>
<1>1. /\ log \in Seq(Snapshots) /\ wire \in Seq(1..Len(log)) /\ log' = Append(log, s)
      /\ wire' = IF stream = "open" THEN Append(wire, Len(log) + 1) ELSE wire
      /\ stream # "open" => wire = <<>>
  BY DEF ViewerInv, ViewerTypeOK, LinkHolds, Publish, Newest
<1>2. Len(log') = Len(log) + 1 /\ DOMAIN log' = 1..(Len(log) + 1) /\ Len(log) \in Nat
  BY <1>1
<1>3. wire \in Seq(1..(Len(log) + 1))
  BY <1>1, <1>2
<1>4. \A v \in DOMAIN log : log'[v] = log[v]
  BY <1>1
<1>5. CASE stream = "open"
  <2>1. wire' = Append(wire, Len(log) + 1) /\ wire' \in Seq(1..(Len(log) + 1)) /\ wire' # <<>>
    BY <1>1, <1>2, <1>3, <1>5
  <2>2. Len(wire') = Len(wire) + 1 /\ wire'[Len(wire) + 1] = Len(log) + 1
    BY <1>3, <2>1
  <2>3. Last(wire') = Len(log')
    BY <1>2, <2>2 DEF Last
  <2>4. QED
    BY <1>1, <1>2, <1>4, <1>5, <2>1, <2>3
<1>6. CASE stream # "open"
  BY <1>1, <1>2, <1>3, <1>4, <1>6
<1>7. QED
  BY <1>5, <1>6

\* The log grows, and whatever else is typed stays so.
LEMMA PublishTyped ==
    ASSUME ViewerInv, NEW s \in Snapshots, Publish(s), UNCHANGED <<linkVars, pictureVars, banner, quiet, canvas, page, delivered>>
    PROVE  /\ log' \in Seq(Snapshots) /\ wire' \in Seq(DOMAIN log')
           /\ attempt' \in Nat \ {0} /\ connects' \subseteq [attempt : 1..attempt', version : 0..Len(log')]
           /\ control \in [at : {"idle", "posting", "posted", "refreshing"},
                           target : ViewerSessions \union {NoSession}, fresh : BOOLEAN, version : 0..Len(log')]
           /\ shown' \in 0..Len(log') /\ replay' \in 0..Len(log') /\ delivered' \in 0..Len(log')
<1>1. Len(log') = Len(log) + 1 /\ Len(log) \in Nat /\ log' \in Seq(Snapshots) /\ wire' \in Seq(DOMAIN log')
  BY PublishEffect
<1>2. \A i \in 0..Len(log) : i \in 0..Len(log')
  BY <1>1
<1>3. /\ attempt \in Nat \ {0} /\ connects \subseteq [attempt : 1..attempt, version : 0..Len(log)]
      /\ control \in [at : {"idle", "posting", "posted", "refreshing"},
                      target : ViewerSessions \union {NoSession}, fresh : BOOLEAN, version : 0..Len(log)]
      /\ shown \in 0..Len(log) /\ replay \in 0..Len(log) /\ delivered \in 0..Len(log)
  BY DEF ViewerInv, ViewerTypeOK
<1>4. UNCHANGED <<attempt, connects, shown, replay, delivered>>
  BY DEF linkVars, pictureVars
<1>5. connects \subseteq [attempt : 1..attempt, version : 0..Len(log')]
  BY <1>2, <1>3
<1>6. control \in [at : {"idle", "posting", "posted", "refreshing"},
                   target : ViewerSessions \union {NoSession}, fresh : BOOLEAN, version : 0..Len(log')]
  BY <1>2, <1>3
<1>7. QED
  BY <1>1, <1>2, <1>3, <1>4, <1>5, <1>6

\* A snapshot that is published waits on an open stream.
LEMMA PublishKeeps ==
    ASSUME ViewerInv, NEW s \in Snapshots, Publish(s), UNCHANGED <<linkVars, pictureVars, banner, quiet, canvas, page, delivered>>,
           control' = control \/ (control' = [control EXCEPT !.at = "posted"] /\ control.at = "posting"),
           acts' = acts
    PROVE  ViewerInv' /\ ArrivalsAreNew
<1>1. /\ log' \in Seq(Snapshots) /\ wire' \in Seq(DOMAIN log')
      /\ attempt' \in Nat \ {0} /\ connects' \subseteq [attempt : 1..attempt', version : 0..Len(log')]
      /\ control \in [at : {"idle", "posting", "posted", "refreshing"},
                           target : ViewerSessions \union {NoSession}, fresh : BOOLEAN, version : 0..Len(log')]
      /\ shown' \in 0..Len(log') /\ replay' \in 0..Len(log') /\ delivered' \in 0..Len(log')
  BY PublishTyped
<1>2. /\ control' \in [at : {"idle", "posting", "posted", "refreshing"},
                           target : ViewerSessions \union {NoSession}, fresh : BOOLEAN, version : 0..Len(log')]
      /\ control' = control \/ (control'.at = "posted" /\ control'.version = control.version /\ control.at = "posting")
  BY <1>1
<1>3. ViewerTypeOK'
  BY <1>1, <1>2 DEF ViewerInv, ViewerTypeOK, linkVars, pictureVars
<1>4. /\ stream = "open" => wire' # <<>> /\ Last(wire') = Len(log')
      /\ stream # "open" => wire' = <<>>
      /\ \A v \in DOMAIN log : log'[v] = log[v]
      /\ log' # <<>>
  BY PublishEffect
<1>5. LinkHolds'
  BY <1>4 DEF ViewerInv, LinkHolds, linkVars, Runs, Newest
<1>6. ControlHolds' /\ UpToDate'
  BY <1>2, <1>4 DEF ViewerInv, ControlHolds, UpToDate, Delivered, linkVars
<1>7. MotionFollows' /\ EffectsMove' /\ EffectsAreDrawn' /\ ArrivalsAreNew
  BY <1>4, PictureRests
<1>8. QED
  BY <1>3, <1>5, <1>6, <1>7 DEF ViewerInv

-----------------------------------------------------------------------------
(* Connecting. *)

LEMMA ConnectKeeps ==
    ASSUME ViewerInv, Connect, UNCHANGED <<log, shown, replay, control, quiet, canvas, acts>>,
           page' = page \/ page' = "here"
    PROVE  ViewerInv' /\ ArrivalsAreNew
<1>1. /\ attempt' = attempt + 1
      /\ connects' = connects \union {[attempt |-> attempt + 1, version |-> 0]}
      /\ stream' = "none" /\ wire' = <<>> /\ delivered' = 0
      /\ connection' = "connecting" /\ banner' = FALSE /\ Reset
  BY DEF Connect
<1>2. /\ attempt \in Nat \ {0} /\ connects \subseteq [attempt : 1..attempt, version : 0..Len(log)] /\ Len(log) \in Nat
  BY DEF ViewerInv, ViewerTypeOK
<1>3. connects' \subseteq [attempt : 1..attempt', version : 0..Len(log)]
  BY <1>1, <1>2
<1>4. ViewerTypeOK'
  <2>1. wire' \in Seq(DOMAIN log') /\ delivered' \in 0..Len(log') /\ attempt' \in Nat \ {0}
    BY <1>1, <1>2
  <2>2. appear' \subseteq Nodes /\ burst' \subseteq Nodes /\ motion' \in BOOLEAN
    BY <1>1 DEF Reset
  <2>3. QED
    BY <1>1, <1>3, <2>1, <2>2 DEF ViewerInv, ViewerTypeOK
<1>5. LinkHolds'
  <2>1. \A c \in connects' : c.attempt = attempt' => c = [attempt |-> attempt + 1, version |-> 0]
    BY <1>1, <1>2
  <2>2. log # <<>>
    BY DEF ViewerInv, LinkHolds
  <2>3. QED
    BY <1>1, <2>1, <2>2 DEF LinkHolds
<1>6. ControlHolds' /\ UpToDate'
  BY <1>1 DEF ViewerInv, ControlHolds, UpToDate, Delivered
<1>7. QED
  BY <1>1, <1>4, <1>5, <1>6, PictureResets DEF ViewerInv

\* Steps that touch neither the picture nor the stream: what is up to date stays so.
LEMMA LinkStep ==
    ASSUME ViewerInv, UNCHANGED <<daemonVars, stream, attempt, pictureVars, quiet, canvas, page, delivered>>,
           connects' \subseteq [attempt : 1..attempt, version : 0..Len(log)],
           connection' \in {"connecting", "connected", "reconnecting", "error", "auth"},
           banner' \in BOOLEAN, acts' \in 0..MaxActs,
           control' \in [at : {"idle", "posting", "posted", "refreshing"},
                         target : ViewerSessions \union {NoSession}, fresh : BOOLEAN, version : 0..Len(log)],
           connection' = connection \/ connection' # "connected",
           \A c \in connects' : c.attempt = attempt => \E d \in connects : d.attempt = attempt,
           \A c, d \in connects' : c.attempt = attempt /\ d.attempt = attempt => c = d,
           ControlHolds', UpToDate'
    PROVE  ViewerInv' /\ ArrivalsAreNew
<1>1. ViewerTypeOK'
  BY DEF ViewerInv, ViewerTypeOK, daemonVars, pictureVars
<1>2. LinkHolds'
  BY DEF ViewerInv, LinkHolds, daemonVars, Runs, Newest
<1>3. MotionFollows' /\ EffectsMove' /\ EffectsAreDrawn' /\ ArrivalsAreNew
  BY PictureRests DEF daemonVars
<1>4. QED
  BY <1>1, <1>2, <1>3 DEF ViewerInv

LEMMA ConnectSteps ==
    ASSUME ViewerInv, NEW c \in connects, StateServed(c) \/ ConnectFails(c) \/ ConnectOutdated(c)
    PROVE  ViewerInv' /\ ArrivalsAreNew
<1>1. /\ connects \subseteq [attempt : 1..attempt, version : 0..Len(log)] /\ Len(log) \in Nat
      /\ connection \in {"connecting", "connected", "reconnecting", "error", "auth"}
      /\ banner \in BOOLEAN /\ acts \in 0..MaxActs
      /\ control \in [at : {"idle", "posting", "posted", "refreshing"},
                      target : ViewerSessions \union {NoSession}, fresh : BOOLEAN, version : 0..Len(log)]
      /\ \A d, e \in connects : d.attempt = attempt /\ e.attempt = attempt => d = e
      /\ ControlHolds /\ UpToDate
  BY DEF ViewerInv, ViewerTypeOK, LinkHolds
<1>2. CASE StateServed(c)
  <2> DEFINE s == [c EXCEPT !.version = Len(log)]
  <2>1. /\ connects' = (connects \ {c}) \union {s}
        /\ UNCHANGED <<daemonVars, stream, attempt, connection, pictureVars, banner, control, quiet,
                       canvas, page, delivered, acts>>
    BY <1>2 DEF StateServed, Newest
  <2>2. s \in [attempt : 1..attempt, version : 0..Len(log)] /\ s.attempt = c.attempt
    BY <1>1
  <2> HIDE DEF s
  <2>3. /\ connects' \subseteq [attempt : 1..attempt, version : 0..Len(log)]
        /\ \A d \in connects' : d.attempt = attempt => \E e \in connects : e.attempt = attempt
        /\ \A d, e \in connects' : d.attempt = attempt /\ e.attempt = attempt => d = e
    BY <1>1, <2>1, <2>2
  <2>4. ControlHolds' /\ UpToDate'
    BY <1>1, <2>1 DEF ControlHolds, UpToDate, Delivered, Newest, daemonVars, pictureVars
  <2>5. QED
    BY <1>1, <2>1, <2>3, <2>4, LinkStep
<1>3. CASE ConnectFails(c)
  <2>1. ControlHolds' /\ UpToDate'
    BY <1>1, <1>3 DEF ConnectFails, ControlHolds, UpToDate, Delivered
  <2>2. acts' \in 0..MaxActs
    BY <1>1, <1>3, ViewerAssumption DEF ConnectFails, Spent
  <2>3. QED
    BY <1>1, <1>3, <2>1, <2>2, LinkStep DEF ConnectFails
<1>4. CASE ConnectOutdated(c)
  <2>1. ControlHolds' /\ UpToDate'
    BY <1>1, <1>4 DEF ConnectOutdated, ControlHolds, UpToDate, Delivered, Newest, daemonVars, pictureVars
  <2>2. QED
    BY <1>1, <1>4, <2>1, LinkStep DEF ConnectOutdated
<1>5. QED
  BY <1>2, <1>3, <1>4

\* A snapshot that is accepted leaves the request what it is, and not fresh.
LEMMA UnfreshTyped ==
    ASSUME ViewerInv, control' = [control EXCEPT !.fresh = FALSE]
    PROVE  /\ control' \in [at : {"idle", "posting", "posted", "refreshing"},
                            target : ViewerSessions \union {NoSession}, fresh : BOOLEAN, version : 0..Len(log)]
           /\ control'.at = control.at /\ control'.version = control.version /\ control'.fresh = FALSE
           /\ control = NoControl => control' = NoControl
<1>1. control \in [at : {"idle", "posting", "posted", "refreshing"},
                   target : ViewerSessions \union {NoSession}, fresh : BOOLEAN, version : 0..Len(log)]
  BY DEF ViewerInv, ViewerTypeOK
<1>2. ASSUME control = NoControl PROVE control' = NoControl
  <2>1. control' = [NoControl EXCEPT !.fresh = FALSE]
    BY <1>2
  <2>2. QED
    BY <2>1 DEF NoControl
<1>3. control' \in [at : {"idle", "posting", "posted", "refreshing"},
                    target : ViewerSessions \union {NoSession}, fresh : BOOLEAN, version : 0..Len(log)]
  BY <1>1
<1>4. control'.at = control.at /\ control'.version = control.version /\ control'.fresh = FALSE
  BY <1>1
<1>5. control = NoControl => control' = NoControl
  BY <1>2
<1>6. QED
  BY <1>3, <1>4, <1>5

LEMMA ConnectedKeeps ==
    ASSUME ViewerInv, NEW c \in connects, Connected(c)
    PROVE  ViewerInv' /\ ArrivalsAreNew
<1>1. /\ Runs /\ c.version # 0 /\ c.attempt = attempt
      /\ connects' = connects \ {c} /\ stream' = "opening"
      /\ UNCHANGED <<log, wire, attempt, connection, banner, quiet, canvas, page, delivered, acts>>
      /\ Accept(c.version, FALSE, control)
  BY DEF Connected, Outdated
<1>2. c.version \in DOMAIN log
  BY <1>1 DEF ViewerInv, ViewerTypeOK
<1>3. /\ shown' = c.version /\ replay' \in 0..Len(log) /\ control' = [control EXCEPT !.fresh = FALSE]
      /\ appear' \subseteq Nodes /\ burst' \subseteq Nodes /\ motion' \in BOOLEAN
      /\ MotionFollows' /\ EffectsMove' /\ EffectsAreDrawn' /\ ArrivalsAreNew
  BY <1>1, <1>2, AcceptKeeps
<1>4. /\ control' \in [at : {"idle", "posting", "posted", "refreshing"},
                       target : ViewerSessions \union {NoSession}, fresh : BOOLEAN, version : 0..Len(log)]
      /\ control'.at = control.at /\ control'.version = control.version
      /\ control = NoControl => control' = NoControl
  BY <1>3, UnfreshTyped
<1>5. ViewerTypeOK'
  <2>1. shown' \in 0..Len(log')
    BY <1>1, <1>2, <1>3 DEF ViewerInv, ViewerTypeOK
  <2>2. QED
    BY <1>1, <1>3, <1>4, <2>1 DEF ViewerInv, ViewerTypeOK
<1>6. LinkHolds'
  <2>1. \A d \in connects' : d.attempt # attempt
    BY <1>1 DEF ViewerInv, LinkHolds
  <2>2. connection # "connected" /\ wire = <<>> /\ log # <<>>
    BY <1>1 DEF ViewerInv, LinkHolds
  <2>3. QED
    BY <1>1, <2>1, <2>2 DEF LinkHolds
<1>7. ControlHolds' /\ UpToDate'
  BY <1>1, <1>4 DEF ViewerInv, ControlHolds, UpToDate, Delivered
<1>8. QED
  BY <1>3, <1>5, <1>6, <1>7 DEF ViewerInv


-----------------------------------------------------------------------------
(* The steps. *)

LEMMA ControlTyped ==
    ASSUME ViewerInv
    PROVE  /\ control \in [at : {"idle", "posting", "posted", "refreshing"},
                           target : ViewerSessions \union {NoSession}, fresh : BOOLEAN, version : 0..Len(log)]
           /\ NoControl \in [at : {"idle", "posting", "posted", "refreshing"},
                             target : ViewerSessions \union {NoSession}, fresh : BOOLEAN, version : 0..Len(log)]
           /\ NoControl.at = "idle" /\ NoControl.version = 0 /\ NoControl.fresh = FALSE
           /\ Len(log) \in Nat /\ Len(log) \in DOMAIN log
           /\ acts \in 0..MaxActs /\ (Spent => acts' \in 0..MaxActs)
<1>1. log \in Seq(Snapshots) /\ log # <<>> /\ acts \in 0..MaxActs
      /\ control \in [at : {"idle", "posting", "posted", "refreshing"},
                      target : ViewerSessions \union {NoSession}, fresh : BOOLEAN, version : 0..Len(log)]
  BY DEF ViewerInv, ViewerTypeOK, LinkHolds
<1>2. Len(log) \in Nat /\ Len(log) # 0
  BY <1>1
<1>3. 0 \in 0..Len(log)
  BY <1>2
<1>4. NoControl \in [at : {"idle", "posting", "posted", "refreshing"},
                     target : ViewerSessions \union {NoSession}, fresh : BOOLEAN, version : 0..Len(log)]
      /\ NoControl.at = "idle" /\ NoControl.version = 0 /\ NoControl.fresh = FALSE
  BY <1>3 DEF NoControl
<1>5. Spent => acts' \in 0..MaxActs
  BY <1>1, ViewerAssumption DEF Spent
<1>6. QED
  BY <1>1, <1>2, <1>4, <1>5

LEMMA DaemonSteps ==
    ASSUME ViewerInv, ViewerDaemonChanges \/ ControlServed
    PROVE  ViewerInv' /\ ArrivalsAreNew
<1>1. Last(log) \in Snapshots
  <2>1. log \in Seq(Snapshots) /\ log # <<>>
    BY DEF ViewerInv, ViewerTypeOK, LinkHolds
  <2>2. QED
    BY <2>1 DEF Last
<1>2. CASE ViewerDaemonChanges
  <2>1. PICK s \in Snapshots : Publish(s)
    BY <1>2 DEF ViewerDaemonChanges
  <2>2. QED
    BY <1>2, <2>1, PublishKeeps DEF ViewerDaemonChanges
<1>3. CASE ControlServed
  <2>1. /\ control.at = "posting" /\ control' = [control EXCEPT !.at = "posted"]
        /\ UNCHANGED <<linkVars, pictureVars, banner, quiet, canvas, page, delivered, acts>>
    BY <1>3 DEF ControlServed
  <2>2. control.target \in ViewerSessions \union {NoSession}
    BY ControlTyped
  <2>3. ASSUME NEW s \in Snapshots, Publish(s) PROVE ViewerInv' /\ ArrivalsAreNew
    BY <2>1, <2>3, PublishKeeps
  <2>4. CASE control.target # NoSession /\ Publish([session |-> control.target, nodes |-> {}])
    <3>1. [session |-> control.target, nodes |-> {}] \in Snapshots
      BY <2>2, <2>4 DEF Snapshots
    <3>2. QED
      BY <2>3, <2>4, <3>1
  <2>5. CASE Publish(Last(log))
    BY <1>1, <2>3, <2>5
  <2>6. CASE UNCHANGED daemonVars
    <3>1. /\ control' \in [at : {"idle", "posting", "posted", "refreshing"},
                           target : ViewerSessions \union {NoSession}, fresh : BOOLEAN, version : 0..Len(log)]
          /\ control'.at = "posted" /\ control'.version = control.version /\ control'.fresh = control.fresh
      BY <2>1, ControlTyped
    <3>2. ControlHolds' /\ UpToDate'
      BY <2>1, <2>6, <3>1 DEF ViewerInv, ControlHolds, UpToDate, Delivered
    <3>3. /\ connects \subseteq [attempt : 1..attempt, version : 0..Len(log)]
          /\ connection \in {"connecting", "connected", "reconnecting", "error", "auth"}
          /\ banner \in BOOLEAN /\ acts \in 0..MaxActs
          /\ \A c, d \in connects : c.attempt = attempt /\ d.attempt = attempt => c = d
      BY DEF ViewerInv, ViewerTypeOK, LinkHolds
    <3>4. QED
      BY <2>1, <2>6, <3>1, <3>2, <3>3, LinkStep DEF linkVars
  <2>7. QED
    BY <1>3, <2>4, <2>5, <2>6 DEF ControlServed
<1>4. QED
  BY <1>2, <1>3

LEMMA ConnectAgain ==
    ASSUME ViewerInv, Retry \/ PageShows
    PROVE  ViewerInv' /\ ArrivalsAreNew
BY ConnectKeeps DEF Retry, PageShows

LEMMA StreamOpensKeeps ==
    ASSUME ViewerInv, StreamOpens
    PROVE  ViewerInv' /\ ArrivalsAreNew
<1>1. /\ Runs /\ stream \in {"opening", "broken"}
      /\ stream' = "open" /\ wire' = <<Newest>> /\ connection' = "connected"
      /\ UNCHANGED <<log, attempt, connects, pictureVars, banner, control, quiet, canvas, page,
                     delivered, acts>>
  BY DEF StreamOpens
<1>2. Newest \in DOMAIN log
  BY ControlTyped DEF Newest
<1>3. wire' \in Seq(DOMAIN log') /\ wire' # <<>> /\ Last(wire') = Newest
  BY <1>1, <1>2 DEF Last
<1>4. ViewerTypeOK'
  BY <1>1, <1>3 DEF ViewerInv, ViewerTypeOK, pictureVars
<1>5. LinkHolds'
  BY <1>1, <1>3 DEF ViewerInv, LinkHolds, Newest
<1>6. ControlHolds' /\ UpToDate'
  BY <1>1, <1>3 DEF ViewerInv, ControlHolds, UpToDate, Delivered
<1>7. MotionFollows' /\ EffectsMove' /\ EffectsAreDrawn' /\ ArrivalsAreNew
  BY <1>1, PictureRests
<1>8. QED
  BY <1>4, <1>5, <1>6, <1>7 DEF ViewerInv

\* The stream, and with it the baseline, is gone.
LEMMA StreamEnds ==
    ASSUME ViewerInv, StreamBreaks \/ PageHides \/ ViewerCloses
    PROVE  ViewerInv' /\ ArrivalsAreNew
<1>1. /\ Spent /\ Reset /\ wire' = <<>> /\ delivered' = 0 /\ stream' # "open"
      /\ stream' \in {"none", "opening", "open", "broken", "refused"}
      /\ UNCHANGED <<log, connects, shown, replay, control, quiet, canvas>>
      /\ banner' \in BOOLEAN /\ page' \in {"here", "away", "closed"}
      /\ connection' \in {"connecting", "connected", "reconnecting", "error", "auth"}
      /\ attempt' = attempt \/ attempt' = attempt + 1
  BY DEF ViewerInv, ViewerTypeOK, StreamBreaks, PageHides, ViewerCloses, Lost
<1>2. /\ attempt \in Nat \ {0} /\ connects \subseteq [attempt : 1..attempt, version : 0..Len(log)]
  BY DEF ViewerInv, ViewerTypeOK
<1>3. connects \subseteq [attempt : 1..attempt', version : 0..Len(log)] /\ attempt' \in Nat \ {0}
  BY <1>1, <1>2
<1>4. ViewerTypeOK'
  <2>1. wire' \in Seq(DOMAIN log') /\ delivered' \in 0..Len(log') /\ acts' \in 0..MaxActs
    BY <1>1, ControlTyped
  <2>2. appear' \subseteq Nodes /\ burst' \subseteq Nodes /\ motion' \in BOOLEAN
    BY <1>1 DEF Reset
  <2>3. QED
    BY <1>1, <1>3, <2>1, <2>2 DEF ViewerInv, ViewerTypeOK
<1>5. LinkHolds'
  <2>1. CASE attempt' = attempt + 1
    <3>1. \A c \in connects : c.attempt # attempt'
      BY <1>2, <2>1
    <3>2. page' # "here"
      BY <1>2, <2>1 DEF StreamBreaks, PageHides, ViewerCloses
    <3>3. QED
      BY <1>1, <3>1, <3>2 DEF ViewerInv, LinkHolds, Runs
  <2>2. CASE attempt' = attempt
    <3>1. CASE StreamBreaks
      <4>1. stream # "none"
        BY <3>1 DEF StreamBreaks
      <4>2. connection' = "reconnecting"
        BY <3>1 DEF StreamBreaks
      <4>3. QED
        BY <1>1, <2>2, <4>1, <4>2 DEF ViewerInv, LinkHolds
    <3>2. CASE PageHides
      BY <1>1, <2>2, <3>2 DEF ViewerInv, LinkHolds, PageHides, Runs
    <3>3. CASE ViewerCloses
      BY <1>2, <2>2, <3>3 DEF ViewerCloses
    <3>4. QED
      BY <3>1, <3>2, <3>3
  <2>3. QED
    BY <1>1, <2>1, <2>2
<1>6. ControlHolds' /\ UpToDate'
  BY <1>1 DEF ViewerInv, ControlHolds, UpToDate, Delivered
<1>7. QED
  BY <1>1, <1>4, <1>5, <1>6, PictureResets DEF ViewerInv

LEMMA StreamGarblesKeeps ==
    ASSUME ViewerInv, StreamGarbles
    PROVE  ViewerInv' /\ ArrivalsAreNew
<1>1. /\ Spent /\ Reset /\ stream = "open" /\ wire # <<>> /\ wire' = Tail(wire)
      /\ banner' = TRUE /\ delivered' = 0
      /\ UNCHANGED <<log, linkVars, shown, replay, control, quiet, canvas, page>>
  BY DEF StreamGarbles
<1>2. wire \in Seq(DOMAIN log)
  BY DEF ViewerInv, ViewerTypeOK
<1>3. wire' \in Seq(DOMAIN log') /\ (wire' # <<>> => Last(wire') = Last(wire))
  BY <1>1, <1>2 DEF Last
<1>4. ViewerTypeOK'
  <2>1. delivered' \in 0..Len(log') /\ acts' \in 0..MaxActs
    BY <1>1, ControlTyped
  <2>2. appear' \subseteq Nodes /\ burst' \subseteq Nodes /\ motion' \in BOOLEAN
    BY <1>1 DEF Reset
  <2>3. QED
    BY <1>1, <1>3, <2>1, <2>2 DEF ViewerInv, ViewerTypeOK, linkVars
<1>5. LinkHolds'
  BY <1>1, <1>3 DEF ViewerInv, LinkHolds, linkVars, Newest, Runs
<1>6. ControlHolds' /\ UpToDate'
  BY <1>1 DEF ViewerInv, ControlHolds, UpToDate, Delivered
<1>7. QED
  BY <1>1, <1>4, <1>5, <1>6, PictureResets DEF ViewerInv


LEMMA StreamDeliversKeeps ==
    ASSUME ViewerInv, StreamDelivers
    PROVE  ViewerInv' /\ ArrivalsAreNew
<1>1. /\ Runs /\ stream = "open" /\ wire # <<>> /\ wire' = Tail(wire) /\ delivered' = Head(wire)
      /\ connection' = "connected" /\ banner' = FALSE
      /\ UNCHANGED <<log, stream, attempt, connects, quiet, canvas, page, acts>>
      /\ Accept(Head(wire), TRUE, control)
  BY DEF StreamDelivers
<1>2. wire \in Seq(DOMAIN log)
  BY DEF ViewerInv, ViewerTypeOK
<1>3. /\ Head(wire) \in DOMAIN log /\ wire' \in Seq(DOMAIN log)
      /\ wire' # <<>> => Last(wire') = Last(wire)
      /\ wire' = <<>> => Last(wire) = Head(wire)
  BY <1>1, <1>2 DEF Last
<1>4. /\ shown' = Head(wire) /\ replay' \in 0..Len(log) /\ control' = [control EXCEPT !.fresh = FALSE]
      /\ appear' \subseteq Nodes /\ burst' \subseteq Nodes /\ motion' \in BOOLEAN
      /\ MotionFollows' /\ EffectsMove' /\ EffectsAreDrawn' /\ ArrivalsAreNew
  <2>1. delivered' = IF TRUE THEN Head(wire) ELSE delivered
    BY <1>1
  <2>2. QED
    BY <1>1, <1>3, <2>1, AcceptKeeps
<1>5. /\ control' \in [at : {"idle", "posting", "posted", "refreshing"},
                       target : ViewerSessions \union {NoSession}, fresh : BOOLEAN, version : 0..Len(log)]
      /\ control'.at = control.at /\ control'.version = control.version /\ control'.fresh = FALSE
      /\ control = NoControl => control' = NoControl
  BY <1>4, UnfreshTyped
<1>6. ViewerTypeOK'
  <2>1. shown' \in 0..Len(log') /\ delivered' \in 0..Len(log')
    BY <1>1, <1>2, <1>3, <1>4
  <2>2. QED
    BY <1>1, <1>3, <1>4, <1>5, <2>1 DEF ViewerInv, ViewerTypeOK
<1>7. LinkHolds'
  BY <1>1, <1>3 DEF ViewerInv, LinkHolds, Newest, Runs
<1>8. Last(wire) = Newest
  BY <1>1 DEF ViewerInv, LinkHolds
<1>9. ControlHolds' /\ UpToDate'
  BY <1>1, <1>3, <1>4, <1>5, <1>8 DEF ViewerInv, ControlHolds, UpToDate, Delivered, Newest
<1>10. QED
  BY <1>4, <1>6, <1>7, <1>9 DEF ViewerInv

\* Nothing of the link changes: what LinkStep asks of it.
LEMMA LinkRests ==
    ASSUME ViewerInv
    PROVE  /\ connects \subseteq [attempt : 1..attempt, version : 0..Len(log)]
           /\ connection \in {"connecting", "connected", "reconnecting", "error", "auth"}
           /\ banner \in BOOLEAN
           /\ \A c \in connects : c.attempt = attempt => \E d \in connects : d.attempt = attempt
           /\ \A c, d \in connects : c.attempt = attempt /\ d.attempt = attempt => c = d
BY DEF ViewerInv, ViewerTypeOK, LinkHolds

LEMMA ControlPostedKeeps ==
    ASSUME ViewerInv, NEW t \in ViewerSessions \union {NoSession}, ControlPosted(t)
    PROVE  ViewerInv' /\ ArrivalsAreNew
<1> DEFINE posted == [NoControl EXCEPT !.at = "posting", !.target = t]
<1>1. /\ Spent /\ Runs /\ connection = "connected"
      /\ control' = posted /\ banner' = FALSE
      /\ Reset \/ UNCHANGED <<motion, appear, burst>>
      /\ UNCHANGED <<daemonVars, linkVars, shown, replay, quiet, canvas, page, delivered>>
  BY DEF ControlPosted
<1>2. /\ posted \in [at : {"idle", "posting", "posted", "refreshing"},
                     target : ViewerSessions \union {NoSession}, fresh : BOOLEAN, version : 0..Len(log)]
      /\ posted.at = "posting" /\ posted.version = 0 /\ posted.fresh = FALSE
  <2>1. 0 \in 0..Len(log) /\ NoControl.version = 0 /\ NoControl.fresh = FALSE
    BY ControlTyped
  <2>2. QED
    BY <2>1 DEF NoControl
<1> HIDE DEF posted
<1>3. acts' \in 0..MaxActs
  BY <1>1, ControlTyped
<1>4. /\ motion' \in BOOLEAN /\ appear' \subseteq appear /\ burst' \subseteq burst /\ (motion' => motion)
  <2>1. motion \in BOOLEAN
    BY DEF ViewerInv, ViewerTypeOK
  <2>2. CASE Reset
    BY <2>2 DEF Reset
  <2>3. CASE UNCHANGED <<motion, appear, burst>>
    BY <2>1, <2>3
  <2>4. QED
    BY <1>1, <2>2, <2>3
<1>5. ViewerTypeOK'
  BY <1>1, <1>2, <1>3, <1>4 DEF ViewerInv, ViewerTypeOK, daemonVars, linkVars
<1>6. LinkHolds'
  BY <1>1 DEF ViewerInv, LinkHolds, daemonVars, linkVars, Newest, Runs
<1>7. ControlHolds' /\ UpToDate'
  BY <1>1, <1>2 DEF ControlHolds, UpToDate
<1>8. MotionFollows' /\ EffectsMove' /\ EffectsAreDrawn' /\ ArrivalsAreNew
  <2>1. CASE Reset
    BY <2>1, PictureResets
  <2>2. CASE UNCHANGED <<motion, appear, burst>>
    <3>1. UNCHANGED <<pictureVars, quiet, canvas, page, delivered>> /\ \A v \in DOMAIN log : log'[v] = log[v]
      BY <1>1, <2>2 DEF pictureVars, daemonVars
    <3>2. QED
      BY <3>1, PictureRests
  <2>3. QED
    BY <1>1, <2>1, <2>2
<1>9. QED
  BY <1>5, <1>6, <1>7, <1>8 DEF ViewerInv

LEMMA ControlSteps ==
    ASSUME ViewerInv, ControlAnswered \/ RefreshServed \/ ControlFails
    PROVE  ViewerInv' /\ ArrivalsAreNew
<1>1. CASE ControlAnswered
  <2> DEFINE next == [control EXCEPT !.at = "refreshing", !.fresh = TRUE]
  <2>1. /\ control.at = "posted" /\ control' = next
        /\ UNCHANGED <<daemonVars, linkVars, pictureVars, banner, quiet, canvas, page, delivered, acts>>
    BY <1>1 DEF ControlAnswered
  <2>2. /\ next \in [at : {"idle", "posting", "posted", "refreshing"},
                     target : ViewerSessions \union {NoSession}, fresh : BOOLEAN, version : 0..Len(log)]
        /\ next.at = "refreshing" /\ next.version = control.version /\ next.fresh = TRUE
    BY ControlTyped
  <2> HIDE DEF next
  <2>3. control.version = 0
    BY <2>1 DEF ViewerInv, ControlHolds
  <2>4. ControlHolds' /\ UpToDate'
    BY <2>1, <2>2, <2>3 DEF ControlHolds, UpToDate
  <2>5. QED
    BY <2>1, <2>2, <2>4, LinkRests, ControlTyped, LinkStep DEF linkVars
<1>2. CASE RefreshServed
  <2> DEFINE next == [control EXCEPT !.version = Newest]
  <2>1. /\ control.at = "refreshing" /\ control' = next
        /\ UNCHANGED <<daemonVars, linkVars, pictureVars, banner, quiet, canvas, page, delivered, acts>>
    BY <1>2 DEF RefreshServed
  <2>2. /\ next \in [at : {"idle", "posting", "posted", "refreshing"},
                     target : ViewerSessions \union {NoSession}, fresh : BOOLEAN, version : 0..Len(log)]
        /\ next.at = control.at /\ next.version = Newest /\ next.fresh = control.fresh
    BY ControlTyped DEF Newest
  <2> HIDE DEF next
  <2>3. ControlHolds' /\ UpToDate'
    BY <2>1, <2>2 DEF ViewerInv, ControlHolds, UpToDate, Delivered, Newest, daemonVars, linkVars, pictureVars
  <2>4. QED
    BY <2>1, <2>2, <2>3, LinkRests, ControlTyped, LinkStep DEF linkVars
<1>3. CASE ControlFails
  <2>1. /\ Spent /\ control' = NoControl /\ banner' = TRUE
        /\ connection' = connection \/ connection' = "auth"
        /\ UNCHANGED <<daemonVars, stream, attempt, connects, pictureVars, quiet, canvas, page, delivered>>
    BY <1>3 DEF ControlFails
  <2>2. ControlHolds' /\ UpToDate'
    BY <2>1, ControlTyped DEF ControlHolds, UpToDate, Delivered
  <2>3. QED
    BY <2>1, <2>2, LinkRests, ControlTyped, LinkStep
<1>4. QED
  BY <1>1, <1>2, <1>3

LEMMA RefreshedKeeps ==
    ASSUME ViewerInv, Refreshed
    PROVE  ViewerInv' /\ ArrivalsAreNew
<1>1. /\ control.version # 0
      /\ UNCHANGED <<daemonVars, linkVars, banner, quiet, canvas, page, delivered, acts>>
  BY DEF Refreshed
<1>2. control.version \in DOMAIN log /\ control.at = "refreshing"
  BY <1>1, ControlTyped DEF ViewerInv, ViewerTypeOK, ControlHolds
<1>3. CASE Overtaken /\ control' = NoControl /\ UNCHANGED pictureVars
  <2>1. ControlHolds' /\ UpToDate'
    BY <1>1, <1>2, <1>3, ControlTyped
    DEF ViewerInv, ControlHolds, UpToDate, Delivered, Overtaken, Newest, daemonVars, linkVars, pictureVars
  <2>2. QED
    BY <1>1, <1>3, <2>1, LinkRests, ControlTyped, LinkStep DEF linkVars
<1>4. CASE ~ Overtaken /\ Accept(control.version, FALSE, NoControl)
  <2>1. /\ shown' = control.version /\ replay' \in 0..Len(log) /\ control' = [NoControl EXCEPT !.fresh = FALSE]
        /\ appear' \subseteq Nodes /\ burst' \subseteq Nodes /\ motion' \in BOOLEAN
        /\ MotionFollows' /\ EffectsMove' /\ EffectsAreDrawn' /\ ArrivalsAreNew
    <3>1. delivered' = IF FALSE THEN control.version ELSE delivered
      BY <1>1
    <3>2. log' = log
      BY <1>1 DEF daemonVars
    <3>3. QED
      BY <1>1, <1>2, <1>4, <3>1, <3>2, AcceptKeeps
  <2>2. control' = NoControl
    BY <2>1 DEF NoControl
  <2>3. ViewerTypeOK'
    <3>1. shown' \in 0..Len(log)
      BY <1>2, <2>1, ControlTyped
    <3>2. control' \in [at : {"idle", "posting", "posted", "refreshing"},
                        target : ViewerSessions \union {NoSession}, fresh : BOOLEAN, version : 0..Len(log)]
      BY <2>2, ControlTyped
    <3>3. UNCHANGED <<log, wire, stream, attempt, connects, connection, banner, quiet, canvas, page, delivered, acts>>
      BY <1>1 DEF daemonVars, linkVars
    <3>4. QED
      BY <2>1, <3>1, <3>2, <3>3 DEF ViewerInv, ViewerTypeOK
  <2>4. LinkHolds'
    BY <1>1 DEF ViewerInv, LinkHolds, daemonVars, linkVars, Newest, Runs
  <2>5. ControlHolds' /\ UpToDate'
    BY <1>1, <1>2, <1>4, <2>1, <2>2, ControlTyped
    DEF ViewerInv, ControlHolds, UpToDate, Delivered, Overtaken, Newest, daemonVars, linkVars
  <2>6. QED
    BY <2>1, <2>3, <2>4, <2>5 DEF ViewerInv
<1>5. QED
  BY <1>3, <1>4 DEF Refreshed

LEMMA ViewerRests ==
    ASSUME ViewerInv, UNCHANGED viewerVars
    PROVE  ViewerInv' /\ ArrivalsAreNew
<1>1. UNCHANGED <<daemonVars, linkVars, pictureVars, banner, control, quiet, canvas, page, delivered, acts>>
  BY DEF viewerVars
<1>2. ViewerTypeOK' /\ LinkHolds' /\ ControlHolds' /\ UpToDate'
  BY <1>1 DEF ViewerInv, ViewerTypeOK, LinkHolds, ControlHolds, UpToDate, Delivered, Newest, Runs,
              daemonVars, linkVars, pictureVars
<1>3. MotionFollows' /\ EffectsMove' /\ EffectsAreDrawn' /\ ArrivalsAreNew
  BY <1>1, PictureRests DEF daemonVars
<1>4. QED
  BY <1>2, <1>3 DEF ViewerInv

LEMMA ViewerKept ==
    ASSUME ViewerInv, [ViewerNext]_viewerVars
    PROVE  ViewerInv' /\ ArrivalsAreNew
<1>1. CASE ViewerDaemonChanges \/ ControlServed
  BY <1>1, DaemonSteps
<1>2. CASE Retry \/ PageShows
  BY <1>2, ConnectAgain
<1>3. ASSUME NEW c \in connects, StateServed(c) \/ Connected(c) \/ ConnectFails(c) \/ ConnectOutdated(c)
      PROVE  ViewerInv' /\ ArrivalsAreNew
  BY <1>3, ConnectSteps, ConnectedKeeps
<1>4. CASE StreamOpens
  BY <1>4, StreamOpensKeeps
<1>5. CASE StreamBreaks \/ PageHides \/ ViewerCloses
  BY <1>5, StreamEnds
<1>6. CASE StreamDelivers
  BY <1>6, StreamDeliversKeeps
<1>7. CASE StreamGarbles
  BY <1>7, StreamGarblesKeeps
<1>8. ASSUME NEW t \in ViewerSessions \union {NoSession}, ControlPosted(t)
      PROVE  ViewerInv' /\ ArrivalsAreNew
  BY <1>8, ControlPostedKeeps
<1>9. CASE ControlAnswered \/ RefreshServed \/ ControlFails
  BY <1>9, ControlSteps
<1>10. CASE Refreshed
  BY <1>10, RefreshedKeeps
<1>11. CASE EffectEnds \/ (\E v \in DOMAIN log : ReplayAt(v)) \/ LiveAgain
            \/ Still \/ Unfollow \/ Moves \/ ViewDrawn
  BY <1>11, PictureSteps
<1>12. CASE UNCHANGED viewerVars
  BY <1>12, ViewerRests
<1>13. QED
  BY <1>1, <1>2, <1>3, <1>4, <1>5, <1>6, <1>7, <1>8, <1>9, <1>10, <1>11, <1>12 DEF ViewerNext

\* What the three paths bring, what is drawn and what runs over it stay in step.
THEOREM ViewerCorrect == ViewerSpec => []ViewerInv
<1>1. ViewerInv /\ [ViewerNext]_viewerVars => ViewerInv'
  BY ViewerKept
<1>2. QED
  BY ViewerStarts, <1>1, PTL DEF ViewerSpec

LEMMA NothingIsMissed ==
    ASSUME ViewerInv
    PROVE  EffectsAreDrawn /\ NothingMissed
<1>1. EffectsAreDrawn
  BY DEF ViewerInv
<1>2. NothingMissed
  BY ControlTyped DEF ViewerInv, NothingMissed, LinkHolds, UpToDate, Delivered
<1>3. QED
  BY <1>1, <1>2

\* The canvas shows the newest snapshot or says that it may not, and animates only what happened
\* between two snapshots that followed one another on one stream.
THEOREM ViewerIsTruthful == ViewerSpec => ViewerTruthful
<1>1. ViewerInv /\ [ViewerNext]_viewerVars => [ArrivalsAreNew]_viewerVars
  BY ViewerKept
<1>2. ViewerInv => EffectsAreDrawn /\ NothingMissed
  BY NothingIsMissed
<1>3. QED
  BY ViewerCorrect, <1>1, <1>2, PTL DEF ViewerSpec, ViewerTruthful

(***************************************************************************)
(* The calls of the activity list: an inductive invariant of the rows, of    *)
(* the queue of questions and of the questions that are under way.           *)
(***************************************************************************)

\* What was attempted was judged, or a question about it is under way; and one that was not
\* aborted is about the versions and the hints that the call has.
RowHolds(row, of, runs) ==
    /\ row.object = 0 => ~ row.attempted
    /\ row.attempted => row.judged = Question(row) \/ (runs /\ of.object = row.object)
    /\ runs /\ ~ of.aborted /\ of.object = row.object => Question(of) = Question(row)

TablesHold(table, queue, running, last) ==
    /\ table \in [Calls -> Rows] /\ running \in [Calls -> Mappings]
    /\ queue \subseteq Remembered(table) \ Running(running)
    /\ \A c \in Calls :
        /\ table[c].object <= last /\ running[c].object <= last
        /\ RowHolds(table[c], running[c], c \in Running(running))

\* A question that was not aborted began after the last control, and may still be answered.
BegunSince(running, up, now) ==
    \A c \in Running(running) : ~ running[c].aborted => up /\ running[c].began = now

\* What was asked rests on some structure; what is being applied, on that of the versions.
AskedOf(running, present) ==
    /\ \A c \in Calls : running[c].stage \in {"asked", "answered"} => running[c].context # NoRefs
    /\ present.op = "apply" => /\ running[present.call].stage = "answered"
                          /\ Agrees(running[present.call].context, running[present.call].versions)

\* A call that could be asked about waits; and what waits, waits for a question to end.
Wanted(c, row, structure, sessions) ==
    Eligible(c, row, structure, sessions) /\ row.seen /\ sessions[SessionOf[c]] \notin {"ended", "returned"}

QueueHolds(table, queue, running, structure, sessions) ==
    /\ queue # {} => Running(running) # {}
    /\ \A c \in Calls \ Running(running) : Wanted(c, table[c], structure, sessions) => c \in queue

ActivityInv ==
    /\ ActivityTypeOK
    /\ TablesHold(calls, waiting, mapping, made)
    /\ BegunSince(mapping, Available, controls)
    /\ AskedOf(mapping, turn)
    /\ Available => QueueHolds(calls, waiting, mapping, parsed, live)

-----------------------------------------------------------------------------
(* Rows and questions. *)

LEMMA ForgottenIs ==
    /\ Forgotten \in Rows /\ Forgotten.object = 0 /\ Forgotten.state = "pending" /\ Forgotten.mapping = "exact"
    /\ Forgotten.versions = NoRefs /\ Forgotten.attempted = FALSE
    /\ NoMapping \in Mappings /\ NoMapping.stage = "none" /\ NoMapping.object = 0
<1>1. NoRefs \in References
  BY DEF NoRefs, References
<1>2. Forgotten \in Rows
  BY <1>1 DEF Forgotten, Rows
<1>3. NoMapping \in Mappings
  BY <1>1 DEF NoMapping, Mappings
<1>4. QED
  BY <1>2, <1>3 DEF Forgotten, NoMapping

\* A question that is aborted stays what it is.
LEMMA AbortedIs ==
    ASSUME NEW running \in [Calls -> Mappings], NEW which
    PROVE  /\ Aborted(running, which) \in [Calls -> Mappings]
           /\ Running(Aborted(running, which)) = Running(running)
           /\ \A c \in Calls : LET of == Aborted(running, which)[c] IN
                /\ of.stage = running[c].stage /\ of.object = running[c].object
                /\ of.versions = running[c].versions /\ of.hints = running[c].hints
                /\ of.context = running[c].context /\ of.began = running[c].began
                /\ ~ of.aborted => of = running[c] /\ (c \in Running(running) => c \notin which)
<1> DEFINE after == Aborted(running, which)
<1>1. \A c \in Calls : after[c] = IF c \in which /\ running[c].stage # "none"
                                  THEN [running[c] EXCEPT !.aborted = TRUE] ELSE running[c]
  BY DEF Aborted
<1>2. after = [c \in Calls |-> after[c]]
  BY DEF Aborted
<1> HIDE DEF after
<1>3. \A c \in Calls : running[c] \in Mappings
  OBVIOUS
<1>4. \A c \in Calls : [running[c] EXCEPT !.aborted = TRUE] \in Mappings
  BY <1>3 DEF Mappings
<1>5. \A c \in Calls : after[c] \in Mappings
  BY <1>1, <1>3, <1>4
<1>6. \A c \in Calls : /\ after[c].stage = running[c].stage /\ after[c].object = running[c].object
                       /\ after[c].versions = running[c].versions /\ after[c].hints = running[c].hints
                       /\ after[c].context = running[c].context /\ after[c].began = running[c].began
  BY <1>1, <1>3 DEF Mappings
<1>7. ASSUME NEW c \in Calls, ~ after[c].aborted
      PROVE  after[c] = running[c] /\ (c \in Running(running) => c \notin which)
  <2>1. CASE c \in which /\ running[c].stage # "none"
    <3>1. after[c] = [running[c] EXCEPT !.aborted = TRUE]
      BY <1>1, <2>1
    <3>2. after[c].aborted = TRUE
      BY <1>3, <3>1 DEF Mappings
    <3>3. QED
      BY <1>7, <3>2
  <2>2. CASE ~ (c \in which /\ running[c].stage # "none")
    BY <1>1, <2>2 DEF Running
  <2>3. QED
    BY <2>1, <2>2
<1>8. Running(after) = Running(running)
  BY <1>6 DEF Running
<1>9. after \in [Calls -> Mappings]
  BY <1>2, <1>5
<1>10. QED
  BY <1>6, <1>7, <1>8, <1>9 DEF after

\* So what was true of questions stays true of them.
LEMMA AbortKeeps ==
    ASSUME NEW running \in [Calls -> Mappings], NEW which, NEW up \in BOOLEAN, NEW now, NEW present,
           BegunSince(running, up, now), AskedOf(running, present), present \in Turns
    PROVE  BegunSince(Aborted(running, which), up, now) /\ AskedOf(Aborted(running, which), present)
<1> DEFINE after == Aborted(running, which)
<1>1. /\ Running(after) = Running(running)
      /\ \A c \in Calls : /\ after[c].stage = running[c].stage /\ after[c].versions = running[c].versions
                          /\ after[c].context = running[c].context /\ after[c].began = running[c].began
                          /\ ~ after[c].aborted => after[c] = running[c]
  BY AbortedIs
<1> HIDE DEF after
<1>2. BegunSince(after, up, now)
  <2> SUFFICES ASSUME NEW c \in Running(after), ~ after[c].aborted PROVE up /\ after[c].began = now
    BY DEF BegunSince
  <2>1. c \in Calls /\ c \in Running(running)
    BY <1>1 DEF Running
  <2>2. after[c] = running[c]
    BY <1>1, <2>1
  <2>3. QED
    BY <2>1, <2>2 DEF BegunSince
<1>3. present.op = "apply" => present.call \in Calls
  BY DEF Turns, Idle
<1>4. AskedOf(after, present)
  BY <1>1, <1>3 DEF AskedOf
<1>5. QED
  BY <1>2, <1>4 DEF after

\* Rows that are forgotten take their place in the queue and their question with them.
LEMMA ForgetKeeps ==
    ASSUME NEW table, NEW queue, NEW running, NEW last \in Nat, TablesHold(table, queue, running, last),
           NEW gone \in SUBSET Calls, NEW which, gone \subseteq which
    PROVE  TablesHold(Forget(table, gone), queue \ gone, Aborted(running, which), last)
<1> DEFINE after == Aborted(running, which)
           rows == Forget(table, gone)
<1>1. /\ table \in [Calls -> Rows] /\ running \in [Calls -> Mappings]
      /\ queue \subseteq Remembered(table) \ Running(running)
      /\ \A c \in Calls : /\ table[c].object <= last /\ running[c].object <= last
                          /\ RowHolds(table[c], running[c], c \in Running(running))
  BY DEF TablesHold
<1>2. /\ after \in [Calls -> Mappings] /\ Running(after) = Running(running)
      /\ \A c \in Calls : /\ after[c].object = running[c].object
                          /\ after[c].versions = running[c].versions /\ after[c].hints = running[c].hints
                          /\ ~ after[c].aborted => after[c] = running[c] /\ (c \in Running(running) => c \notin which)
  BY <1>1, AbortedIs
<1>3. /\ rows \in [Calls -> Rows]
      /\ \A c \in Calls : rows[c] = IF c \in gone THEN Forgotten ELSE table[c]
  BY <1>1, ForgottenIs DEF Forget
<1> HIDE DEF after, rows
<1>4. queue \ gone \subseteq Remembered(rows) \ Running(after)
  BY <1>1, <1>2, <1>3 DEF Remembered
<1>5. ASSUME NEW c \in Calls
      PROVE  /\ rows[c].object <= last /\ after[c].object <= last
             /\ RowHolds(rows[c], after[c], c \in Running(after))
  <2>1. after[c].object <= last
    BY <1>1, <1>2
  <2>2. CASE c \in gone
    <3>1. rows[c].object = 0 /\ ~ rows[c].attempted
      BY <1>3, <2>2, ForgottenIs
    <3>2. c \in Running(after) => after[c].aborted
      BY <1>2, <2>2
    <3>3. QED
      BY <2>1, <3>1, <3>2 DEF RowHolds
  <2>3. CASE c \notin gone
    <3>1. rows[c] = table[c]
      BY <1>3, <2>3
    <3>2. RowHolds(table[c], running[c], c \in Running(running)) /\ table[c].object <= last
      BY <1>1
    <3>3. ~ after[c].aborted => after[c] = running[c]
      BY <1>2
    <3>4. QED
      BY <1>2, <2>1, <3>1, <3>2, <3>3 DEF RowHolds
  <2>4. QED
    BY <2>2, <2>3
<1>6. QED
  BY <1>2, <1>3, <1>4, <1>5 DEF TablesHold, after, rows

-----------------------------------------------------------------------------
(* The queue of questions. *)

\* What is attempted, by a question or by a full queue.
LEMMA AttemptIs ==
    ASSUME NEW row \in Rows, NEW new,
           \/ new = [row EXCEPT !.attempted = TRUE]
           \/ new = [row EXCEPT !.attempted = TRUE, !.judged = Question(row)]
    PROVE  /\ new \in Rows
           /\ new.object = row.object /\ new.mapping = row.mapping /\ new.state = row.state
           /\ new.refs = row.refs /\ new.attempted = TRUE /\ Question(new) = Question(row)
           /\ new = [row EXCEPT !.attempted = TRUE, !.judged = Question(row)] => new.judged = Question(row)
<1>1. /\ row.object \in Nat /\ row.state \in {"pending", "done", "unresolved"}
      /\ row.mapping \in {"exact", "decision"} /\ row.refs \in References /\ row.old \in BOOLEAN
      /\ row.seen \in BOOLEAN /\ row.versions \in References /\ row.hints \in 0..1
      /\ row.judged \in References \X (0..1)
  BY DEF Rows
<1>2. Question(row) \in References \X (0..1)
  BY <1>1 DEF Question
<1> DEFINE one == [row EXCEPT !.attempted = TRUE]
<1>3. one \in Rows /\ one.attempted = TRUE /\ one.object = row.object /\ one.mapping = row.mapping
      /\ one.state = row.state /\ one.refs = row.refs /\ one.versions = row.versions /\ one.hints = row.hints
  BY <1>1 DEF Rows
<1> DEFINE two == [one EXCEPT !.judged = Question(row)]
<1>4. [row EXCEPT !.attempted = TRUE, !.judged = Question(row)] = two
  OBVIOUS
<1> HIDE DEF one
<1>5. two \in Rows /\ two.attempted = TRUE /\ two.object = row.object /\ two.mapping = row.mapping
      /\ two.state = row.state /\ two.refs = row.refs /\ two.versions = row.versions /\ two.hints = row.hints
      /\ two.judged = Question(row)
  BY <1>2, <1>3 DEF Rows
<1> HIDE DEF two
<1>6. Question(one) = Question(row) /\ Question(two) = Question(row)
  BY <1>3, <1>5 DEF Question
<1>7. ASSUME new = one \/ new = two
      PROVE  /\ new \in Rows
             /\ new.object = row.object /\ new.mapping = row.mapping /\ new.state = row.state
             /\ new.refs = row.refs /\ new.attempted = TRUE /\ Question(new) = Question(row)
             /\ new = two => new.judged = Question(row)
  <2>1. CASE new = one
    BY <1>3, <1>5, <1>6, <2>1
  <2>2. CASE new = two
    BY <1>5, <1>6, <2>2
  <2>3. QED
    BY <1>7, <2>1, <2>2
<1>8. QED
  BY <1>4, <1>7 DEF one

LEMMA WakeKeeps ==
    ASSUME NEW table, NEW queue, NEW running, TablesHold(table, queue, running, made'),
           made' \in Nat, epoch' \in Nat, controls' \in Nat, turn' \in Turns,
           BegunSince(running, Available', controls'), AskedOf(running, turn'),
           Wake(table, queue, running)
    PROVE  /\ TablesHold(calls', waiting', mapping', made')
           /\ BegunSince(mapping', Available', controls') /\ AskedOf(mapping', turn')
           /\ Available' => QueueHolds(calls', waiting', mapping', parsed', live')
           /\ \A c \in Calls : /\ calls'[c].mapping = table[c].mapping /\ calls'[c].state = table[c].state
                               /\ calls'[c].refs = table[c].refs
<1>1. /\ table \in [Calls -> Rows] /\ running \in [Calls -> Mappings]
      /\ queue \subseteq Remembered(table) \ Running(running)
      /\ \A c \in Calls : /\ table[c].object <= made' /\ running[c].object <= made'
                          /\ RowHolds(table[c], running[c], c \in Running(running))
  BY DEF TablesHold
<1>2. CASE ~ Available'
  BY <1>2 DEF Wake, Become
<1>3. CASE Available'
  <2> DEFINE wanted == {c \in Calls \ Running(running) : Eligible(c, table[c], parsed', live')} \union queue
  <2>1. PICK queued \in SUBSET wanted :
          /\ queue \subseteq queued
          /\ \E first \in SUBSET queued :
                /\ first = queued \/ Cardinality(first \union Running(running)) = MaxMappings
                /\ Become([c \in Calls |->
                              IF c \in first THEN [table[c] EXCEPT !.attempted = TRUE]
                              ELSE IF c \in wanted \ queued
                              THEN [table[c] EXCEPT !.attempted = TRUE, !.judged = Question(table[c])]
                              ELSE table[c]],
                          queued \ first,
                          [c \in Calls |-> IF c \in first THEN Started(table[c], epoch', controls') ELSE running[c]])
    BY <1>3 DEF Wake
  <2>2. PICK first \in SUBSET queued :
          /\ first = queued \/ Cardinality(first \union Running(running)) = MaxMappings
          /\ calls' = [c \in Calls |->
                              IF c \in first THEN [table[c] EXCEPT !.attempted = TRUE]
                              ELSE IF c \in wanted \ queued
                              THEN [table[c] EXCEPT !.attempted = TRUE, !.judged = Question(table[c])]
                              ELSE table[c]]
          /\ waiting' = queued \ first
          /\ mapping' = [c \in Calls |-> IF c \in first THEN Started(table[c], epoch', controls') ELSE running[c]]
    BY <2>1 DEF Become
  <2>3. wanted \subseteq Remembered(table) \ Running(running) /\ queued \subseteq wanted /\ first \subseteq queued
        /\ wanted \subseteq Calls
    BY <1>1 DEF Eligible, Remembered
  <2>4. \A c \in Calls : table[c] \in Rows /\ running[c] \in Mappings
    BY <1>1
  <2>5. \A c \in Calls : calls'[c] = IF c \in first THEN [table[c] EXCEPT !.attempted = TRUE]
                              ELSE IF c \in wanted \ queued
                              THEN [table[c] EXCEPT !.attempted = TRUE, !.judged = Question(table[c])]
                              ELSE table[c]
    BY <2>2
  <2>6. \A c \in Calls : mapping'[c] = IF c \in first THEN Started(table[c], epoch', controls') ELSE running[c]
    BY <2>2
  <2>7. /\ calls' \in [Calls -> Rows]
        /\ \A c \in Calls : /\ calls'[c].object = table[c].object /\ calls'[c].mapping = table[c].mapping
                            /\ calls'[c].state = table[c].state /\ calls'[c].refs = table[c].refs
                            /\ Question(calls'[c]) = Question(table[c])
                            /\ c \in first => calls'[c].attempted = TRUE
                            /\ c \in wanted \ queued => calls'[c].attempted = TRUE /\ calls'[c].judged = Question(table[c])
                            /\ c \notin first \union (wanted \ queued) => calls'[c] = table[c]
    <3>1. ASSUME NEW c \in Calls
          PROVE  /\ calls'[c] \in Rows
                 /\ calls'[c].object = table[c].object /\ calls'[c].mapping = table[c].mapping
                 /\ calls'[c].state = table[c].state /\ calls'[c].refs = table[c].refs
                 /\ Question(calls'[c]) = Question(table[c])
                 /\ c \in first => calls'[c].attempted = TRUE
                 /\ c \in wanted \ queued => calls'[c].attempted = TRUE /\ calls'[c].judged = Question(table[c])
                 /\ c \notin first \union (wanted \ queued) => calls'[c] = table[c]
      <4>1. CASE c \in first
        <5>1. calls'[c] = [table[c] EXCEPT !.attempted = TRUE] /\ c \notin wanted \ queued
          BY <2>3, <2>5, <4>1
        <5>2. /\ calls'[c] \in Rows
              /\ calls'[c].object = table[c].object /\ calls'[c].mapping = table[c].mapping
              /\ calls'[c].state = table[c].state /\ calls'[c].refs = table[c].refs
              /\ calls'[c].attempted = TRUE /\ Question(calls'[c]) = Question(table[c])
          BY <2>4, <5>1, AttemptIs
        <5> HIDE DEF wanted
        <5>3. QED
          BY <4>1, <5>1, <5>2
      <4>2. CASE c \in wanted \ queued
        <5>1. calls'[c] = [table[c] EXCEPT !.attempted = TRUE, !.judged = Question(table[c])] /\ c \notin first
          BY <2>3, <2>5, <4>2
        <5>2. /\ calls'[c] \in Rows
              /\ calls'[c].object = table[c].object /\ calls'[c].mapping = table[c].mapping
              /\ calls'[c].state = table[c].state /\ calls'[c].refs = table[c].refs
              /\ calls'[c].attempted = TRUE /\ Question(calls'[c]) = Question(table[c])
              /\ calls'[c].judged = Question(table[c])
          BY <2>4, <5>1, AttemptIs
        <5> HIDE DEF wanted
        <5>3. QED
          BY <4>2, <5>1, <5>2
      <4>3. CASE c \notin first \union (wanted \ queued)
        BY <2>4, <2>5, <4>3
      <4>4. QED
        BY <4>1, <4>2, <4>3
    <3>2. QED
      BY <2>2, <3>1
  <2>8. /\ mapping' \in [Calls -> Mappings]
        /\ \A c \in Calls : c \in first =>
              /\ mapping'[c].stage = "starting" /\ mapping'[c].object = table[c].object
              /\ mapping'[c].aborted = FALSE /\ mapping'[c].began = controls'
              /\ Question(mapping'[c]) = Question(table[c])
    <3>1. ASSUME NEW c \in Calls, c \in first
          PROVE  /\ mapping'[c] \in Mappings
                 /\ mapping'[c].stage = "starting" /\ mapping'[c].object = table[c].object
                 /\ mapping'[c].aborted = FALSE /\ mapping'[c].began = controls'
                 /\ Question(mapping'[c]) = Question(table[c])
      <4>1. mapping'[c] = Started(table[c], epoch', controls') /\ table[c] \in Rows
        BY <2>4, <2>6, <3>1
      <4>2. NoRefs \in References
        BY DEF NoRefs, References
      <4>3. table[c].object \in Nat /\ table[c].versions \in References /\ table[c].hints \in 0..1
        BY <4>1 DEF Rows
      <4> HIDE DEF wanted
      <4>4. mapping'[c] \in Mappings
        BY <4>1, <4>2, <4>3 DEF Started, Mappings
      <4>5. /\ mapping'[c].stage = "starting" /\ mapping'[c].object = table[c].object
            /\ mapping'[c].aborted = FALSE /\ mapping'[c].began = controls'
            /\ mapping'[c].versions = table[c].versions /\ mapping'[c].hints = table[c].hints
        BY <4>1 DEF Started
      <4>6. QED
        BY <4>4, <4>5 DEF Question
    <3>2. \A c \in Calls : mapping'[c] \in Mappings
      BY <2>4, <2>6, <3>1
    <3>3. QED
      BY <2>2, <3>1, <3>2
  <2>9. Running(mapping') = Running(running) \union first
    BY <2>3, <2>6, <2>8 DEF Running
  <2>10. TablesHold(calls', waiting', mapping', made')
    <3>1. waiting' \subseteq Remembered(calls') \ Running(mapping')
      BY <2>2, <2>3, <2>7, <2>9 DEF Remembered
    <3>2. ASSUME NEW c \in Calls
          PROVE  /\ calls'[c].object <= made' /\ mapping'[c].object <= made'
                 /\ RowHolds(calls'[c], mapping'[c], c \in Running(mapping'))
      <4>1. calls'[c].object <= made' /\ mapping'[c].object <= made'
        BY <1>1, <2>6, <2>7, <2>8
      <4>2. CASE c \in first
        <5>1. table[c].object # 0
          BY <2>3, <4>2 DEF Remembered
        <5>2. c \in Running(mapping')
          BY <2>9, <4>2
        <5>3. QED
          BY <2>7, <2>8, <4>1, <4>2, <5>1, <5>2 DEF RowHolds
      <4>3. CASE c \in wanted \ queued
        <5>1. table[c].object # 0 /\ c \notin Running(mapping')
          BY <2>3, <2>9, <4>3 DEF Remembered
        <5>2. calls'[c].judged = Question(calls'[c])
          BY <2>7, <4>3
        <5>3. QED
          BY <2>7, <4>1, <5>1, <5>2 DEF RowHolds
      <4>4. CASE c \notin first \union (wanted \ queued)
        <5>1. calls'[c] = table[c] /\ mapping'[c] = running[c] /\ (c \in Running(mapping') <=> c \in Running(running))
          BY <2>6, <2>7, <2>9, <4>4
        <5>2. RowHolds(table[c], running[c], c \in Running(running))
          BY <1>1
        <5>3. QED
          BY <4>1, <5>1, <5>2 DEF RowHolds
      <4>5. QED
        BY <4>2, <4>3, <4>4
    <3>3. QED
      BY <2>7, <2>8, <3>1, <3>2 DEF TablesHold
  <2>11. BegunSince(mapping', Available', controls')
    <3> SUFFICES ASSUME NEW c \in Running(mapping'), ~ mapping'[c].aborted
                 PROVE  Available' /\ mapping'[c].began = controls'
      BY DEF BegunSince
    <3>1. c \in Calls
      BY DEF Running
    <3>2. CASE c \in first
      BY <1>3, <2>8, <3>1, <3>2
    <3>3. CASE c \notin first
      BY <2>6, <2>9, <3>1, <3>3 DEF BegunSince
    <3>4. QED
      BY <3>2, <3>3
  <2>12. AskedOf(mapping', turn')
    <3>1. ASSUME NEW c \in Calls, mapping'[c].stage \in {"asked", "answered"} PROVE mapping'[c].context # NoRefs
      <4>1. c \notin first
        BY <2>8, <3>1
      <4>2. QED
        BY <2>6, <3>1, <4>1 DEF AskedOf
    <3>2. ASSUME turn'.op = "apply"
          PROVE  /\ mapping'[turn'.call].stage = "answered"
                 /\ Agrees(mapping'[turn'.call].context, mapping'[turn'.call].versions)
      <4>1. turn'.call \in Calls
        BY <3>2 DEF Turns, Idle
      <4>2. /\ running[turn'.call].stage = "answered"
            /\ Agrees(running[turn'.call].context, running[turn'.call].versions)
        BY <3>2 DEF AskedOf
      <4>3. turn'.call \in Running(running)
        BY <4>1, <4>2 DEF Running
      <4>4. mapping'[turn'.call] = running[turn'.call]
        BY <2>3, <2>6, <4>1, <4>3
      <4>5. QED
        BY <4>2, <4>4
    <3>3. QED
      BY <3>1, <3>2 DEF AskedOf
  <2>13. QueueHolds(calls', waiting', mapping', parsed', live')
    <3>1. ASSUME waiting' # {} PROVE Running(mapping') # {}
      <4>1. Cardinality(first \union Running(running)) = MaxMappings /\ MaxMappings # 0
        BY <2>2, <3>1, ActivityAssumption
      <4>2. first \union Running(running) # {}
        BY <4>1, FS_EmptySet
      <4>3. QED
        BY <2>9, <4>2
    <3>2. ASSUME NEW c \in Calls \ Running(mapping'), Wanted(c, calls'[c], parsed', live')
          PROVE  c \in waiting'
      <4>1. calls'[c].attempted # TRUE
        BY <3>2 DEF Wanted, Eligible
      <4>2. c \notin first /\ c \notin wanted \ queued
        BY <2>7, <4>1
      <4>3. calls'[c] = table[c] /\ c \in wanted
        BY <2>7, <2>9, <3>2, <4>2 DEF Wanted
      <4>4. QED
        BY <2>2, <4>2, <4>3
    <3>3. QED
      BY <3>1, <3>2 DEF QueueHolds
  <2>14. QED
    BY <2>7, <2>10, <2>11, <2>12, <2>13
<1>4. QED
  BY <1>2, <1>3

\* A row that is written again.
LEMMA RowIs ==
    ASSUME NEW c \in Calls, calls[c] \in Rows, made \in Nat, NEW state \in {"pending", "done", "unresolved"},
           NEW exact \in {"exact", "decision"}, NEW refs \in References
    PROVE  LET row == Row(c, state, exact, refs) IN
           /\ row \in Rows
           /\ row.object = IF calls[c].object = 0 THEN made + 1 ELSE calls[c].object
           /\ row.state = state /\ row.mapping = exact /\ row.refs = refs /\ ~ row.seen
           /\ row.versions = calls[c].versions /\ row.judged = calls[c].judged
           /\ row.hints = calls[c].hints /\ row.attempted = calls[c].attempted
<1> DEFINE old == calls[c]
           r1 == [old EXCEPT !.object = IF @ = 0 THEN made + 1 ELSE @]
           r2 == [r1 EXCEPT !.state = state]
           r3 == [r2 EXCEPT !.mapping = exact]
           r4 == [r3 EXCEPT !.refs = refs]
           r5 == [r4 EXCEPT !.old = FALSE]
           r6 == [r5 EXCEPT !.seen = FALSE]
<1>1. Row(c, state, exact, refs) = r6
  BY DEF Row
<1>2. (IF old.object = 0 THEN made + 1 ELSE old.object) \in Nat
  BY DEF Rows
<1>3. /\ r6 \in Rows /\ r6.object = (IF old.object = 0 THEN made + 1 ELSE old.object)
      /\ r6.state = state /\ r6.mapping = exact /\ r6.refs = refs /\ ~ r6.seen
      /\ r6.versions = old.versions /\ r6.judged = old.judged /\ r6.hints = old.hints
      /\ r6.attempted = old.attempted
  BY <1>2 DEF Rows
<1> HIDE DEF r6
<1>4. QED
  BY <1>1, <1>3

\* And one that brings the first line hints.
LEMMA HintedIs ==
    ASSUME NEW plain \in Rows
    PROVE  LET row == Hinted(plain) IN
           /\ row \in Rows /\ row.object = plain.object /\ row.state = plain.state /\ row.refs = plain.refs
           /\ row.mapping = plain.mapping /\ row.versions = plain.versions /\ row.judged = plain.judged
           /\ row.seen = plain.seen
           /\ row.attempted => plain.attempted /\ row.hints = plain.hints
           /\ row.hints # plain.hints => ~ row.attempted
<1>1. CASE plain.hints = 0
  <2> DEFINE one == [plain EXCEPT !.hints = 1]
             two == [one EXCEPT !.attempted = FALSE]
  <2>1. Hinted(plain) = two
    BY <1>1 DEF Hinted
  <2>2. one \in Rows /\ one.object = plain.object /\ one.state = plain.state /\ one.refs = plain.refs
        /\ one.mapping = plain.mapping /\ one.versions = plain.versions /\ one.judged = plain.judged
        /\ one.seen = plain.seen
    BY DEF Rows
  <2> HIDE DEF one
  <2>3. two \in Rows /\ two.object = one.object /\ two.state = one.state /\ two.refs = one.refs
        /\ two.mapping = one.mapping /\ two.versions = one.versions /\ two.judged = one.judged
        /\ two.seen = one.seen /\ ~ two.attempted
    BY <2>2 DEF Rows
  <2> HIDE DEF two
  <2>4. QED
    BY <2>1, <2>2, <2>3
<1>2. CASE plain.hints # 0
  <2>1. Hinted(plain) = plain
    BY <1>2 DEF Hinted
  <2>2. QED
    BY <2>1
<1>3. QED
  BY <1>1, <1>2

-----------------------------------------------------------------------------
(* What the steps have in common. *)

LEMMA InvFollows ==
    ASSUME TablesHold(calls', waiting', mapping', made'), BegunSince(mapping', Available', controls'),
           AskedOf(mapping', turn'), Available' => QueueHolds(calls', waiting', mapping', parsed', live'),
           StoreTypeOK', parsed' \in References, live' \in [Sessions -> Lives],
           heard' \subseteq Calls \X {"requested", "done"}, made' \in Nat, turn' \in Turns,
           paused' \in BOOLEAN, available' \in BOOLEAN, closed' \in BOOLEAN,
           epoch' \in Nat, spent' \in Nat, controls' \in Nat
    PROVE  ActivityInv'
<1>1. waiting' \subseteq Calls
  BY DEF TablesHold, Remembered
<1>2. ActivityTypeOK'
  BY <1>1 DEF ActivityTypeOK, TablesHold
<1>3. QED
  BY <1>2 DEF ActivityInv

LEMMA InvGives ==
    ASSUME ActivityInv
    PROVE  /\ TablesHold(calls, waiting, mapping, made) /\ BegunSince(mapping, Available, controls)
           /\ AskedOf(mapping, turn) /\ (Available => QueueHolds(calls, waiting, mapping, parsed, live))
           /\ StoreTypeOK /\ parsed \in References /\ live \in [Sessions -> Lives]
           /\ heard \subseteq Calls \X {"requested", "done"} /\ made \in Nat /\ turn \in Turns
           /\ paused \in BOOLEAN /\ available \in BOOLEAN /\ closed \in BOOLEAN
           /\ epoch \in Nat /\ spent \in Nat /\ controls \in Nat
           /\ calls \in [Calls -> Rows] /\ mapping \in [Calls -> Mappings] /\ waiting \subseteq Calls
BY DEF ActivityInv, ActivityTypeOK

\* Rows that no step maps: they are as they were, unmapped or unresolved.
LEMMA NoneMapped ==
    ASSUME \A c \in Calls : \/ calls'[c].mapping = calls[c].mapping /\ calls'[c].state = calls[c].state
                            \/ calls'[c].mapping = "exact" \/ calls'[c].state = "unresolved"
    PROVE  \A c \in Calls : IsMapped(c)
BY DEF IsMapped

LEMMA TurnIs ==
    ASSUME turn \in Turns
    PROVE  /\ turn.op \in {"idle", "row", "capture", "sweep", "apply"}
           /\ turn.op \in {"row", "capture"} =>
                /\ turn.call \in Calls /\ turn.kind \in {"requested", "done", "late"}
                /\ [turn EXCEPT !.op = "capture"] \in Turns
                /\ [turn EXCEPT !.op = "capture", !.kind = "late"] \in Turns
                /\ [turn EXCEPT !.op = "capture"].op = "capture"
                /\ [turn EXCEPT !.op = "capture", !.kind = "late"].op = "capture"
           /\ turn.op = "apply" => turn.call \in Calls
           /\ Idle \in Turns /\ Idle.op = "idle"
           /\ [op |-> "sweep"] \in Turns /\ [op |-> "sweep"].op = "sweep"
<1>1. Idle.op = "idle" /\ Idle \in Turns
  BY DEF Idle, Turns
<1>2. [op |-> "sweep"] \in Turns /\ [op |-> "sweep"].op = "sweep"
  BY DEF Turns
<1>3. CASE turn \in {Idle} \union [op : {"sweep"}] \union [op : {"apply"}, call : Calls]
  BY <1>1, <1>2, <1>3
<1>4. CASE turn \in [op : {"row", "capture"}, call : Calls, kind : {"requested", "done", "late"}]
  <2> DEFINE one == [turn EXCEPT !.op = "capture"]
             two == [turn EXCEPT !.op = "capture", !.kind = "late"]
  <2>1. one \in [op : {"row", "capture"}, call : Calls, kind : {"requested", "done", "late"}] /\ one.op = "capture"
    BY <1>4
  <2>2. two \in [op : {"row", "capture"}, call : Calls, kind : {"requested", "done", "late"}] /\ two.op = "capture"
    BY <1>4
  <2>3. turn.call \in Calls /\ turn.kind \in {"requested", "done", "late"} /\ turn.op \in {"row", "capture"}
    BY <1>4
  <2>4. one \in Turns /\ two \in Turns
    BY <2>1, <2>2 DEF Turns
  <2>5. QED
    BY <1>1, <1>2, <2>1, <2>2, <2>3, <2>4
<1>5. QED
  BY <1>3, <1>4 DEF Turns

\* A file that changed has no structure any more.
LEMMA RegisterKeeps ==
    ASSUME StoreTypeOK, parsed \in References, NEW files, RegisterArtifacts(files)
    PROVE  /\ StoreTypeOK' /\ parsed' \in References /\ lineageId' = lineageId
           /\ \A a \in Artifacts : parsed'[a] = parsed[a] \/ parsed'[a] = 0
<1>1. /\ records' = [a \in Artifacts |->
                     IF a \in files THEN [gen |-> NextGeneration(a), seen |-> Inspect(a)] ELSE records[a]]
      /\ parsed' = [a \in Artifacts |-> IF records'[a] = records[a] THEN parsed[a] ELSE 0]
      /\ disk' = disk /\ lineageId' = lineageId
  BY DEF RegisterArtifacts
<1>2. \A a \in Artifacts : /\ records[a].gen \in Nat /\ records[a].seen \in Versions
                           /\ records[a] \in [gen : Nat, seen : Versions]
                           /\ disk[a].status \in Statuses /\ disk[a].stamp \in 0..MaxStamp
  BY DEF StoreTypeOK
<1>3. ASSUME NEW a \in Artifacts PROVE NextGeneration(a) \in Nat
  <2>1. records[a].gen + 1 \in Nat /\ records[a].gen \in Nat /\ GenerationFloor + 1 \in Nat
    BY <1>2, StoreAssumption
  <2>2. QED
    BY <2>1 DEF NextGeneration
<1>4. \A a \in Artifacts : Inspect(a) \in Versions
  <2>1. 0 \in 0..MaxStamp /\ lineageId \in AnyLineage
    BY StoreAssumption DEF StoreTypeOK
  <2>2. QED
    BY <1>2, <2>1 DEF Inspect, Versions
<1>5. records' \in [Artifacts -> [gen : Nat, seen : Versions]]
  BY <1>1, <1>2, <1>3, <1>4
<1>6. StoreTypeOK'
  BY <1>1, <1>5 DEF StoreTypeOK
<1>7. parsed' \in References /\ \A a \in Artifacts : parsed'[a] = parsed[a] \/ parsed'[a] = 0
  BY <1>1 DEF References
<1>8. QED
  BY <1>1, <1>6, <1>7

\* So no more can be asked about than before.
LEMMA WantedFewer ==
    ASSUME NEW c \in Calls, NEW row \in Rows, NEW sessions, parsed \in References, parsed' \in References,
           \A a \in Artifacts : parsed'[a] = parsed[a] \/ parsed'[a] = 0,
           Wanted(c, row, parsed', sessions)
    PROVE  Wanted(c, row, parsed, sessions)
<1>1. row.versions \in References
  BY DEF Rows
<1>2. Agrees(row.versions, parsed)
  BY <1>1 DEF Agrees, Files, Wanted, Eligible
<1>3. QED
  BY <1>2 DEF Wanted, Eligible

LEMMA QueueFewer ==
    ASSUME NEW table \in [Calls -> Rows], NEW queue, NEW running, NEW sessions,
           parsed \in References, parsed' \in References,
           \A a \in Artifacts : parsed'[a] = parsed[a] \/ parsed'[a] = 0,
           QueueHolds(table, queue, running, parsed, sessions)
    PROVE  QueueHolds(table, queue, running, parsed', sessions)
<1>1. ASSUME NEW c \in Calls \ Running(running), Wanted(c, table[c], parsed', sessions) PROVE c \in queue
  BY <1>1, WantedFewer DEF QueueHolds
<1>2. QED
  BY <1>1 DEF QueueHolds

\* The outcome of a call that is unknown leaves what was asked about it.
LEMMA UnresolvedKeeps ==
    ASSUME ActivityInv, NEW which \in SUBSET Remembered(calls)
    PROVE  /\ TablesHold(Unresolved(which), waiting, mapping, made)
           /\ Available => QueueHolds(Unresolved(which), waiting, mapping, parsed, live)
           /\ \A c \in Calls : /\ Unresolved(which)[c].object = calls[c].object
                               /\ Unresolved(which)[c] = calls[c] \/ Unresolved(which)[c].state = "unresolved"
<1> DEFINE table == Unresolved(which)
<1>1. /\ calls \in [Calls -> Rows] /\ mapping \in [Calls -> Mappings]
      /\ waiting \subseteq Remembered(calls) \ Running(mapping)
      /\ \A c \in Calls : /\ calls[c].object <= made /\ mapping[c].object <= made
                          /\ RowHolds(calls[c], mapping[c], c \in Running(mapping))
  BY DEF ActivityInv, TablesHold
<1>2. ASSUME NEW c \in Calls, c \in which
      PROVE  /\ table[c] \in Rows /\ table[c].object = calls[c].object /\ table[c].state = "unresolved"
             /\ table[c].attempted = calls[c].attempted /\ table[c].judged = calls[c].judged
             /\ table[c].versions = calls[c].versions /\ table[c].hints = calls[c].hints
             /\ ~ table[c].seen
  <2> DEFINE old == calls[c]
             row == Row(c, "unresolved", old.mapping, old.refs)
  <2>1. old \in Rows /\ old.object # 0
    BY <1>1, <1>2 DEF Remembered
  <2>2. /\ row \in Rows /\ row.object = old.object /\ row.state = "unresolved" /\ row.attempted = old.attempted
        /\ row.judged = old.judged /\ row.versions = old.versions /\ row.hints = old.hints /\ ~ row.seen
        /\ row.refs = old.refs
    <3>1. made \in Nat /\ old.mapping \in {"exact", "decision"} /\ old.refs \in References
      BY <2>1, InvGives DEF Rows
    <3>2. "unresolved" \in {"pending", "done", "unresolved"}
      OBVIOUS
    <3> HIDE DEF table
    <3>3. QED
      BY <2>1, <3>1, <3>2, RowIs
  <2>3. NoRefs \in References
    BY DEF NoRefs, References
  <2>4. PICK refs \in References : table[c] = [row EXCEPT !.refs = refs]
    <3>1. table[c] = [row EXCEPT !.refs = IF old.mapping = "decision" THEN @ ELSE NoRefs]
      BY <1>2 DEF Unresolved
    <3>2. old.refs \in References
      BY <2>1 DEF Rows
    <3>3. CASE old.mapping = "decision"
      BY <2>2, <3>1, <3>2, <3>3 DEF Rows
    <3>4. CASE old.mapping # "decision"
      BY <2>3, <3>1, <3>4
    <3>5. QED
      BY <3>3, <3>4
  <2> HIDE DEF row, table
  <2>5. QED
    BY <2>2, <2>4 DEF Rows
<1>3. \A c \in Calls : c \notin which => table[c] = calls[c]
  BY DEF Unresolved
<1>4. table = [c \in Calls |-> table[c]]
  BY DEF Unresolved
<1> HIDE DEF table
<1>5. table \in [Calls -> Rows] /\ \A c \in Calls : table[c].object = calls[c].object
  <2>1. \A c \in Calls : table[c] \in Rows /\ table[c].object = calls[c].object
    BY <1>1, <1>2, <1>3
  <2>2. QED
    BY <1>4, <2>1
<1>6. waiting \subseteq Remembered(table) \ Running(mapping)
  BY <1>1, <1>5 DEF Remembered
<1>7. ASSUME NEW c \in Calls PROVE RowHolds(table[c], mapping[c], c \in Running(mapping))
  <2>1. RowHolds(calls[c], mapping[c], c \in Running(mapping))
    BY <1>1
  <2>2. CASE c \in which
    <3>1. Question(table[c]) = Question(calls[c])
      BY <1>2, <2>2 DEF Question
    <3>2. QED
      BY <1>2, <2>1, <2>2, <3>1 DEF RowHolds
  <2>3. CASE c \notin which
    BY <1>3, <2>1, <2>3
  <2>4. QED
    BY <2>2, <2>3
<1>8. TablesHold(table, waiting, mapping, made)
  BY <1>1, <1>5, <1>6, <1>7 DEF TablesHold
<1>9. Available => QueueHolds(table, waiting, mapping, parsed, live)
  <2>1. ASSUME NEW c \in Calls, Wanted(c, table[c], parsed, live) PROVE table[c] = calls[c]
    BY <1>2, <1>3, <2>1 DEF Wanted
  <2>2. QED
    BY <2>1 DEF ActivityInv, QueueHolds
<1>10. QED
  BY <1>2, <1>3, <1>5, <1>8, <1>9 DEF table

\* A session that makes room takes its calls with it.
LEMMA SessionKeeps ==
    ASSUME ActivityInv, NEW s \in Sessions, NEW state \in Lives,
           state \notin {"ended", "returned"} => live[s] \notin {"ended", "returned"},
           NEW table, TablesHold(table, waiting, mapping, made),
           Available => QueueHolds(table, waiting, mapping, parsed, live),
           \A c \in Calls : table[c].object = calls[c].object,
           EnsureSession(s, state, table)
    PROVE  /\ live' \in [Sessions -> Lives]
           /\ TablesHold(calls', waiting', mapping', made) /\ BegunSince(mapping', Available, controls)
           /\ AskedOf(mapping', turn)
           /\ Available => QueueHolds(calls', waiting', mapping', parsed, live')
           /\ \A c \in Calls : calls'[c] = table[c] \/ calls'[c].mapping = "exact"
<1>1. PICK victim \in SUBSET {v \in Sessions \ {s} : live[v] # "absent"} :
         LET gone == {c \in Remembered(calls) : SessionOf[c] \in victim}
         IN  /\ live' = [v \in Sessions |-> IF v \in victim THEN "absent" ELSE IF v = s THEN state ELSE live[v]]
             /\ calls' = Forget(table, gone) /\ waiting' = waiting \ gone
             /\ mapping' = Aborted(mapping, gone)
  BY DEF EnsureSession
<1> DEFINE gone == {c \in Remembered(calls) : SessionOf[c] \in victim}
<1>2. /\ live' = [v \in Sessions |-> IF v \in victim THEN "absent" ELSE IF v = s THEN state ELSE live[v]]
      /\ calls' = Forget(table, gone) /\ waiting' = waiting \ gone /\ mapping' = Aborted(mapping, gone)
      /\ gone \in SUBSET Calls
  BY <1>1 DEF Remembered
<1>3. \A c \in Calls : c \notin gone => calls[c].object = 0 \/ SessionOf[c] \notin victim
  BY DEF Remembered
<1> HIDE DEF gone
<1>4. live' \in [Sessions -> Lives]
  <2>1. live \in [Sessions -> Lives]
    BY InvGives
  <2>2. QED
    BY <1>2, <2>1 DEF Lives
<1>5. TablesHold(calls', waiting', mapping', made)
  BY <1>2, ForgetKeeps, InvGives
<1>6. BegunSince(mapping', Available, controls) /\ AskedOf(mapping', turn)
  <2>1. Available \in BOOLEAN
    BY DEF Available
  <2>2. QED
    BY <1>2, <2>1, AbortKeeps, InvGives
<1>7. \A c \in Calls : calls'[c] = IF c \in gone THEN Forgotten ELSE table[c]
  BY <1>2 DEF Forget
<1>8. Running(mapping') = Running(mapping)
  BY <1>2, AbortedIs, InvGives
<1>9. ASSUME Available PROVE QueueHolds(calls', waiting', mapping', parsed, live')
  <2>1. ASSUME NEW c \in Calls \ Running(mapping'), Wanted(c, calls'[c], parsed, live') PROVE c \in waiting'
    <3>1. c \notin gone /\ calls'[c] = table[c]
      BY <1>7, <2>1, ForgottenIs DEF Wanted, Eligible
    <3>2. SessionOf[c] \in Sessions /\ SessionOf[c] \notin victim
      BY <1>3, <2>1, <3>1, ActivityAssumption DEF Wanted, Eligible
    <3>3. live'[SessionOf[c]] = IF SessionOf[c] = s THEN state ELSE live[SessionOf[c]]
      BY <1>2, <3>2
    <3>4. live[SessionOf[c]] \notin {"ended", "returned"}
      BY <2>1, <3>3 DEF Wanted
    <3>5. Wanted(c, table[c], parsed, live)
      BY <2>1, <3>1, <3>4 DEF Wanted, Eligible
    <3>6. QED
      BY <1>2, <1>8, <1>9, <2>1, <3>1, <3>5 DEF QueueHolds
  <2>2. waiting' # {} => Running(mapping') # {}
    BY <1>2, <1>8, <1>9 DEF QueueHolds
  <2>3. QED
    BY <2>1, <2>2 DEF QueueHolds
<1>10. QED
  BY <1>4, <1>5, <1>6, <1>7, <1>9, ForgottenIs

-----------------------------------------------------------------------------
(* The steps, one after the other. *)

LEMMA StoreStays ==
    ASSUME StoreTypeOK, UNCHANGED storeVars
    PROVE  StoreTypeOK'
BY DEF StoreTypeOK, storeVars

LEMMA ModesStay ==
    ASSUME ActivityInv, UNCHANGED modeVars
    PROVE  /\ Available' = Available /\ controls' = controls /\ epoch' = epoch
           /\ paused' \in BOOLEAN /\ available' \in BOOLEAN /\ closed' \in BOOLEAN
           /\ epoch' \in Nat /\ controls' \in Nat
BY InvGives DEF modeVars, Available

LEMMA SpendIs ==
    ASSUME ActivityInv, Spend
    PROVE  spent' \in Nat
<1>1. spent \in Nat
  BY InvGives
<1>2. QED
  BY <1>1 DEF Spend

\* A turn that applies nothing.
LEMMA TurnPasses ==
    ASSUME NEW running, NEW present, NEW next, AskedOf(running, present), next.op # "apply"
    PROVE  AskedOf(running, next)
BY DEF AskedOf

LEMMA ReachedIs ==
    ASSUME live \in [Sessions -> Lives], NEW s \in Sessions
    PROVE  /\ Reached(s) \in Lives
           /\ Reached(s) \notin {"ended", "returned"} => live[s] \notin {"ended", "returned"}
BY DEF Reached, Lives

LEMMA HearKeeps ==
    ASSUME ActivityInv, NEW c \in Calls, NEW kind \in {"requested", "done"}, Hear(c, kind)
    PROVE  ActivityInv' /\ \A d \in Calls : IsMapped(d)
<1>1. /\ EnsureSession(SessionOf[c], Reached(SessionOf[c]), calls)
      /\ heard' = heard \union {<<c, kind>>} /\ turn' = [op |-> "row", call |-> c, kind |-> kind]
      /\ UNCHANGED storeVars /\ parsed' = parsed /\ made' = made /\ UNCHANGED modeVars /\ spent' = spent
  BY DEF Hear
<1>2. SessionOf[c] \in Sessions
  BY ActivityAssumption
<1>3. Reached(SessionOf[c]) \in Lives
      /\ (Reached(SessionOf[c]) \notin {"ended", "returned"} => live[SessionOf[c]] \notin {"ended", "returned"})
  BY <1>2, InvGives, ReachedIs
<1>4. /\ live' \in [Sessions -> Lives]
      /\ TablesHold(calls', waiting', mapping', made) /\ BegunSince(mapping', Available, controls)
      /\ AskedOf(mapping', turn)
      /\ Available => QueueHolds(calls', waiting', mapping', parsed, live')
      /\ \A d \in Calls : calls'[d] = calls[d] \/ calls'[d].mapping = "exact"
  BY <1>1, <1>2, <1>3, InvGives, SessionKeeps
<1>5. turn' \in Turns /\ turn'.op # "apply"
  BY <1>1 DEF Turns
<1>6. AskedOf(mapping', turn')
  BY <1>4, <1>5, TurnPasses
<1>7. heard' \subseteq Calls \X {"requested", "done"}
  BY <1>1, InvGives
<1>8. ActivityInv'
  BY <1>1, <1>4, <1>5, <1>6, <1>7, InvGives, StoreStays, ModesStay, InvFollows
<1>9. QED
  BY <1>4, <1>8, NoneMapped

LEMMA NoteSessionKeeps ==
    ASSUME ActivityInv, NEW s \in Sessions, NEW ends \in {"nothing", "turn", "session"}, NoteSession(s, ends)
    PROVE  ActivityInv' /\ \A d \in Calls : IsMapped(d)
<1> DEFINE which == {c \in Pending : SessionOf[c] = s /\ ends # "nothing"}
           state == IF ends = "session" THEN "ended" ELSE Reached(s)
<1>1. /\ EnsureSession(s, state, Unresolved(which)) /\ Spend
      /\ UNCHANGED storeVars /\ parsed' = parsed /\ heard' = heard /\ made' = made /\ turn' = turn
      /\ UNCHANGED modeVars
  BY DEF NoteSession
<1>2. which \in SUBSET Remembered(calls)
  BY DEF Pending
<1>3. /\ TablesHold(Unresolved(which), waiting, mapping, made)
      /\ Available => QueueHolds(Unresolved(which), waiting, mapping, parsed, live)
      /\ \A c \in Calls : /\ Unresolved(which)[c].object = calls[c].object
                          /\ Unresolved(which)[c] = calls[c] \/ Unresolved(which)[c].state = "unresolved"
  BY <1>2, UnresolvedKeeps
<1>4. state \in Lives /\ (state \notin {"ended", "returned"} => live[s] \notin {"ended", "returned"})
  BY InvGives, ReachedIs DEF Lives
<1> DEFINE table == Unresolved(which)
<1> HIDE DEF state, which, table
<1>5. /\ EnsureSession(s, state, table)
      /\ TablesHold(table, waiting, mapping, made)
      /\ Available => QueueHolds(table, waiting, mapping, parsed, live)
      /\ \A c \in Calls : /\ table[c].object = calls[c].object
                          /\ table[c] = calls[c] \/ table[c].state = "unresolved"
  BY <1>1, <1>3 DEF table
<1>6. /\ live' \in [Sessions -> Lives]
      /\ TablesHold(calls', waiting', mapping', made) /\ BegunSince(mapping', Available, controls)
      /\ AskedOf(mapping', turn)
      /\ Available => QueueHolds(calls', waiting', mapping', parsed, live')
      /\ \A d \in Calls : calls'[d] = table[d] \/ calls'[d].mapping = "exact"
  BY <1>4, <1>5, SessionKeeps
<1>7. ActivityInv'
  BY <1>1, <1>6, InvGives, StoreStays, ModesStay, SpendIs, InvFollows
<1>8. \A d \in Calls : IsMapped(d)
  BY <1>5, <1>6, NoneMapped
<1>9. QED
  BY <1>7, <1>8

LEMMA ReconcileKeeps ==
    ASSUME ActivityInv, Reconcile
    PROVE  ActivityInv' /\ \A d \in Calls : IsMapped(d)
<1> DEFINE which == {c \in Pending : calls[c].old}
<1>1. /\ calls' = Unresolved(which) /\ turn' = [op |-> "sweep"]
      /\ UNCHANGED storeVars /\ parsed' = parsed /\ live' = live /\ heard' = heard /\ made' = made
      /\ waiting' = waiting /\ mapping' = mapping /\ UNCHANGED modeVars /\ spent' = spent
  BY DEF Reconcile
<1>2. which \in SUBSET Remembered(calls)
  BY DEF Pending
<1>3. /\ TablesHold(calls', waiting, mapping, made)
      /\ Available => QueueHolds(calls', waiting, mapping, parsed, live)
      /\ \A c \in Calls : calls'[c] = calls[c] \/ calls'[c].state = "unresolved"
  BY <1>1, <1>2, UnresolvedKeeps
<1>4. turn' \in Turns /\ turn'.op # "apply"
  BY <1>1 DEF Turns
<1>5. AskedOf(mapping, turn')
  BY <1>4, InvGives, TurnPasses
<1>6. ActivityInv'
  BY <1>1, <1>3, <1>4, <1>5, InvGives, StoreStays, ModesStay, InvFollows
<1>7. QED
  BY <1>3, <1>6, NoneMapped

\* Steps that leave the calls and their questions alone.
LEMMA NothingAsked ==
    ASSUME ActivityInv, UNCHANGED <<live, heard, callVars, modeVars>>,
           StoreTypeOK', parsed' \in References, \A a \in Artifacts : parsed'[a] = parsed[a] \/ parsed'[a] = 0,
           turn' \in Turns, AskedOf(mapping, turn'), spent' \in Nat
    PROVE  ActivityInv' /\ \A d \in Calls : IsMapped(d)
<1>1. /\ live' = live /\ heard' = heard /\ calls' = calls /\ made' = made /\ waiting' = waiting
      /\ mapping' = mapping /\ UNCHANGED modeVars
  BY DEF callVars
<1>2. Available => QueueHolds(calls, waiting, mapping, parsed', live)
  BY InvGives, QueueFewer
<1>3. ActivityInv'
  BY <1>1, <1>2, InvGives, ModesStay, InvFollows
<1>4. QED
  BY <1>1, <1>3, NoneMapped

LEMMA LateRequestKeeps ==
    ASSUME ActivityInv, LateRequest
    PROVE  ActivityInv' /\ \A d \in Calls : IsMapped(d)
<1>1. /\ turn.op = "row" /\ turn' = [turn EXCEPT !.op = "capture", !.kind = "late"]
      /\ UNCHANGED <<storeVars, parsed, live, heard, callVars, modeVars, spent>>
  BY DEF LateRequest
<1>2. turn' \in Turns /\ turn'.op # "apply"
  BY <1>1, TurnIs, InvGives
<1>3. QED
  BY <1>1, <1>2, InvGives, TurnPasses, StoreStays, NothingAsked

LEMMA CaptureFailsKeeps ==
    ASSUME ActivityInv, CaptureFails
    PROVE  ActivityInv' /\ \A d \in Calls : IsMapped(d)
<1>1. /\ Spend /\ turn' = Idle /\ UNCHANGED <<storeVars, parsed, live, heard, callVars, modeVars>>
  BY DEF CaptureFails
<1>2. turn' \in Turns /\ turn'.op # "apply"
  BY <1>1, TurnIs, InvGives
<1>3. QED
  BY <1>1, <1>2, InvGives, TurnPasses, StoreStays, SpendIs, NothingAsked

LEMMA SweepKeeps ==
    ASSUME ActivityInv, Sweep
    PROVE  ActivityInv' /\ \A d \in Calls : IsMapped(d)
<1>1. RegisterArtifacts(Tracked) /\ turn' = Idle /\ UNCHANGED <<live, heard, callVars, modeVars, spent>>
  BY DEF Sweep
<1>2. turn' \in Turns /\ turn'.op # "apply"
  BY <1>1, TurnIs, InvGives
<1>3. StoreTypeOK' /\ parsed' \in References /\ \A a \in Artifacts : parsed'[a] = parsed[a] \/ parsed'[a] = 0
  BY <1>1, InvGives, RegisterKeeps
<1>4. QED
  BY <1>1, <1>2, <1>3, InvGives, TurnPasses, NothingAsked

LEMMA EditKeeps ==
    ASSUME ActivityInv, NEW a \in Artifacts, Edit(a)
    PROVE  ActivityInv' /\ \A d \in Calls : IsMapped(d)
<1>1. EditFile(a) /\ Spend /\ UNCHANGED <<parsed, live, heard, callVars, turn, modeVars>>
  BY DEF Edit
<1>2. StoreTypeOK'
  BY <1>1, InvGives, StoreAssumption DEF EditFile, StoreTypeOK
<1>3. QED
  BY <1>1, <1>2, InvGives, SpendIs, NothingAsked

\* Rows that tell the same of their questions.
LEMMA RowsStay ==
    ASSUME NEW table, NEW queue, NEW running, NEW last, TablesHold(table, queue, running, last),
           NEW after \in [Calls -> Rows],
           \A c \in Calls : /\ after[c].object = table[c].object /\ after[c].attempted = table[c].attempted
                            /\ after[c].judged = table[c].judged /\ Question(after[c]) = Question(table[c])
    PROVE  TablesHold(after, queue, running, last)
BY DEF TablesHold, RowHolds, Remembered

\* Questions that have gone on.
LEMMA StagesStay ==
    ASSUME NEW table, NEW queue, NEW running, NEW last, TablesHold(table, queue, running, last),
           NEW up, NEW now, BegunSince(running, up, now),
           NEW after \in [Calls -> Mappings],
           \A c \in Calls : /\ after[c].stage = "none" <=> running[c].stage = "none"
                            /\ after[c].object = running[c].object /\ after[c].aborted = running[c].aborted
                            /\ after[c].began = running[c].began /\ Question(after[c]) = Question(running[c])
    PROVE  /\ TablesHold(table, queue, after, last) /\ BegunSince(after, up, now)
           /\ Running(after) = Running(running)
<1>1. Running(after) = Running(running)
  BY DEF Running
<1>2. BegunSince(after, up, now)
  <2>1. \A c \in Running(after) : c \in Calls
    BY DEF Running
  <2>2. QED
    BY <1>1, <2>1 DEF BegunSince
<1>3. ASSUME NEW c \in Calls PROVE RowHolds(table[c], after[c], c \in Running(after))
  <2>1. RowHolds(table[c], running[c], c \in Running(running))
    BY DEF TablesHold
  <2>2. QED
    BY <1>1, <2>1 DEF RowHolds
<1>4. TablesHold(table, queue, after, last)
  BY <1>1, <1>3 DEF TablesHold
<1>5. QED
  BY <1>1, <1>2, <1>4

LEMMA AbortTables ==
    ASSUME NEW table, NEW queue, NEW running, NEW last, TablesHold(table, queue, running, last),
           NEW which, NEW fewer \in SUBSET queue
    PROVE  TablesHold(table, fewer, Aborted(running, which), last)
<1> DEFINE after == Aborted(running, which)
<1>1. running \in [Calls -> Mappings]
  BY DEF TablesHold
<1>2. /\ after \in [Calls -> Mappings] /\ Running(after) = Running(running)
      /\ \A c \in Calls : after[c].object = running[c].object /\ (~ after[c].aborted => after[c] = running[c])
  BY <1>1, AbortedIs
<1> HIDE DEF after
<1>3. ASSUME NEW c \in Calls PROVE RowHolds(table[c], after[c], c \in Running(after))
  <2>1. RowHolds(table[c], running[c], c \in Running(running))
    BY DEF TablesHold
  <2>2. QED
    BY <1>2, <2>1 DEF RowHolds
<1>4. TablesHold(table, fewer, after, last)
  BY <1>2, <1>3 DEF TablesHold
<1>5. QED
  BY <1>4 DEF after

\* Once all are aborted, none may be answered.
LEMMA AbortAll ==
    ASSUME NEW running \in [Calls -> Mappings], NEW up, NEW now
    PROVE  BegunSince(Aborted(running, Calls), up, now)
<1> SUFFICES ASSUME NEW c \in Running(Aborted(running, Calls)), ~ Aborted(running, Calls)[c].aborted
             PROVE  FALSE
  BY DEF BegunSince
<1>1. c \in Calls /\ c \in Running(running)
  BY AbortedIs DEF Running
<1>2. QED
  BY <1>1, AbortedIs

LEMMA LeasePassesKeeps ==
    ASSUME ActivityInv, NEW c \in Calls, LeasePasses(c)
    PROVE  ActivityInv' /\ \A d \in Calls : IsMapped(d)
<1>1. /\ Spend /\ calls' = [calls EXCEPT ![c].old = TRUE]
      /\ UNCHANGED storeVars /\ parsed' = parsed /\ live' = live /\ heard' = heard /\ made' = made
      /\ waiting' = waiting /\ mapping' = mapping /\ turn' = turn /\ UNCHANGED modeVars
  BY DEF LeasePasses
<1>2. \A d \in Calls : calls[d] \in Rows
  BY InvGives
<1> DEFINE row == [calls[c] EXCEPT !.old = TRUE]
<1>3. /\ row \in Rows /\ row.object = calls[c].object /\ row.attempted = calls[c].attempted
      /\ row.judged = calls[c].judged /\ row.versions = calls[c].versions /\ row.hints = calls[c].hints
      /\ row.mapping = calls[c].mapping /\ row.state = calls[c].state /\ row.old
  BY <1>2 DEF Rows
<1>4. calls' = [calls EXCEPT ![c] = row]
  BY <1>1
<1> HIDE DEF row
<1>5. calls' \in [Calls -> Rows] /\ calls'[c] = row /\ \A d \in Calls \ {c} : calls'[d] = calls[d]
  BY <1>3, <1>4, InvGives
<1>6. \A d \in Calls : /\ calls'[d].object = calls[d].object /\ calls'[d].attempted = calls[d].attempted
                       /\ calls'[d].judged = calls[d].judged /\ Question(calls'[d]) = Question(calls[d])
                       /\ calls'[d].mapping = calls[d].mapping /\ calls'[d].state = calls[d].state
  BY <1>3, <1>5 DEF Question
<1>7. TablesHold(calls', waiting, mapping, made)
  BY <1>5, <1>6, InvGives, RowsStay
<1>8. Available => QueueHolds(calls', waiting, mapping, parsed, live)
  <2>1. ~ Wanted(c, calls'[c], parsed, live)
    BY <1>3, <1>5 DEF Wanted, Eligible
  <2>2. QED
    BY <1>5, <2>1, InvGives DEF QueueHolds
<1>9. ActivityInv'
  BY <1>1, <1>7, <1>8, InvGives, StoreStays, ModesStay, SpendIs, InvFollows
<1>10. QED
  BY <1>6, <1>9, NoneMapped

\* A step of a question that leaves the rows alone.
LEMMA QuestionGoesOn ==
    ASSUME ActivityInv, UNCHANGED <<storeVars, parsed, live, heard, calls, made, waiting, modeVars>>,
           mapping' \in [Calls -> Mappings],
           \A c \in Calls : /\ mapping'[c].stage = "none" <=> mapping[c].stage = "none"
                            /\ mapping'[c].object = mapping[c].object /\ mapping'[c].aborted = mapping[c].aborted
                            /\ mapping'[c].began = mapping[c].began /\ Question(mapping'[c]) = Question(mapping[c]),
           AskedOf(mapping', turn'), turn' \in Turns, spent' \in Nat
    PROVE  ActivityInv' /\ \A d \in Calls : IsMapped(d)
<1>1. /\ TablesHold(calls, waiting, mapping', made) /\ BegunSince(mapping', Available, controls)
      /\ Running(mapping') = Running(mapping)
  BY InvGives, StagesStay
<1>2. Available => QueueHolds(calls, waiting, mapping', parsed, live)
  BY <1>1, InvGives DEF QueueHolds
<1>3. /\ UNCHANGED storeVars /\ parsed' = parsed /\ live' = live /\ heard' = heard /\ calls' = calls
      /\ made' = made /\ waiting' = waiting /\ UNCHANGED modeVars
  OBVIOUS
<1>4. ActivityInv'
  BY <1>1, <1>2, <1>3, InvGives, StoreStays, ModesStay, InvFollows
<1>5. QED
  BY <1>3, <1>4, NoneMapped

LEMMA ReachesIs ==
    ASSUME ActivityInv, NEW c \in Calls, mapping[c].stage # "none",
           NEW stage \in {"asked", "answered", "finished"}, Reaches(c, stage)
    PROVE  /\ mapping' \in [Calls -> Mappings] /\ mapping'[c].stage = stage
           /\ mapping'[c].context = mapping[c].context /\ mapping'[c].versions = mapping[c].versions
           /\ \A d \in Calls \ {c} : mapping'[d] = mapping[d]
           /\ \A d \in Calls :
                /\ mapping'[d].stage = "none" <=> mapping[d].stage = "none"
                /\ mapping'[d].object = mapping[d].object /\ mapping'[d].aborted = mapping[d].aborted
                /\ mapping'[d].began = mapping[d].began /\ Question(mapping'[d]) = Question(mapping[d])
<1> DEFINE of == [mapping[c] EXCEPT !.stage = stage]
<1>1. mapping[c] \in Mappings /\ mapping \in [Calls -> Mappings]
  BY InvGives
<1>2. /\ of \in Mappings /\ of.stage = stage /\ of.context = mapping[c].context
      /\ of.versions = mapping[c].versions /\ of.object = mapping[c].object /\ of.hints = mapping[c].hints
      /\ of.aborted = mapping[c].aborted /\ of.began = mapping[c].began
  BY <1>1 DEF Mappings
<1>3. mapping' = [mapping EXCEPT ![c] = of]
  BY DEF Reaches
<1> HIDE DEF of
<1>4. mapping' \in [Calls -> Mappings] /\ mapping'[c] = of /\ \A d \in Calls \ {c} : mapping'[d] = mapping[d]
  BY <1>1, <1>2, <1>3
<1>5. QED
  BY <1>2, <1>4 DEF Question

\* A question that ends, or is answered, is applied by no turn.
LEMMA AskedStays ==
    ASSUME NEW c \in Calls, NEW running, NEW after, NEW present \in Turns, AskedOf(running, present),
           \A d \in Calls \ {c} : after[d] = running[d],
           after[c].stage \in {"asked", "answered"} => after[c].context # NoRefs,
           present.op = "apply" => present.call # c
    PROVE  AskedOf(after, present)
<1>1. present.op = "apply" => present.call \in Calls
  BY DEF Turns, Idle
<1>2. QED
  BY <1>1 DEF AskedOf

LEMMA AskTargetsKeeps ==
    ASSUME ActivityInv, NEW c \in Calls, AskTargets(c)
    PROVE  ActivityInv' /\ \A d \in Calls : IsMapped(d)
<1> DEFINE context == Context(mapping[c].versions, parsed)
<1>1. /\ mapping[c].stage = "starting" /\ turn = Idle
      /\ \/ context # NoRefs /\ mapping' = [mapping EXCEPT ![c].stage = "asked", ![c].context = context]
         \/ Reaches(c, "finished")
      /\ UNCHANGED <<storeVars, parsed, live, heard, calls, made, waiting, modeVars>>
      /\ turn' = turn /\ spent' = spent
  BY DEF AskTargets
<1>2. turn' \in Turns /\ turn.op # "apply" /\ spent' \in Nat
  BY <1>1, InvGives DEF Idle
<1>3. CASE context # NoRefs /\ mapping' = [mapping EXCEPT ![c].stage = "asked", ![c].context = context]
  <2> DEFINE of == [mapping[c] EXCEPT !.stage = "asked", !.context = context]
  <2>1. mapping[c] \in Mappings /\ mapping \in [Calls -> Mappings] /\ parsed \in References
    BY InvGives
  <2>2. context \in References
    BY <2>1 DEF Context, References
  <2>3. mapping' = [mapping EXCEPT ![c] = of]
    BY <1>3
  <2> HIDE DEF context
  <2>4. /\ of \in Mappings /\ of.stage = "asked" /\ of.context = context
        /\ of.versions = mapping[c].versions /\ of.object = mapping[c].object /\ of.hints = mapping[c].hints
        /\ of.aborted = mapping[c].aborted /\ of.began = mapping[c].began
    BY <2>1, <2>2 DEF Mappings
  <2> HIDE DEF of
  <2>5. mapping' \in [Calls -> Mappings] /\ mapping'[c] = of /\ \A d \in Calls \ {c} : mapping'[d] = mapping[d]
    BY <2>1, <2>3, <2>4
  <2>6. \A d \in Calls :
            /\ mapping'[d].stage = "none" <=> mapping[d].stage = "none"
            /\ mapping'[d].object = mapping[d].object /\ mapping'[d].aborted = mapping[d].aborted
            /\ mapping'[d].began = mapping[d].began /\ Question(mapping'[d]) = Question(mapping[d])
    BY <1>1, <2>4, <2>5 DEF Question
  <2>7. AskedOf(mapping', turn')
    <3>1. mapping'[c].context # NoRefs
      BY <1>3, <2>4, <2>5
    <3>2. AskedOf(mapping, turn) /\ turn \in Turns /\ turn' = turn
      BY <1>1, InvGives
    <3>3. AskedOf(mapping', turn)
      BY <1>2, <2>5, <3>1, <3>2, AskedStays
    <3>4. QED
      BY <3>2, <3>3
  <2>8. QED
    BY <1>1, <1>2, <2>5, <2>6, <2>7, QuestionGoesOn
<1>4. CASE Reaches(c, "finished")
  <2>1. /\ mapping' \in [Calls -> Mappings] /\ mapping'[c].stage = "finished"
        /\ \A d \in Calls \ {c} : mapping'[d] = mapping[d]
        /\ \A d \in Calls :
                /\ mapping'[d].stage = "none" <=> mapping[d].stage = "none"
                /\ mapping'[d].object = mapping[d].object /\ mapping'[d].aborted = mapping[d].aborted
                /\ mapping'[d].began = mapping[d].began /\ Question(mapping'[d]) = Question(mapping[d])
    BY <1>1, <1>4, ReachesIs
  <2>2. AskedOf(mapping', turn')
    BY <1>1, <1>2, <2>1, InvGives, AskedStays
  <2>3. QED
    BY <1>1, <1>2, <2>1, <2>2, QuestionGoesOn
<1>5. QED
  BY <1>1, <1>3, <1>4

\* A question that was asked, and its answer or the end of it.
LEMMA AskedGoesOn ==
    ASSUME ActivityInv, NEW c \in Calls, mapping[c].stage = "asked",
           NEW stage \in {"answered", "finished"}, Reaches(c, stage),
           UNCHANGED <<storeVars, parsed, live, heard, calls, made, waiting, turn, modeVars, spent>>
    PROVE  ActivityInv' /\ \A d \in Calls : IsMapped(d)
<1>1. /\ mapping' \in [Calls -> Mappings] /\ mapping'[c].stage = stage
      /\ mapping'[c].context = mapping[c].context
      /\ \A d \in Calls \ {c} : mapping'[d] = mapping[d]
      /\ \A d \in Calls :
              /\ mapping'[d].stage = "none" <=> mapping[d].stage = "none"
              /\ mapping'[d].object = mapping[d].object /\ mapping'[d].aborted = mapping[d].aborted
              /\ mapping'[d].began = mapping[d].began /\ Question(mapping'[d]) = Question(mapping[d])
  BY ReachesIs
<1>2. turn' = turn /\ turn' \in Turns /\ spent' \in Nat
  BY InvGives
<1>3. turn.op = "apply" => turn.call # c
  BY InvGives DEF AskedOf
<1>4. mapping[c].context # NoRefs
  BY InvGives DEF AskedOf
<1>5. AskedOf(mapping', turn)
  BY <1>1, <1>3, <1>4, InvGives, AskedStays
<1>6. QED
  BY <1>1, <1>2, <1>5, QuestionGoesOn

LEMMA AnswerTargetsKeeps ==
    ASSUME ActivityInv, NEW c \in Calls, AnswerTargets(c) \/ NoTargets(c)
    PROVE  ActivityInv' /\ \A d \in Calls : IsMapped(d)
<1>1. /\ mapping[c].stage = "asked" /\ (Reaches(c, "answered") \/ Reaches(c, "finished"))
      /\ UNCHANGED <<storeVars, parsed, live, heard, calls, made, waiting, turn, modeVars, spent>>
  <2>1. CASE AnswerTargets(c)
    BY <2>1 DEF AnswerTargets
  <2>2. CASE NoTargets(c)
    BY <2>2 DEF NoTargets
  <2>3. QED
    BY <2>1, <2>2
<1>2. CASE Reaches(c, "answered")
  BY <1>1, <1>2, AskedGoesOn
<1>3. CASE Reaches(c, "finished")
  BY <1>1, <1>3, AskedGoesOn
<1>4. QED
  BY <1>1, <1>2, <1>3

LEMMA BeginApplyKeeps ==
    ASSUME ActivityInv, NEW c \in Calls, BeginApplyTargets(c)
    PROVE  ActivityInv' /\ \A d \in Calls : IsMapped(d)
<1>1. /\ mapping[c].stage = "answered" /\ turn = Idle
      /\ \/ /\ Agrees(mapping[c].context, mapping[c].versions)
            /\ turn' = [op |-> "apply", call |-> c] /\ mapping' = mapping
         \/ Reaches(c, "finished") /\ turn' = turn
      /\ UNCHANGED <<storeVars, parsed, live, heard, calls, made, waiting, modeVars>> /\ spent' = spent
  BY DEF BeginApplyTargets
<1>2. spent' \in Nat /\ turn.op # "apply" /\ turn \in Turns
  BY <1>1, InvGives DEF Idle
<1>3. CASE /\ Agrees(mapping[c].context, mapping[c].versions)
           /\ turn' = [op |-> "apply", call |-> c] /\ mapping' = mapping
  <2>1. turn' \in Turns
    BY <1>3 DEF Turns
  <2>2. AskedOf(mapping, turn')
    BY <1>1, <1>3, InvGives DEF AskedOf
  <2>3. QED
    BY <1>1, <1>2, <1>3, <2>1, <2>2, InvGives, QuestionGoesOn
<1>4. CASE Reaches(c, "finished") /\ turn' = turn
  <2>1. /\ mapping' \in [Calls -> Mappings] /\ mapping'[c].stage = "finished"
        /\ \A d \in Calls \ {c} : mapping'[d] = mapping[d]
        /\ \A d \in Calls :
                /\ mapping'[d].stage = "none" <=> mapping[d].stage = "none"
                /\ mapping'[d].object = mapping[d].object /\ mapping'[d].aborted = mapping[d].aborted
                /\ mapping'[d].began = mapping[d].began /\ Question(mapping'[d]) = Question(mapping[d])
    BY <1>1, <1>4, ReachesIs
  <2>2. AskedOf(mapping', turn)
    BY <1>2, <2>1, InvGives, AskedStays
  <2>3. QED
    BY <1>1, <1>2, <1>4, <2>1, <2>2, QuestionGoesOn
<1>5. QED
  BY <1>1, <1>3, <1>4

\* The end of a turn that applies an answer.
LEMMA ApplyEnds ==
    ASSUME ActivityInv, turn.op = "apply", Reaches(turn.call, "finished"), turn' = Idle
    PROVE  /\ turn.call \in Calls /\ turn' \in Turns /\ AskedOf(mapping', turn')
           /\ mapping' \in [Calls -> Mappings] /\ mapping'[turn.call].context = mapping[turn.call].context
           /\ \A d \in Calls :
                /\ mapping'[d].stage = "none" <=> mapping[d].stage = "none"
                /\ mapping'[d].object = mapping[d].object /\ mapping'[d].aborted = mapping[d].aborted
                /\ mapping'[d].began = mapping[d].began /\ Question(mapping'[d]) = Question(mapping[d])
<1>1. turn.call \in Calls
  BY TurnIs, InvGives
<1>2. mapping[turn.call].stage = "answered"
  BY InvGives DEF AskedOf
<1>3. /\ mapping' \in [Calls -> Mappings] /\ mapping'[turn.call].stage = "finished"
      /\ mapping'[turn.call].context = mapping[turn.call].context
      /\ \A d \in Calls \ {turn.call} : mapping'[d] = mapping[d]
      /\ \A d \in Calls :
              /\ mapping'[d].stage = "none" <=> mapping[d].stage = "none"
              /\ mapping'[d].object = mapping[d].object /\ mapping'[d].aborted = mapping[d].aborted
              /\ mapping'[d].began = mapping[d].began /\ Question(mapping'[d]) = Question(mapping[d])
  BY <1>1, <1>2, ReachesIs
<1>4. turn' \in Turns /\ turn'.op # "apply"
  BY TurnIs, InvGives
<1>5. AskedOf(mapping, turn')
  BY <1>4, InvGives, TurnPasses
<1>6. AskedOf(mapping', turn')
  BY <1>1, <1>3, <1>4, <1>5, AskedStays
<1>7. QED
  BY <1>1, <1>3, <1>4, <1>6

LEMMA ApplyFailsKeeps ==
    ASSUME ActivityInv, ApplyTargetsFails
    PROVE  ActivityInv' /\ \A d \in Calls : IsMapped(d)
<1>1. /\ Spend /\ turn.op = "apply" /\ Reaches(turn.call, "finished") /\ turn' = Idle
      /\ UNCHANGED <<storeVars, parsed, live, heard, calls, made, waiting, modeVars>>
  BY DEF ApplyTargetsFails
<1>2. QED
  BY <1>1, ApplyEnds, SpendIs, QuestionGoesOn

LEMMA ApplyTargetsKeeps ==
    ASSUME ActivityInv, ApplyTargets
    PROVE  ActivityInv' /\ \A d \in Calls : IsMapped(d)
<1> DEFINE c == turn.call
<1>1. /\ turn.op = "apply" /\ RegisterArtifacts(Files(mapping[c].versions))
      /\ \/ /\ Current(c) /\ SameContext(c)
            /\ calls' = [calls EXCEPT ![c].mapping = "decision", ![c].refs = mapping[c].versions]
         \/ calls' = calls
      /\ Reaches(c, "finished") /\ turn' = Idle
      /\ live' = live /\ heard' = heard /\ made' = made /\ waiting' = waiting /\ UNCHANGED modeVars
      /\ spent' = spent
  BY DEF ApplyTargets
<1>2. /\ c \in Calls /\ turn' \in Turns /\ AskedOf(mapping', turn')
      /\ mapping' \in [Calls -> Mappings] /\ mapping'[c].context = mapping[c].context
      /\ \A d \in Calls :
              /\ mapping'[d].stage = "none" <=> mapping[d].stage = "none"
              /\ mapping'[d].object = mapping[d].object /\ mapping'[d].aborted = mapping[d].aborted
              /\ mapping'[d].began = mapping[d].began /\ Question(mapping'[d]) = Question(mapping[d])
  BY <1>1, ApplyEnds
<1>3. /\ StoreTypeOK' /\ parsed' \in References /\ lineageId' = lineageId
      /\ \A a \in Artifacts : parsed'[a] = parsed[a] \/ parsed'[a] = 0
  BY <1>1, InvGives, RegisterKeeps
<1> DEFINE row == [calls[c] EXCEPT !.mapping = "decision", !.refs = mapping[c].versions]
<1>4. calls[c] \in Rows /\ mapping[c].versions \in References
  BY <1>2, InvGives DEF Mappings
<1>5. /\ row \in Rows /\ row.object = calls[c].object /\ row.attempted = calls[c].attempted
      /\ row.judged = calls[c].judged /\ row.versions = calls[c].versions /\ row.hints = calls[c].hints
      /\ row.state = calls[c].state /\ row.refs = mapping[c].versions /\ row.mapping = "decision"
      /\ row.seen = calls[c].seen
  BY <1>4 DEF Rows
<1>6. \/ /\ Current(c) /\ SameContext(c) /\ calls' = [calls EXCEPT ![c] = row]
      \/ calls' = calls
  BY <1>1
<1> HIDE DEF row
<1>7. /\ calls' \in [Calls -> Rows] /\ \A d \in Calls \ {c} : calls'[d] = calls[d]
      /\ calls'[c] = calls[c] \/ (calls'[c] = row /\ Current(c) /\ SameContext(c))
  BY <1>2, <1>5, <1>6, InvGives
<1>8. \A d \in Calls : /\ calls'[d].object = calls[d].object /\ calls'[d].attempted = calls[d].attempted
                       /\ calls'[d].judged = calls[d].judged /\ Question(calls'[d]) = Question(calls[d])
  BY <1>5, <1>7 DEF Question
<1>9. TablesHold(calls', waiting, mapping, made)
  BY <1>7, <1>8, InvGives, RowsStay
<1>10. /\ TablesHold(calls', waiting, mapping', made) /\ BegunSince(mapping', Available, controls)
       /\ Running(mapping') = Running(mapping)
  BY <1>2, <1>9, InvGives, StagesStay
<1>11. Available => QueueHolds(calls', waiting, mapping', parsed', live)
  <2>1. \A d \in Calls : Wanted(d, calls'[d], parsed, live) => Wanted(d, calls[d], parsed, live)
    BY <1>5, <1>7 DEF Wanted, Eligible
  <2>2. Available => QueueHolds(calls', waiting, mapping', parsed, live)
    BY <1>10, <2>1, InvGives DEF QueueHolds
  <2>3. QED
    BY <1>3, <1>7, <2>2, InvGives, QueueFewer
<1>12. ActivityInv'
  BY <1>1, <1>2, <1>3, <1>10, <1>11, InvGives, ModesStay, InvFollows
<1>13. ASSUME NEW d \in Calls PROVE IsMapped(d)
  <2>1. CASE calls'[d] = calls[d]
    BY <2>1 DEF IsMapped
  <2>2. CASE d = c /\ calls'[c] = row /\ Current(c) /\ SameContext(c)
    <3>1. ~ mapping[d].aborted /\ mapping[d].stage = "answered" /\ mapping[d].context # NoRefs
          /\ Agrees(mapping[d].context, mapping[d].versions)
      BY <1>1, <1>2, <2>2, InvGives DEF Current, AskedOf
    <3>2. mapping[d].began = controls
      BY <1>2, <3>1, InvGives DEF BegunSince, Running
    <3>3. StillCurrent(mapping[d].context)
      BY <2>2 DEF SameContext
    <3>4. IsCurrent(mapping[d].context)'
      <4>1. mapping'[d].context = mapping[d].context
        BY <1>2, <2>2
      <4>2. QED
        BY <1>3, <3>3, <4>1 DEF StillCurrent, IsCurrent
    <3>5. calls'[d].refs = mapping[d].versions /\ calls'[d].mapping = "decision"
          /\ calls'[d].state = calls[d].state
      BY <1>5, <2>2
    <3>6. calls[d].mapping \in {"exact", "decision"}
      BY InvGives DEF Rows
    <3>7. QED
      BY <3>1, <3>2, <3>4, <3>5, <3>6 DEF IsMapped
  <2>3. QED
    BY <1>7, <2>1, <2>2
<1>14. QED
  BY <1>12, <1>13

LEMMA AbortedTwice ==
    ASSUME NEW running \in [Calls -> Mappings], NEW one, NEW two
    PROVE  Aborted(Aborted(running, one), two) = Aborted(running, two \union one)
<1> DEFINE after == Aborted(running, one)
<1>1. \A c \in Calls : after[c] = IF c \in one /\ running[c].stage # "none"
                                  THEN [running[c] EXCEPT !.aborted = TRUE] ELSE running[c]
  BY DEF Aborted
<1>2. \A c \in Calls : after[c].stage = running[c].stage
  BY AbortedIs
<1>3. \A c \in Calls : running[c] \in Mappings
  OBVIOUS
<1> HIDE DEF after
<1>4. ASSUME NEW c \in Calls
      PROVE  (IF c \in two /\ after[c].stage # "none" THEN [after[c] EXCEPT !.aborted = TRUE] ELSE after[c])
             = (IF c \in two \union one /\ running[c].stage # "none"
                THEN [running[c] EXCEPT !.aborted = TRUE] ELSE running[c])
  <2> DEFINE of == [running[c] EXCEPT !.aborted = TRUE]
  <2>1. [of EXCEPT !.aborted = TRUE] = of
    BY <1>3 DEF Mappings
  <2>2. CASE running[c].stage = "none"
    BY <1>1, <1>2, <2>2
  <2>3. CASE running[c].stage # "none" /\ c \in one
    <3>1. after[c] = of /\ after[c].stage # "none"
      BY <1>1, <1>2, <2>3
    <3>2. [after[c] EXCEPT !.aborted = TRUE] = of
      BY <2>1, <3>1
    <3> HIDE DEF of
    <3>3. (IF c \in two /\ after[c].stage # "none" THEN [after[c] EXCEPT !.aborted = TRUE] ELSE after[c]) = of
      BY <3>1, <3>2
    <3>4. QED
      BY <2>3, <3>3 DEF of
  <2>4. CASE running[c].stage # "none" /\ c \notin one
    <3>1. after[c] = running[c]
      BY <1>1, <2>4
    <3>2. QED
      BY <2>4, <3>1
  <2>5. QED
    BY <2>2, <2>3, <2>4
<1>5. QED
  BY <1>4 DEF Aborted, after

LEMMA AddActivityKeeps ==
    ASSUME ActivityInv, NEW hinted \in BOOLEAN, AddActivity(hinted)
    PROVE  ActivityInv' /\ \A d \in Calls : IsMapped(d)
<1>1. PICK c \in Calls : c = turn.call
  BY InvGives, TurnIs DEF AddActivity
<1> DEFINE old == calls[c]
           kept == Retainable(c, turn.kind)
           holds == kept /\ Retained(old.refs)
           state == IF turn.kind = "done" THEN "done" ELSE "pending"
           exact == IF holds THEN "decision" ELSE "exact"
           refs == IF holds THEN old.refs ELSE NoRefs
           plain == Row(c, state, exact, refs)
           row == IF hinted THEN Hinted(plain) ELSE plain
           table == [calls EXCEPT ![c] = row]
           gone == Beyond(table)
           anew == IF row.hints # old.hints THEN {c} ELSE {}
<1>2. /\ turn.op = "row" /\ (Spend \/ spent' = spent)
      /\ RegisterArtifacts(IF kept THEN Files(old.refs) ELSE {})
      /\ made' = (IF old.object = 0 THEN made + 1 ELSE made)
      /\ calls' = Forget(table, gone) /\ waiting' = waiting \ gone
      /\ mapping' = Aborted(mapping, gone \union anew)
      /\ turn' = [turn EXCEPT !.op = "capture"]
      /\ live' = live /\ heard' = heard /\ UNCHANGED modeVars
  BY <1>1 DEF AddActivity
<1>3. calls \in [Calls -> Rows] /\ mapping \in [Calls -> Mappings] /\ old \in Rows /\ made \in Nat
  BY InvGives
<1>4. state \in {"pending", "done", "unresolved"} /\ exact \in {"exact", "decision"} /\ refs \in References
  BY <1>3 DEF Rows, NoRefs, References
<1>5. kept => old.mapping = "decision"
  BY DEF Retainable
<1>6. gone \in SUBSET Calls
  BY DEF Beyond, Remembered
<1> HIDE DEF state, exact, refs
<1>7. /\ plain \in Rows /\ plain.object = (IF old.object = 0 THEN made + 1 ELSE old.object)
      /\ plain.state = state /\ plain.mapping = exact /\ plain.refs = refs /\ ~ plain.seen
      /\ plain.versions = old.versions /\ plain.judged = old.judged
      /\ plain.hints = old.hints /\ plain.attempted = old.attempted
  BY <1>3, <1>4, RowIs
<1> HIDE DEF plain
<1>8. /\ row \in Rows /\ row.object = plain.object /\ row.mapping = exact /\ row.refs = refs /\ ~ row.seen
      /\ row.versions = old.versions /\ row.judged = old.judged
      /\ row.attempted => old.attempted /\ row.hints = old.hints
  BY <1>7, HintedIs
<1> HIDE DEF row
<1>9. table \in [Calls -> Rows] /\ table[c] = row /\ \A d \in Calls \ {c} : table[d] = calls[d]
  BY <1>3, <1>8
<1> HIDE DEF table, gone
<1>10. made' \in Nat /\ made <= made'
  BY <1>2, <1>3
<1> DEFINE running == Aborted(mapping, anew)
<1>11. /\ running \in [Calls -> Mappings] /\ Running(running) = Running(mapping)
       /\ \A d \in Calls : /\ running[d].object = mapping[d].object
                           /\ ~ running[d].aborted => running[d] = mapping[d]
                                                       /\ (d \in Running(mapping) => d \notin anew)
  BY <1>3, AbortedIs
<1> HIDE DEF running
<1>12. /\ waiting \subseteq Remembered(calls) \ Running(mapping)
       /\ \A d \in Calls : /\ calls[d].object <= made /\ mapping[d].object <= made
                           /\ RowHolds(calls[d], mapping[d], d \in Running(mapping))
  BY InvGives DEF TablesHold
<1>13. TablesHold(table, waiting, running, made')
  <2>1. waiting \subseteq Remembered(table) \ Running(running)
    <3>1. \A d \in Calls : d \in Remembered(calls) => d \in Remembered(table)
      BY <1>3, <1>7, <1>8, <1>9 DEF Remembered
    <3>2. QED
      BY <1>11, <1>12, <3>1 DEF Remembered
  <2>2. ASSUME NEW d \in Calls
        PROVE  table[d].object <= made' /\ running[d].object <= made'
    <3>1. calls[d].object \in Nat /\ mapping[d].object \in Nat /\ calls[d].object <= made /\ mapping[d].object <= made
      BY <1>3, <1>12 DEF Rows, Mappings
    <3>2. running[d].object = mapping[d].object
      BY <1>11
    <3>3. table[d].object = calls[d].object \/ (table[d].object = made + 1 /\ made' = made + 1)
      BY <1>2, <1>7, <1>8, <1>9
    <3>4. QED
      BY <1>3, <1>10, <3>1, <3>2, <3>3
  <2>3. ASSUME NEW d \in Calls PROVE RowHolds(table[d], running[d], d \in Running(running))
    <3>1. RowHolds(calls[d], mapping[d], d \in Running(mapping))
      BY <1>12
    <3>2. CASE d # c
      BY <1>9, <1>11, <3>1, <3>2 DEF RowHolds
    <3>3. CASE d = c /\ old.object = 0
      <4>1. row.object = made + 1 /\ ~ row.attempted
        BY <1>7, <1>8, <3>1, <3>3 DEF RowHolds
      <4>2. running[c].object # row.object
        <5>1. mapping[c].object \in Nat /\ mapping[c].object <= made /\ running[c].object = mapping[c].object
          BY <1>3, <1>11, <1>12 DEF Mappings
        <5>2. QED
          BY <1>3, <4>1, <5>1
      <4>3. QED
        BY <1>9, <3>3, <4>1, <4>2 DEF RowHolds
    <3>4. CASE d = c /\ old.object # 0
      <4>1. row.object = old.object
        BY <1>7, <1>8, <3>4
      <4>2. row.attempted => old.attempted /\ Question(row) = Question(old) /\ row.judged = old.judged
        BY <1>8 DEF Question
      <4>3. c \in Running(running) /\ ~ running[c].aborted => running[c] = mapping[c] /\ Question(row) = Question(old)
        BY <1>8, <1>11 DEF Question
      <4>4. QED
        BY <1>9, <1>11, <3>1, <3>4, <4>1, <4>2, <4>3 DEF RowHolds
    <3>5. QED
      BY <3>2, <3>3, <3>4
  <2>4. QED
    BY <1>9, <1>11, <2>1, <2>2, <2>3 DEF TablesHold
<1>14. mapping' = Aborted(running, gone)
  BY <1>2, <1>3, AbortedTwice DEF running
<1>15. TablesHold(calls', waiting', mapping', made')
  BY <1>2, <1>6, <1>10, <1>13, <1>14, ForgetKeeps
<1>16. turn' \in Turns /\ turn'.op # "apply"
  BY <1>2, InvGives, TurnIs
<1>17. BegunSince(mapping', Available, controls) /\ AskedOf(mapping', turn)
  <2>1. Available \in BOOLEAN
    BY DEF Available
  <2>2. QED
    BY <1>2, <2>1, AbortKeeps, InvGives
<1>18. AskedOf(mapping', turn')
  BY <1>16, <1>17, TurnPasses
<1>19. /\ StoreTypeOK' /\ parsed' \in References /\ lineageId' = lineageId
       /\ \A a \in Artifacts : parsed'[a] = parsed[a] \/ parsed'[a] = 0
  BY <1>2, InvGives, RegisterKeeps
<1>20. \A d \in Calls : calls'[d] = IF d \in gone THEN Forgotten ELSE table[d]
  BY <1>2 DEF Forget
<1>21. Running(mapping') = Running(mapping) /\ calls' \in [Calls -> Rows]
  BY <1>11, <1>14, <1>15, AbortedIs DEF TablesHold
<1>22. Available => QueueHolds(calls', waiting', mapping', parsed', live)
  <2>1. ASSUME Available PROVE QueueHolds(calls', waiting', mapping', parsed, live)
    <3>1. ASSUME NEW d \in Calls, Wanted(d, calls'[d], parsed, live) PROVE d \notin gone /\ calls'[d] = calls[d]
      <4>1. ~ Forgotten.attempted /\ Forgotten.object = 0
        BY ForgottenIs
      <4>2. d \notin gone
        BY <1>20, <3>1, <4>1 DEF Wanted, Eligible
      <4>3. d # c
        BY <1>8, <1>9, <1>20, <3>1, <4>2 DEF Wanted
      <4>4. QED
        BY <1>9, <1>20, <4>2, <4>3
    <3>2. QED
      BY <1>2, <1>21, <2>1, <3>1, InvGives DEF QueueHolds
  <2>2. QED
    BY <1>19, <1>21, <2>1, InvGives, QueueFewer
<1>23. spent' \in Nat
  BY <1>2, InvGives, SpendIs
<1>24. ActivityInv'
  BY <1>2, <1>10, <1>15, <1>16, <1>17, <1>18, <1>19, <1>22, <1>23, InvGives, ModesStay, InvFollows
<1>25. ASSUME NEW d \in Calls PROVE IsMapped(d)
  <2>1. CASE d \in gone
    BY <1>20, <2>1, ForgottenIs DEF IsMapped
  <2>2. CASE d \notin gone /\ d # c
    <3>1. calls'[d] = calls[d]
      BY <1>9, <1>20, <2>2
    <3>2. QED
      BY <3>1 DEF IsMapped
  <2>3. CASE d \notin gone /\ d = c
    <3>1. calls'[d] = row
      BY <1>9, <1>20, <2>3
    <3>2. CASE holds
      <4>1. calls[d].mapping = "decision" /\ calls'[d].refs = calls[d].refs
        BY <1>5, <1>8, <2>3, <3>1, <3>2 DEF refs
      <4>2. IsCurrent(calls[d].refs)'
        <5>1. StillCurrent(calls[d].refs)
          BY <2>3, <3>2 DEF Retained
        <5>2. QED
          BY <1>19, <4>1, <5>1 DEF StillCurrent, IsCurrent
      <4>3. QED
        BY <4>1, <4>2 DEF IsMapped
    <3>3. CASE ~ holds
      <4>1. calls'[d].mapping = "exact"
        BY <1>8, <3>1, <3>3 DEF exact
      <4>2. QED
        BY <4>1 DEF IsMapped
    <3>4. QED
      BY <3>2, <3>3
  <2>4. QED
    BY <2>1, <2>2, <2>3
<1>26. QED
  BY <1>24, <1>25

LEMMA CaptureTargetsKeeps ==
    ASSUME ActivityInv, CaptureTargets
    PROVE  ActivityInv' /\ \A d \in Calls : IsMapped(d)
<1>1. PICK c \in Calls : c = turn.call
  BY InvGives, TurnIs DEF CaptureTargets
<1> DEFINE versions == Present(FilesOf[c])
           anew == versions # calls[c].versions
           table == [calls EXCEPT ![c].versions = versions, ![c].seen = TRUE, ![c].attempted = @ /\ ~ anew]
           running == IF anew THEN Aborted(mapping, {c}) ELSE mapping
<1>2. /\ turn.op = "capture" /\ RegisterArtifacts(FilesOf[c])
      /\ turn' = Idle \/ turn' = [op |-> "sweep"]
      /\ live' = live /\ heard' = heard /\ made' = made /\ UNCHANGED modeVars /\ spent' = spent
      /\ Become(calls, waiting, mapping) \/ (calls[c].object # 0 /\ Wake(table, waiting, running))
  BY <1>1 DEF CaptureTargets
<1>3. /\ StoreTypeOK' /\ parsed' \in References
      /\ \A a \in Artifacts : parsed'[a] = parsed[a] \/ parsed'[a] = 0
  BY <1>2, InvGives, RegisterKeeps
<1>4. turn' \in Turns /\ turn'.op # "apply"
  BY <1>2, InvGives, TurnIs
<1>5. CASE Become(calls, waiting, mapping)
  BY <1>2, <1>3, <1>4, <1>5, InvGives, TurnPasses, NothingAsked DEF Become, callVars
<1>6. CASE calls[c].object # 0 /\ Wake(table, waiting, running)
  <2>1. versions \in References
    <3>1. \A a \in Artifacts : records'[a].gen \in Nat
      BY <1>3 DEF StoreTypeOK
    <3>2. QED
      BY <3>1 DEF Present, References
  <2>2. calls \in [Calls -> Rows] /\ mapping \in [Calls -> Mappings] /\ calls[c] \in Rows
    BY InvGives
  <2> DEFINE one == [calls[c] EXCEPT !.versions = versions]
             two == [one EXCEPT !.seen = TRUE]
             row == [two EXCEPT !.attempted = @ /\ ~ anew]
  <2>3. table = [calls EXCEPT ![c] = row]
    BY <2>2
  <2>4. running = mapping \/ running = Aborted(mapping, {c})
    OBVIOUS
  <2>5. anew => running = Aborted(mapping, {c})
    OBVIOUS
  <2> HIDE DEF running, table
  <2> HIDE DEF versions
  <2>6. /\ one \in Rows /\ one.object = calls[c].object /\ one.versions = versions /\ one.judged = calls[c].judged
        /\ one.attempted = calls[c].attempted /\ one.hints = calls[c].hints /\ one.mapping = calls[c].mapping
        /\ one.state = calls[c].state /\ one.refs = calls[c].refs
    BY <2>1, <2>2 DEF Rows
  <2> HIDE DEF one
  <2>7. /\ two \in Rows /\ two.object = one.object /\ two.versions = one.versions /\ two.judged = one.judged
        /\ two.attempted = one.attempted /\ two.hints = one.hints /\ two.mapping = one.mapping
        /\ two.state = one.state /\ two.refs = one.refs
    BY <2>6 DEF Rows
  <2> HIDE DEF two
  <2>8. /\ row \in Rows /\ row.object = two.object /\ row.versions = two.versions /\ row.judged = two.judged
        /\ row.hints = two.hints /\ row.mapping = two.mapping /\ row.state = two.state /\ row.refs = two.refs
        /\ row.attempted => two.attempted /\ ~ anew
    BY <2>7 DEF Rows
  <2> HIDE DEF row
  <2>9. table \in [Calls -> Rows] /\ table[c] = row /\ \A d \in Calls \ {c} : table[d] = calls[d]
    BY <2>2, <2>3, <2>8
  <2>10. /\ running \in [Calls -> Mappings] /\ Running(running) = Running(mapping)
         /\ \A d \in Calls : /\ running[d].object = mapping[d].object
                             /\ ~ running[d].aborted => running[d] = mapping[d]
         /\ anew /\ c \in Running(mapping) => running[c].aborted
    BY <2>2, <2>4, <2>5, AbortedIs
  <2>11. /\ waiting \subseteq Remembered(calls) \ Running(mapping)
         /\ \A d \in Calls : /\ calls[d].object <= made /\ mapping[d].object <= made
                             /\ RowHolds(calls[d], mapping[d], d \in Running(mapping))
    BY InvGives DEF TablesHold
  <2>12. \A d \in Calls : table[d].object = calls[d].object
    BY <2>6, <2>7, <2>8, <2>9
  <2>13. ASSUME NEW d \in Calls PROVE RowHolds(table[d], running[d], d \in Running(running))
    <3>1. RowHolds(calls[d], mapping[d], d \in Running(mapping))
      BY <2>11
    <3>2. CASE d # c
      BY <2>9, <2>10, <3>1, <3>2 DEF RowHolds
    <3>3. CASE d = c /\ anew
      <4>1. ~ table[d].attempted
        BY <2>8, <2>9, <3>3
      <4>2. QED
        BY <2>10, <3>3, <4>1 DEF RowHolds
    <3>4. CASE d = c /\ ~ anew
      <4>1. Question(row) = Question(calls[c]) /\ row.judged = calls[c].judged /\ row.object = calls[c].object
            /\ (row.attempted => calls[c].attempted)
        BY <2>6, <2>7, <2>8, <3>4 DEF Question
      <4>2. QED
        BY <2>9, <2>10, <3>1, <3>4, <4>1 DEF RowHolds
    <3>5. QED
      BY <3>2, <3>3, <3>4
  <2>14. TablesHold(table, waiting, running, made')
    <3>1. waiting \subseteq Remembered(table) \ Running(running)
      BY <2>10, <2>11, <2>12 DEF Remembered
    <3>2. QED
      BY <1>2, <2>9, <2>10, <2>11, <2>12, <2>13, <3>1 DEF TablesHold
  <2>15. BegunSince(running, Available, controls) /\ AskedOf(running, turn)
    <3>1. Available \in BOOLEAN
      BY DEF Available
    <3>2. BegunSince(mapping, Available, controls) /\ AskedOf(mapping, turn) /\ turn \in Turns
      BY InvGives
    <3>3. CASE running = mapping
      BY <3>2, <3>3
    <3>4. CASE running = Aborted(mapping, {c})
      BY <2>2, <3>1, <3>2, <3>4, AbortKeeps
    <3>5. QED
      BY <2>4, <3>3, <3>4
  <2>16. AskedOf(running, turn')
    BY <1>4, <2>15, TurnPasses
  <2>17. /\ Available' = Available /\ controls' = controls /\ epoch' \in Nat /\ controls' \in Nat /\ made' \in Nat
    BY <1>2, InvGives, ModesStay
  <2>18. BegunSince(running, Available', controls')
    BY <2>15, <2>17
  <2>19. Wake(table, waiting, running)
    BY <1>6
  <2>20. /\ TablesHold(calls', waiting', mapping', made')
         /\ BegunSince(mapping', Available', controls') /\ AskedOf(mapping', turn')
         /\ Available' => QueueHolds(calls', waiting', mapping', parsed', live')
         /\ \A d \in Calls : /\ calls'[d].mapping = table[d].mapping /\ calls'[d].state = table[d].state
    BY <1>4, <2>14, <2>16, <2>17, <2>18, <2>19, WakeKeeps
  <2>21. \A d \in Calls : calls'[d].mapping = calls[d].mapping /\ calls'[d].state = calls[d].state
    BY <2>6, <2>7, <2>8, <2>9, <2>20
  <2>22. ActivityInv'
    BY <1>2, <1>3, <1>4, <2>17, <2>20, InvGives, ModesStay, InvFollows
  <2>23. QED
    BY <2>21, <2>22, NoneMapped
<1>7. QED
  BY <1>2, <1>5, <1>6

\* The rest of a step that wakes the queue.
LEMMA WakeEnds ==
    ASSUME ActivityInv, NEW table, NEW queue, NEW running, Wake(table, queue, running),
           TablesHold(table, queue, running, made), BegunSince(running, Available', controls'),
           AskedOf(running, turn),
           \A c \in Calls : table[c].mapping = calls[c].mapping /\ table[c].state = calls[c].state,
           UNCHANGED <<live, heard, made, turn>>, StoreTypeOK', parsed' \in References,
           paused' \in BOOLEAN, available' \in BOOLEAN, closed' \in BOOLEAN,
           epoch' \in Nat, controls' \in Nat, spent' \in Nat
    PROVE  ActivityInv' /\ \A d \in Calls : IsMapped(d)
<1>1. live' = live /\ heard' = heard /\ made' = made /\ turn' = turn
  OBVIOUS
<1>2. /\ TablesHold(table, queue, running, made') /\ AskedOf(running, turn')
      /\ made' \in Nat /\ turn' \in Turns
  BY <1>1, InvGives
<1>3. /\ TablesHold(calls', waiting', mapping', made')
      /\ BegunSince(mapping', Available', controls') /\ AskedOf(mapping', turn')
      /\ Available' => QueueHolds(calls', waiting', mapping', parsed', live')
      /\ \A d \in Calls : /\ calls'[d].mapping = table[d].mapping /\ calls'[d].state = table[d].state
  BY <1>2, WakeKeeps
<1>4. ActivityInv'
  BY <1>1, <1>2, <1>3, InvGives, InvFollows
<1>5. QED
  BY <1>3, <1>4, NoneMapped

LEMMA EndKeeps ==
    ASSUME ActivityInv, NEW c \in Calls, End(c)
    PROVE  ActivityInv' /\ \A d \in Calls : IsMapped(d)
<1> DEFINE table == Ended(c, TRUE)
           running == [mapping EXCEPT ![c] = NoMapping]
<1>1. /\ mapping[c].stage = "finished" /\ Wake(table, waiting, running)
      /\ UNCHANGED storeVars /\ parsed' = parsed /\ UNCHANGED modeVars /\ spent' = spent
      /\ UNCHANGED <<live, heard, made, turn>>
  BY DEF End
<1>2. calls \in [Calls -> Rows] /\ mapping \in [Calls -> Mappings] /\ calls[c] \in Rows /\ mapping[c] \in Mappings
  BY InvGives
<1>3. /\ running \in [Calls -> Mappings] /\ running[c] = NoMapping
      /\ \A d \in Calls \ {c} : running[d] = mapping[d]
      /\ Running(running) = Running(mapping) \ {c} /\ c \in Running(mapping)
  <2>1. /\ running \in [Calls -> Mappings] /\ running[c] = NoMapping
        /\ \A d \in Calls \ {c} : running[d] = mapping[d]
    BY <1>2, ForgottenIs
  <2> HIDE DEF running
  <2>2. QED
    BY <1>1, <2>1, ForgottenIs DEF Running
<1>4. /\ waiting \subseteq Remembered(calls) \ Running(mapping)
      /\ \A d \in Calls : /\ calls[d].object <= made /\ mapping[d].object <= made
                          /\ RowHolds(calls[d], mapping[d], d \in Running(mapping))
  BY InvGives DEF TablesHold
<1>5. /\ table \in [Calls -> Rows] /\ \A d \in Calls \ {c} : table[d] = calls[d]
      /\ table[c].object = calls[c].object /\ table[c].mapping = calls[c].mapping /\ table[c].state = calls[c].state
      /\ RowHolds(table[c], NoMapping, FALSE)
  <2>1. RowHolds(calls[c], mapping[c], TRUE)
    <3>1. (c \in Running(mapping)) = TRUE
      BY <1>3
    <3>2. QED
      BY <1>4, <3>1
  <2>2. CASE calls[c].object # mapping[c].object
    <3>1. table = calls
      BY <2>2 DEF Ended
    <3> HIDE DEF table
    <3>2. QED
      BY <1>2, <2>1, <2>2, <3>1 DEF RowHolds
  <2>3. CASE calls[c].object = mapping[c].object /\ mapping[c].aborted
    <3> DEFINE row == [calls[c] EXCEPT !.attempted = FALSE]
    <3>1. table = [calls EXCEPT ![c] = row]
      BY <2>3 DEF Ended
    <3>2. row \in Rows /\ row.object = calls[c].object /\ row.mapping = calls[c].mapping
          /\ row.state = calls[c].state /\ ~ row.attempted
      BY <1>2 DEF Rows
    <3> HIDE DEF table, row
    <3>3. table \in [Calls -> Rows] /\ table[c] = row /\ \A d \in Calls \ {c} : table[d] = calls[d]
      BY <1>2, <3>1, <3>2
    <3>4. QED
      BY <3>2, <3>3 DEF RowHolds
  <2>4. CASE calls[c].object = mapping[c].object /\ ~ mapping[c].aborted
    <3> DEFINE row == [calls[c] EXCEPT !.judged = Question(mapping[c])]
    <3>1. table = [calls EXCEPT ![c] = row]
      BY <2>4 DEF Ended
    <3>2. Question(mapping[c]) = Question(calls[c])
      BY <2>1, <2>4 DEF RowHolds
    <3>3. Question(mapping[c]) \in References \X (0..1)
      BY <1>2 DEF Question, Mappings
    <3>4. row \in Rows /\ row.object = calls[c].object /\ row.mapping = calls[c].mapping
          /\ row.state = calls[c].state /\ row.judged = Question(mapping[c]) /\ row.versions = calls[c].versions
          /\ row.hints = calls[c].hints /\ row.attempted = calls[c].attempted
      BY <1>2, <3>3 DEF Rows
    <3> HIDE DEF table, row
    <3>5. table \in [Calls -> Rows] /\ table[c] = row /\ \A d \in Calls \ {c} : table[d] = calls[d]
      BY <1>2, <3>1, <3>4
    <3>6. Question(row) = Question(calls[c])
      BY <3>4 DEF Question
    <3>7. QED
      BY <2>1, <3>2, <3>4, <3>5, <3>6 DEF RowHolds
  <2>5. QED
    BY <2>2, <2>3, <2>4
<1> HIDE DEF table, running
<1>6. TablesHold(table, waiting, running, made)
  <2>1. waiting \subseteq Remembered(table) \ Running(running)
    BY <1>3, <1>4, <1>5 DEF Remembered
  <2>2. running[c].object <= made
    <3>1. NoMapping.object = 0 /\ made \in Nat
      BY InvGives, ForgottenIs
    <3>2. QED
      BY <1>3, <3>1
  <2>3. ASSUME NEW d \in Calls PROVE RowHolds(table[d], running[d], d \in Running(running))
    <3>1. CASE d = c
      <4>1. (d \in Running(running)) = FALSE
        BY <1>3, <3>1
      <4>2. QED
        BY <1>3, <1>5, <3>1, <4>1
    <3>2. CASE d # c
      <4>1. (d \in Running(running)) = (d \in Running(mapping))
        BY <1>3, <3>2
      <4>2. QED
        BY <1>3, <1>4, <1>5, <3>2, <4>1
    <3>3. QED
      BY <3>1, <3>2
  <2>4. \A d \in Calls : table[d].object <= made /\ running[d].object <= made
    BY <1>3, <1>4, <1>5, <2>2
  <2>5. QED
    BY <1>3, <1>5, <2>1, <2>3, <2>4 DEF TablesHold
<1>7. Available' = Available /\ controls' = controls
  BY <1>1, ModesStay
<1>8. BegunSince(running, Available', controls')
  <2>1. BegunSince(mapping, Available, controls)
    BY InvGives
  <2>2. QED
    BY <1>3, <1>7, <2>1 DEF BegunSince, Running
<1>9. AskedOf(running, turn)
  <2>1. AskedOf(mapping, turn) /\ turn \in Turns
    BY InvGives
  <2>2. turn.op = "apply" => turn.call # c
    BY <1>1, <2>1 DEF AskedOf
  <2>3. running[c].stage \notin {"asked", "answered"}
    BY <1>3, ForgottenIs
  <2>4. QED
    BY <1>3, <2>1, <2>2, <2>3, AskedStays
<1>10. \A d \in Calls : table[d].mapping = calls[d].mapping /\ table[d].state = calls[d].state
  BY <1>5
<1>11. StoreTypeOK' /\ parsed' \in References /\ spent' \in Nat
  BY <1>1, InvGives, StoreStays
<1>12. paused' \in BOOLEAN /\ available' \in BOOLEAN /\ closed' \in BOOLEAN /\ epoch' \in Nat /\ controls' \in Nat
  BY <1>1, ModesStay
<1>13. QED
  BY <1>1, <1>6, <1>8, <1>9, <1>10, <1>11, <1>12, WakeEnds

LEMMA ParseKeeps ==
    ASSUME ActivityInv, NEW a \in Artifacts, Parse(a)
    PROVE  ActivityInv' /\ \A d \in Calls : IsMapped(d)
<1>1. /\ records' = [records EXCEPT ![a] = [gen |-> NextGeneration(a), seen |-> Inspect(a)]]
      /\ \/ parsed' = [parsed EXCEPT ![a] = records[a].gen]
         \/ parsed' = [parsed EXCEPT ![a] = @]
         \/ parsed' = [parsed EXCEPT ![a] = 0]
      /\ disk' = disk /\ lineageId' = lineageId /\ UNCHANGED modeVars /\ spent' = spent
      /\ UNCHANGED <<live, heard, made, turn>> /\ Wake(calls, waiting, mapping)
  BY DEF Parse
<1>2. /\ StoreTypeOK /\ records[a].gen \in Nat /\ parsed \in References
      /\ disk[a].status \in Statuses /\ disk[a].stamp \in 0..MaxStamp
  BY InvGives DEF StoreTypeOK
<1>3. NextGeneration(a) \in Nat
  <2>1. records[a].gen + 1 \in Nat /\ GenerationFloor + 1 \in Nat
    BY <1>2, StoreAssumption
  <2>2. QED
    BY <1>2, <2>1 DEF NextGeneration
<1>4. Inspect(a) \in Versions
  <2>1. 0 \in 0..MaxStamp /\ lineageId \in AnyLineage
    BY <1>2, StoreAssumption DEF StoreTypeOK
  <2>2. QED
    BY <1>2, <2>1 DEF Inspect, Versions
<1>5. StoreTypeOK'
  BY <1>1, <1>2, <1>3, <1>4 DEF StoreTypeOK
<1>6. parsed' \in References
  BY <1>1, <1>2 DEF References
<1>7. /\ Available' = Available /\ controls' = controls
      /\ paused' \in BOOLEAN /\ available' \in BOOLEAN /\ closed' \in BOOLEAN /\ epoch' \in Nat /\ controls' \in Nat
  BY <1>1, ModesStay
<1>8. BegunSince(mapping, Available', controls')
  BY <1>7, InvGives
<1>9. spent' \in Nat
  BY <1>1, InvGives
<1>10. QED
  BY <1>1, <1>5, <1>6, <1>7, <1>8, <1>9, InvGives, WakeEnds

LEMMA ControlIs ==
    ASSUME ActivityInv, Control
    PROVE  spent' \in Nat /\ controls' \in Nat
<1>1. spent \in Nat /\ controls \in Nat
  BY InvGives
<1>2. QED
  BY <1>1 DEF Control, Spend

\* What is suspended has no question that may be answered.
LEMMA SuspendedKeeps ==
    ASSUME ActivityInv, Suspend, ~ Available', UNCHANGED <<storeVars, parsed, live, heard, made, turn>>,
           paused' \in BOOLEAN, available' \in BOOLEAN, closed' \in BOOLEAN,
           epoch' \in Nat, controls' \in Nat, spent' \in Nat
    PROVE  ActivityInv' /\ \A d \in Calls : IsMapped(d)
<1>1. /\ calls' = calls /\ waiting' = {} /\ mapping' = Aborted(mapping, Calls)
      /\ UNCHANGED storeVars /\ parsed' = parsed /\ live' = live /\ heard' = heard /\ made' = made /\ turn' = turn
  BY DEF Suspend, Become
<1>2. TablesHold(calls', waiting', mapping', made')
  BY <1>1, InvGives, AbortTables
<1>3. BegunSince(mapping', Available', controls')
  BY <1>1, InvGives, AbortAll
<1>4. AskedOf(mapping', turn')
  <2>1. Available \in BOOLEAN
    BY DEF Available
  <2>2. QED
    BY <1>1, <2>1, InvGives, AbortKeeps
<1>5. ActivityInv'
  BY <1>1, <1>2, <1>3, <1>4, InvGives, StoreStays, InvFollows
<1>6. QED
  BY <1>1, <1>5, NoneMapped

\* And what was suspended has none still.
LEMMA NoneSince ==
    ASSUME ActivityInv, ~ Available, NEW up, NEW now
    PROVE  BegunSince(mapping, up, now)
BY InvGives DEF BegunSince

LEMMA SetPausedKeeps ==
    ASSUME ActivityInv, SetPaused
    PROVE  ActivityInv' /\ \A d \in Calls : IsMapped(d)
<1>1. /\ Control /\ paused' = ~ paused
      /\ \/ paused' /\ Suspend
         \/ ~ paused' /\ Wake(calls, waiting, mapping)
      /\ UNCHANGED storeVars /\ parsed' = parsed /\ live' = live /\ heard' = heard /\ made' = made
      /\ turn' = turn /\ available' = available /\ closed' = closed /\ epoch' = epoch
  BY DEF SetPaused
<1>2. /\ spent' \in Nat /\ controls' \in Nat /\ paused' \in BOOLEAN /\ available' \in BOOLEAN
      /\ closed' \in BOOLEAN /\ epoch' \in Nat /\ parsed' \in References
  BY <1>1, InvGives, ControlIs
<1>3. CASE paused' /\ Suspend
  <2>1. ~ Available'
    BY <1>3 DEF Available
  <2>2. QED
    BY <1>1, <1>2, <1>3, <2>1, SuspendedKeeps
<1>4. CASE ~ paused' /\ Wake(calls, waiting, mapping)
  <2>1. ~ Available
    BY <1>1, <1>4, InvGives DEF Available
  <2>2. BegunSince(mapping, Available', controls')
    BY <2>1, NoneSince
  <2>3. QED
    BY <1>1, <1>2, <1>4, <2>2, InvGives, StoreStays, WakeEnds
<1>5. QED
  BY <1>1, <1>3, <1>4

LEMMA ShutdownKeeps ==
    ASSUME ActivityInv, Close
    PROVE  ActivityInv' /\ \A d \in Calls : IsMapped(d)
<1>1. /\ Control /\ closed' = TRUE /\ Suspend
      /\ UNCHANGED storeVars /\ parsed' = parsed /\ live' = live /\ heard' = heard /\ made' = made
      /\ turn' = turn /\ paused' = paused /\ available' = available /\ epoch' = epoch
  BY DEF Close
<1>2. /\ spent' \in Nat /\ controls' \in Nat /\ paused' \in BOOLEAN /\ available' \in BOOLEAN
      /\ closed' \in BOOLEAN /\ epoch' \in Nat
  BY <1>1, InvGives, ControlIs
<1>3. ~ Available'
  BY <1>1 DEF Available
<1>4. QED
  BY <1>1, <1>2, <1>3, SuspendedKeeps

LEMMA ObserveLineageKeeps ==
    ASSUME ActivityInv, NEW lineage \in Lineages, NEW readable \in BOOLEAN, ObserveLineage(lineage, readable)
    PROVE  ActivityInv' /\ \A d \in Calls : IsMapped(d)
<1>1. /\ Control /\ (lineage # lineageId \/ readable # available)
      /\ lineageId' = lineage /\ available' = readable
      /\ disk' = disk /\ records' = records /\ UNCHANGED <<live, heard, made, turn>>
      /\ paused' = paused /\ closed' = closed
      /\ parsed' = NoRefs \/ parsed' = parsed
      /\ \/ epoch' = epoch + 1 /\ Wake(calls, {}, Aborted(mapping, Calls))
         \/ lineage = lineageId /\ readable /\ epoch' = epoch /\ Wake(calls, waiting, mapping)
  BY DEF ObserveLineage
<1>2. epoch \in Nat /\ NoRefs \in References /\ parsed \in References /\ available \in BOOLEAN
  BY InvGives DEF NoRefs, References
<1>3. /\ spent' \in Nat /\ controls' \in Nat /\ paused' \in BOOLEAN /\ available' \in BOOLEAN
      /\ closed' \in BOOLEAN /\ epoch' \in Nat /\ parsed' \in References
  BY <1>1, <1>2, InvGives, ControlIs
<1>4. StoreTypeOK'
  BY <1>1, InvGives DEF StoreTypeOK, AnyLineage
<1>5. CASE Wake(calls, {}, Aborted(mapping, Calls))
  <2>1. TablesHold(calls, {}, Aborted(mapping, Calls), made)
    BY InvGives, AbortTables
  <2>2. BegunSince(Aborted(mapping, Calls), Available', controls')
    BY InvGives, AbortAll
  <2>3. AskedOf(Aborted(mapping, Calls), turn)
    <3>1. Available \in BOOLEAN
      BY DEF Available
    <3>2. QED
      BY <3>1, InvGives, AbortKeeps
  <2>4. QED
    BY <1>1, <1>3, <1>4, <1>5, <2>1, <2>2, <2>3, WakeEnds
<1>6. CASE lineage = lineageId /\ readable /\ Wake(calls, waiting, mapping)
  <2>1. ~ Available
    BY <1>1, <1>2, <1>6 DEF Available
  <2>2. BegunSince(mapping, Available', controls')
    BY <2>1, NoneSince
  <2>3. QED
    BY <1>1, <1>3, <1>4, <1>6, <2>2, InvGives, WakeEnds
<1>7. QED
  BY <1>1, <1>5, <1>6

-----------------------------------------------------------------------------
(* The invariant, and what it is for. *)

LEMMA ActivityStarts ==
    ASSUME ActivityInit
    PROVE  ActivityInv
<1>1. NoRefs \in References /\ 0 \in 0..MaxStamp
  BY StoreAssumption DEF NoRefs, References
<1>2. StoreTypeOK
  BY <1>1 DEF ActivityInit, StoreInit, StoreTypeOK, Unseen, Versions, AnyLineage, Statuses
<1>3. /\ parsed = NoRefs /\ live = [s \in Sessions |-> "absent"] /\ heard = {}
      /\ calls = [c \in Calls |-> Forgotten] /\ made = 0
      /\ waiting = {} /\ mapping = [c \in Calls |-> NoMapping]
      /\ turn = Idle /\ paused = FALSE /\ available = TRUE /\ closed = FALSE
      /\ epoch = 0 /\ spent = 0 /\ controls = 0
  BY DEF ActivityInit
<1>4. /\ calls \in [Calls -> Rows] /\ mapping \in [Calls -> Mappings]
      /\ \A c \in Calls : calls[c] = Forgotten /\ mapping[c] = NoMapping
  BY <1>3, ForgottenIs
<1>5. ActivityTypeOK
  BY <1>1, <1>2, <1>3, <1>4, TurnIs DEF ActivityTypeOK, Lives, Turns
<1>6. Running(mapping) = {}
  BY <1>4, ForgottenIs DEF Running
<1>7. \A c \in Calls : /\ calls[c].object <= made /\ mapping[c].object <= made
                       /\ RowHolds(calls[c], mapping[c], c \in Running(mapping))
  BY <1>3, <1>4, <1>6, ForgottenIs DEF RowHolds
<1>8. TablesHold(calls, waiting, mapping, made)
  BY <1>3, <1>4, <1>7 DEF TablesHold
<1>9. BegunSince(mapping, Available, controls)
  BY <1>6 DEF BegunSince
<1>10. AskedOf(mapping, turn)
  BY <1>3, <1>4, ForgottenIs DEF AskedOf, Idle
<1>11. QueueHolds(calls, waiting, mapping, parsed, live)
  BY <1>3, <1>4, ForgottenIs DEF QueueHolds, Wanted, Eligible
<1>12. QED
  BY <1>5, <1>8, <1>9, <1>10, <1>11 DEF ActivityInv

LEMMA ActivitySteps ==
    ASSUME ActivityInv, [ActivityNext]_activityVars
    PROVE  ActivityInv' /\ [\A c \in Calls : IsMapped(c)]_activityVars
<1>1. CASE LateRequest
  BY <1>1, LateRequestKeeps
<1>2. CASE CaptureTargets
  BY <1>2, CaptureTargetsKeeps
<1>3. CASE CaptureFails
  BY <1>3, CaptureFailsKeeps
<1>4. CASE Sweep
  BY <1>4, SweepKeeps
<1>5. CASE Reconcile
  BY <1>5, ReconcileKeeps
<1>6. CASE ApplyTargets
  BY <1>6, ApplyTargetsKeeps
<1>7. CASE ApplyTargetsFails
  BY <1>7, ApplyFailsKeeps
<1>8. CASE SetPaused
  BY <1>8, SetPausedKeeps
<1>9. CASE Close
  BY <1>9, ShutdownKeeps
<1>10. CASE \E hinted \in BOOLEAN : AddActivity(hinted)
  BY <1>10, AddActivityKeeps
<1>11. CASE \E s \in Sessions, ends \in {"nothing", "turn", "session"} : NoteSession(s, ends)
  BY <1>11, NoteSessionKeeps
<1>12. CASE \E l \in Lineages, readable \in BOOLEAN : ObserveLineage(l, readable)
  BY <1>12, ObserveLineageKeeps
<1>13. CASE \E a \in Artifacts : Parse(a) \/ Edit(a)
  BY <1>13, ParseKeeps, EditKeeps
<1>14. CASE \E c \in Calls :
              \/ \E kind \in {"requested", "done"} : Hear(c, kind)
              \/ LeasePasses(c) \/ AskTargets(c) \/ AnswerTargets(c) \/ NoTargets(c)
              \/ BeginApplyTargets(c) \/ End(c)
  <2>1. PICK c \in Calls :
              \/ \E kind \in {"requested", "done"} : Hear(c, kind)
              \/ LeasePasses(c) \/ AskTargets(c) \/ AnswerTargets(c) \/ NoTargets(c)
              \/ BeginApplyTargets(c) \/ End(c)
    BY <1>14
  <2>2. CASE \E kind \in {"requested", "done"} : Hear(c, kind)
    BY <2>2, HearKeeps
  <2>3. CASE LeasePasses(c)
    BY <2>3, LeasePassesKeeps
  <2>4. CASE AskTargets(c)
    BY <2>4, AskTargetsKeeps
  <2>5. CASE AnswerTargets(c) \/ NoTargets(c)
    BY <2>5, AnswerTargetsKeeps
  <2>6. CASE BeginApplyTargets(c)
    BY <2>6, BeginApplyKeeps
  <2>7. CASE End(c)
    BY <2>7, EndKeeps
  <2>8. QED
    BY <2>1, <2>2, <2>3, <2>4, <2>5, <2>6, <2>7
<1>15. CASE UNCHANGED activityVars
  <2>1. /\ UNCHANGED <<live, heard, callVars, modeVars>> /\ UNCHANGED storeVars
        /\ parsed' = parsed /\ turn' = turn /\ spent' = spent
    BY <1>15 DEF activityVars
  <2>2. QED
    BY <2>1, InvGives, StoreStays, NothingAsked
<1>16. QED
  BY <1>1, <1>2, <1>3, <1>4, <1>5, <1>6, <1>7, <1>8, <1>9, <1>10, <1>11, <1>12, <1>13, <1>14, <1>15
     DEF ActivityNext

\* While nothing is under way, every call that is remembered was asked about as it is.
LEMMA NothingIsForgotten ==
    ASSUME ActivityInv, Available, Running(mapping) = {}, turn = Idle, NEW c \in Remembered(calls)
    PROVE  IsAskedAbout(c)
<1>1. c \in Calls /\ calls[c].object # 0 /\ calls[c] \in Rows
  BY InvGives DEF Remembered
<1>2. calls[c].attempted => calls[c].judged = Question(calls[c])
  <2>1. RowHolds(calls[c], mapping[c], c \in Running(mapping))
    BY <1>1, InvGives DEF TablesHold
  <2>2. QED
    BY <2>1 DEF RowHolds
<1>3. ~ Wanted(c, calls[c], parsed, live)
  BY <1>1, InvGives DEF QueueHolds
<1>4. calls[c].mapping \in {"exact", "decision"}
  BY <1>1 DEF Rows
<1>5. QED
  BY <1>1, <1>2, <1>3, <1>4 DEF IsAskedAbout, Wanted, Eligible

\* The rows, the queue and the questions of the activity list fit each other: what was
\* attempted was judged or is being asked about, as it is unless the question was aborted;
\* a question that may be answered began after the last pause, resumption or checkout; and
\* a call that could be asked about waits for a question that is under way
\* (pipeline.mjs:640-760).
THEOREM ActivityCorrect == ActivitySpec => []ActivityInv
<1>1. ActivityInv /\ [ActivityNext]_activityVars => ActivityInv'
  BY ActivitySteps
<1>2. QED
  BY <1>1, ActivityStarts, PTL DEF ActivitySpec

\* Answers about calls are applied only while they are true, and no call is forgotten
\* (pipeline.mjs:640-760).
THEOREM CallsAreHeld == ActivitySpec => CallsHold
<1>1. ActivityInv /\ [ActivityNext]_activityVars => [\A c \in Calls : IsMapped(c)]_activityVars
  BY ActivitySteps
<1>2. ActivityInv => (Available /\ Running(mapping) = {} /\ turn = Idle
                        => \A c \in Remembered(calls) : IsAskedAbout(c))
  BY NothingIsForgotten
<1>3. QED
  BY <1>1, <1>2, ActivityCorrect, PTL DEF ActivitySpec, CallsHold
====
