---- MODULE LockProofs ----
(***************************************************************************)
(* Whatever the number of processes, and whoever dies when: one process is  *)
(* inside the guard at a time, and the lock directory is the register that  *)
(* OwnerRegister describes.  And what the command line keeps of the plugins  *)
(* it sets up, whatever the number of repositories, hosts and versions.     *)
(***************************************************************************)
EXTENDS PublicationLock, Onboarding, TLAPS

(***************************************************************************)
(* The inductive invariant.                                                 *)
(***************************************************************************)

\* A call has its claim from beginning to end, and its number from its second reading on.
ClaimsHold ==
    \A p \in Alive :
        /\ pc[p] \notin {"new", "running", "ended"} => p \in claim
        /\ pc[p] \in {"new", "claimed", "choosing", "running", "ended"} => ticket[p] = 0

\* The order of the bakery.
First(p, q) == ticket[p] < ticket[q] \/ (ticket[p] = ticket[q] /\ p < q)

\* A process that waits for q no more.
Passed(p, q) ==
    \/ pc[p] = "waiting" /\ q \notin left[p] /\ ~ blocked[p]
    \/ pc[p] \in {"inside", "replacing"}

\* What keeps q behind a process that has passed it: q has yet to read its number, or has
\* seen it, or has chosen a number that goes after.
Behind(q, p) ==
    /\ pc[q] = "choosing" => p \in left[q] \/ high[q] >= ticket[p]
    /\ pc[q] \in {"numbered", "waiting", "inside", "replacing"} => First(p, q)

PassedStayBehind == \A p, q \in Alive : p # q /\ Passed(p, q) => Behind(q, p)

\* The record is read and written inside the guard only: it is gone while it is replaced,
\* and is that of the daemon that runs.
RecordHolds ==
    \A p \in Alive :
        /\ pc[p] = "new" => purpose[p] = "acquire"
        /\ pc[p] = "replacing" => purpose[p] = "acquire" /\ lock = NoOwner
        /\ pc[p] = "running" => purpose[p] = "acquire" /\ lock = p

BakeryInv == TypeOK /\ ClaimsHold /\ PassedStayBehind

LockInv == BakeryInv /\ RecordHolds

LEMMA Order ==
  ASSUME NEW p \in Procs, NEW q \in Procs, p # q
  PROVE  p \in Nat /\ q \in Nat /\ (p < q \/ q < p) /\ ~ (p < q /\ q < p)
BY LockAssumption

LEMMA InitHolds == Init => LockInv
BY LockAssumption DEF Init, LockInv, BakeryInv, TypeOK, Places, ClaimsHold, PassedStayBehind, Passed, RecordHolds, Alive

(***************************************************************************)
(* Two processes inside the guard would each be behind the other.           *)
(***************************************************************************)
LEMMA OneInside == BakeryInv => GuardExclusive
<1> SUFFICES ASSUME BakeryInv, NEW p \in Alive, NEW q \in Alive, p # q,
                    pc[p] \in {"inside", "replacing"}, pc[q] \in {"inside", "replacing"}
             PROVE  FALSE
  BY DEF GuardExclusive
<1>1. First(p, q) /\ First(q, p)
  BY DEF BakeryInv, PassedStayBehind, Passed, Behind
<1>2. ticket[p] \in Nat /\ ticket[q] \in Nat /\ p \in Procs /\ q \in Procs
  BY DEF BakeryInv, TypeOK, Alive
<1> QED BY <1>1, <1>2, Order DEF First

LEMMA TypeKept == TypeOK /\ ClaimsHold /\ [Next]_vars => TypeOK'
<1> SUFFICES ASSUME TypeOK, ClaimsHold, [Next]_vars PROVE TypeOK'
  OBVIOUS
<1> USE DEF TypeOK, Places, Go
<1>1. CASE UNCHANGED vars
  BY <1>1 DEF vars
<1>2. ASSUME NEW p \in Procs, NEW for \in {"acquire", "release"}, MakeClaim(p, for),
             pc[p] \in {"new", "running"}
      PROVE  TypeOK'
  BY <1>2 DEF MakeClaim, Reading
<1>3. ASSUME NEW p \in Procs, NEW place \in {"choosing", "waiting"}, Open(p, place),
             place = "waiting" => p \in claim /\ ticket[p] # 0
      PROVE  TypeOK'
  BY <1>3 DEF Open
<1>4. ASSUME NEW p \in Procs, NEW q \in Procs, ReadClaim(p, q) PROVE TypeOK'
  <2>1. CASE q \in Alive
    <3>1. blocked' \in [Procs -> BOOLEAN]
      BY <1>4, <2>1 DEF ReadClaim, Note, Before
    <3>2. high' \in [Procs -> Nat]
      BY <1>4, <2>1 DEF ReadClaim, Note
    <3>3. left' \in [Procs -> SUBSET Procs] /\ UNCHANGED <<claim, ticket, pc, purpose, lock>>
      BY <1>4, <2>1 DEF ReadClaim
    <3> QED BY <3>1, <3>2, <3>3
  <2>2. CASE q \notin Alive
    BY <1>4, <2>2 DEF ReadClaim, Alive
  <2> QED BY <2>1, <2>2
<1>5. ASSUME NEW p \in Procs, WriteTicket(p) PROVE TypeOK'
  <2>1. high[p] + 1 \in Nat \ {0}
    BY <1>5
  <2> DEFINE number == high[p] + 1
  <2> HIDE DEF number
  <2>2. /\ ticket' = [ticket EXCEPT ![p] = number] /\ number \in Nat \ {0}
        /\ high' = [high EXCEPT ![p] = 0] /\ pc' = [pc EXCEPT ![p] = "numbered"]
        /\ UNCHANGED <<purpose, claim, left, blocked, lock>>
    BY <1>5, <2>1 DEF WriteTicket, number
  <2>3. p \in claim
    BY <1>5 DEF WriteTicket, ClaimsHold, Alive
  <2>4. pc' \in [Procs -> Places] /\ ticket' \in [Procs -> Nat] /\ high' \in [Procs -> Nat]
    BY <1>5, <2>2
  <2>5. ASSUME NEW q \in Procs, pc'[q] \in {"numbered", "waiting", "inside", "replacing"}
        PROVE  q \in claim' /\ ticket'[q] # 0
    BY <1>5, <2>2, <2>3, <2>5
  <2> QED BY <2>2, <2>4, <2>5
<1>6. ASSUME NEW p \in Procs, Enter(p) \/ Fail(p) PROVE TypeOK'
  <2>1. CASE Enter(p)
    <3>1. pc[p] = "waiting" /\ Go(p, "inside") /\ UNCHANGED <<purpose, claim, ticket, left, high, blocked, lock>>
      BY <2>1 DEF Enter
    <3> QED BY <1>6, <3>1
  <2>2. CASE Fail(p)
    BY <1>6, <2>2 DEF Fail
  <2> QED BY <1>6, <2>1, <2>2
<1>7. ASSUME NEW p \in Procs, Replace(p) \/ Refuse(p) \/ Publish(p) \/ Unpublish(p) PROVE TypeOK'
  BY <1>7 DEF Replace, Refuse, Publish, Unpublish, Inside
<1>8. ASSUME NEW p \in Procs, RemoveTicket(p) PROVE TypeOK'
  BY <1>8 DEF RemoveTicket
<1>9. ASSUME NEW p \in Procs, RemoveClaim(p) PROVE TypeOK'
  BY <1>9 DEF RemoveClaim
<1>10. ASSUME NEW p \in Procs, Crash(p) PROVE TypeOK'
  BY <1>10 DEF Crash
<1>11. ASSUME NEW p \in Procs, OpenToChoose(p) \/ OpenToWait(p)
       PROVE  \E place \in {"choosing", "waiting"} :
                 Open(p, place) /\ (place = "waiting" => p \in claim /\ ticket[p] # 0)
  BY <1>11 DEF OpenToChoose, OpenToWait
<1> QED BY <1>1, <1>2, <1>3, <1>4, <1>5, <1>6, <1>7, <1>8, <1>9, <1>10, <1>11 DEF Next, Step, Acquire, Release

(***************************************************************************)
(* The steps of one process.  What is left of a reading is what others have *)
(* to wait for, so each step shows who passed whom before it.               *)
(***************************************************************************)
Kept == ClaimsHold' /\ PassedStayBehind' /\ RecordHolds'

LEMMA MakeClaimKeeps ==
  ASSUME LockInv, NEW p \in Procs, NEW for \in {"acquire", "release"}, MakeClaim(p, for),
         pc[p] \in {"new", "running"}
  PROVE  Kept
<1> USE DEF LockInv, BakeryInv, TypeOK, Alive
<1>1. /\ pc' = [pc EXCEPT ![p] = "claimed"] /\ claim' = claim \union {p}
      /\ \A q \in Procs : left'[q] = left[q] \/ left'[q] = left[q] \union {p}
      /\ UNCHANGED <<ticket, high, blocked, lock>>
      /\ purpose' = [purpose EXCEPT ![p] = for]
  BY DEF MakeClaim, Go
<1>2. ClaimsHold'
  BY <1>1 DEF ClaimsHold
<1>3. PassedStayBehind'
  BY <1>1 DEF PassedStayBehind, Passed, Behind, First
<1>4. RecordHolds'
  BY <1>1 DEF RecordHolds
<1> QED BY <1>2, <1>3, <1>4 DEF Kept

LEMMA OpenKeeps ==
  ASSUME LockInv, NEW p \in Procs, OpenToChoose(p) \/ OpenToWait(p)
  PROVE  Kept
<1> USE DEF LockInv, BakeryInv, TypeOK, Alive
<1>1. PICK place \in {"choosing", "waiting"} :
         /\ pc' = [pc EXCEPT ![p] = place] /\ left' = [left EXCEPT ![p] = claim \ {p}]
         /\ blocked' = [blocked EXCEPT ![p] = FALSE]
         /\ UNCHANGED <<purpose, claim, ticket, high, lock>>
         /\ pc[p] \notin {"new", "running", "ended", "dead"}
         /\ place = "choosing" => pc[p] = "claimed"
         /\ place = "waiting" => pc[p] \in {"numbered", "waiting"}
  BY DEF OpenToChoose, OpenToWait, Open, Go
<1>2. ClaimsHold'
  BY <1>1 DEF ClaimsHold
<1>3. PassedStayBehind'
  BY <1>1 DEF PassedStayBehind, Passed, Behind, First, ClaimsHold
<1>4. RecordHolds'
  BY <1>1 DEF RecordHolds
<1> QED BY <1>2, <1>3, <1>4 DEF Kept

LEMMA ReadClaimKeeps ==
  ASSUME LockInv, NEW p \in Procs, NEW q \in Procs, ReadClaim(p, q)
  PROVE  Kept
<1> USE DEF LockInv, BakeryInv, TypeOK, Alive
<1>1. UNCHANGED <<pc, purpose, lock>>
  BY DEF ReadClaim
<1>2. CASE q \notin Alive
  <2>1. /\ claim' = claim \ {q} /\ ticket' = [ticket EXCEPT ![q] = 0]
        /\ left' = [r \in Procs |-> left[r] \ {q}] /\ UNCHANGED <<high, blocked>>
    BY <1>2 DEF ReadClaim
  <2>2. ClaimsHold'
    BY <1>1, <1>2, <2>1 DEF ClaimsHold
  <2>3. PassedStayBehind'
    BY <1>1, <1>2, <2>1 DEF PassedStayBehind, Passed, Behind, First
  <2> QED BY <1>1, <2>2, <2>3 DEF Kept, RecordHolds
<1>3. CASE q \in Alive
  <2>1. /\ left' = [left EXCEPT ![p] = @ \ {q}] /\ UNCHANGED <<claim, ticket>>
        /\ Note(p, q)
    BY <1>3 DEF ReadClaim
  <2>2. ClaimsHold'
    BY <1>1, <2>1 DEF ClaimsHold
  <2>3. CASE pc[p] = "choosing"
    <3>1. /\ high' = [high EXCEPT ![p] = IF ticket[q] > high[p] THEN ticket[q] ELSE high[p]]
          /\ blocked' = blocked
      BY <2>1, <2>3 DEF Note
    <3>2. PassedStayBehind'
      BY <1>1, <2>1, <2>3, <3>1 DEF PassedStayBehind, Passed, Behind, First
    <3> QED BY <1>1, <2>2, <3>2 DEF Kept, RecordHolds
  <2>4. CASE pc[p] = "waiting"
    <3>1. /\ high' = high
          /\ blocked' = [blocked EXCEPT ![p] = blocked[p] \/ Before(q, p)]
      BY <2>1, <2>4 DEF Note
    <3>2. ASSUME NEW a \in Alive, NEW b \in Alive, a # b, Passed(a, b)'
          PROVE  Behind(b, a)'
      <4>1. pc[b] = "choosing" => b # p /\ left'[b] = left[b]
        BY <2>1, <2>4, <3>2
      <4>2. CASE a = p /\ b = q /\ pc[a] = "waiting" /\ ~ Passed(a, b)
        <5>1. ~ Before(q, p)
          BY <1>1, <2>1, <3>1, <3>2, <4>2 DEF Passed
        <5>2. First(p, q) /\ ticket[q] # 0
          BY <5>1, <3>2, <4>2, Order DEF Before, First
        <5> QED BY <1>1, <2>1, <3>1, <5>2, <4>2 DEF Behind, First, ClaimsHold
      <4>3. Passed(a, b) \/ (a = p /\ b = q /\ pc[a] = "waiting")
        BY <1>1, <2>1, <2>4, <3>1, <3>2 DEF Passed
      <4>4. CASE Passed(a, b)
        BY <1>1, <2>1, <3>1, <3>2, <4>1, <4>4 DEF Behind, First, PassedStayBehind
      <4> QED BY <4>2, <4>3, <4>4
    <3>3. PassedStayBehind'
      BY <1>1, <3>2 DEF PassedStayBehind
    <3> QED BY <1>1, <2>2, <3>3 DEF Kept, RecordHolds
  <2> QED BY <2>3, <2>4 DEF ReadClaim, Reading
<1> QED BY <1>2, <1>3

LEMMA WriteTicketKeeps ==
  ASSUME LockInv, NEW p \in Procs, WriteTicket(p)
  PROVE  Kept
<1> USE DEF LockInv, BakeryInv, TypeOK, Alive
<1>1. /\ pc[p] = "choosing" /\ left[p] = {} /\ pc' = [pc EXCEPT ![p] = "numbered"]
      /\ ticket' = [ticket EXCEPT ![p] = high[p] + 1] /\ high' = [high EXCEPT ![p] = 0]
      /\ UNCHANGED <<purpose, claim, left, blocked, lock>>
  BY DEF WriteTicket, Go
<1>2. ClaimsHold'
  BY <1>1 DEF ClaimsHold
<1>3. PassedStayBehind'
  BY <1>1 DEF PassedStayBehind, Passed, Behind, First
<1> QED BY <1>1, <1>2, <1>3 DEF Kept, RecordHolds

\* A step that leaves the guard, or goes on inside it.
LEMMA GoKeeps ==
  ASSUME LockInv, NEW p \in Procs,
         \/ Enter(p)
         \/ Fail(p) \/ RemoveTicket(p) \/ RemoveClaim(p) \/ Crash(p)
         \/ Replace(p) \/ Refuse(p) \/ Publish(p) \/ Unpublish(p)
  PROVE  ClaimsHold' /\ PassedStayBehind'
<1> USE DEF LockInv, BakeryInv, TypeOK, Alive, Go
<1>1. CASE Enter(p)
  BY <1>1 DEF Enter, ClaimsHold, PassedStayBehind, Passed, Behind, First
<1>2. CASE Fail(p)
  BY <1>2 DEF Fail, ClaimsHold, PassedStayBehind, Passed, Behind, First
<1>3. CASE RemoveTicket(p)
  BY <1>3 DEF RemoveTicket, ClaimsHold, PassedStayBehind, Passed, Behind, First
<1>4. CASE RemoveClaim(p)
  BY <1>4 DEF RemoveClaim, ClaimsHold, PassedStayBehind, Passed, Behind, First
<1>5. CASE Crash(p)
  BY <1>5 DEF Crash, ClaimsHold, PassedStayBehind, Passed, Behind, First
<1>6. CASE Replace(p) \/ Refuse(p) \/ Publish(p) \/ Unpublish(p)
  BY <1>6 DEF Replace, Refuse, Publish, Unpublish, Inside, ClaimsHold, PassedStayBehind, Passed, Behind, First
<1> QED BY <1>1, <1>2, <1>3, <1>4, <1>5, <1>6
(***************************************************************************)
(* The record of the owner, which changes inside the guard.                 *)
(***************************************************************************)
LEMMA RecordKept ==
  ASSUME LockInv, NEW p \in Procs,
         \/ Enter(p) \/ Fail(p) \/ RemoveTicket(p) \/ RemoveClaim(p) \/ Crash(p)
         \/ Replace(p) \/ Refuse(p) \/ Publish(p) \/ Unpublish(p)
  PROVE  RecordHolds'
<1> USE DEF LockInv, BakeryInv, TypeOK, Alive, Go, RecordHolds
<1>1. CASE Enter(p) \/ Fail(p) \/ RemoveTicket(p) \/ RemoveClaim(p) \/ Crash(p) \/ Refuse(p)
  BY <1>1 DEF Enter, Fail, RemoveTicket, RemoveClaim, Crash, Refuse, Inside
<1>2. CASE Replace(p)
  BY <1>2 DEF Replace, Inside
<1>3. GuardExclusive
  BY OneInside
<1>4. CASE Publish(p)
  BY <1>3, <1>4, LockAssumption DEF Publish, GuardExclusive
<1>5. CASE Unpublish(p)
  BY <1>3, <1>5 DEF Unpublish, Inside, GuardExclusive
<1> QED BY <1>1, <1>2, <1>4, <1>5

LEMMA StepKeeps == LockInv /\ [Next]_vars => LockInv'
<1> SUFFICES ASSUME LockInv, [Next]_vars PROVE Kept
  BY TypeKept DEF LockInv, BakeryInv, Kept
<1>1. CASE UNCHANGED vars
  BY <1>1 DEF vars, Kept, LockInv, BakeryInv, ClaimsHold, PassedStayBehind, Passed, Behind, First,
     RecordHolds, Alive
<1>2. ASSUME NEW p \in Procs, Acquire(p) \/ Release(p) PROVE Kept
  BY <1>2, MakeClaimKeeps DEF Acquire, Release
<1>3. ASSUME NEW p \in Procs,
             \/ OpenToChoose(p) \/ OpenToWait(p) \/ WriteTicket(p)
             \/ \E q \in Procs : ReadClaim(p, q)
      PROVE  Kept
  <2>1. CASE OpenToChoose(p) \/ OpenToWait(p)
    BY <2>1, OpenKeeps
  <2>2. CASE WriteTicket(p)
    BY <2>2, WriteTicketKeeps
  <2>3. CASE \E q \in Procs : ReadClaim(p, q)
    BY <2>3, ReadClaimKeeps
  <2> QED BY <1>3, <2>1, <2>2, <2>3
<1>4. ASSUME NEW p \in Procs,
             \/ Enter(p) \/ Fail(p) \/ RemoveTicket(p) \/ RemoveClaim(p) \/ Crash(p)
             \/ Replace(p) \/ Refuse(p) \/ Publish(p) \/ Unpublish(p)
      PROVE  Kept
  BY <1>4, GoKeeps, RecordKept DEF Kept
<1> QED BY <1>1, <1>2, <1>3, <1>4 DEF Next, Step

(***************************************************************************)
(* What follows.                                                            *)
(***************************************************************************)

\* The inductive invariant of the lock holds in every reachable state.
THEOREM LockCorrect == Spec => []LockInv
BY InitHolds, StepKeeps, PTL DEF Spec

\* Two living processes are never both between the last reading of the claims and the end of
\* the guarded action (lock.mjs:18), whoever died before, between or after.
THEOREM MutualExclusion == Spec => []GuardExclusive
<1>1. LockInv => GuardExclusive
  BY OneInside DEF LockInv
<1> QED BY <1>1, LockCorrect, PTL

LEMMA RegisterInit == Init => Register!Init
BY DEF Init, Register!Init, Alive

LEMMA AliveKept ==
  ASSUME TypeOK, NEW p \in Procs, NEW place \in Places \ {"dead"}, pc[p] # "dead", Go(p, place)
  PROVE  Alive' = Alive
BY DEF Go, Alive, TypeOK

\* Every step of the lock is a step of the register, or none.
LEMMA RegisterStep == LockInv /\ [Next]_vars => [Register!Next]_(Register!registerVars)
<1> SUFFICES ASSUME LockInv, [Next]_vars PROVE [Register!Next]_(Register!registerVars)
  OBVIOUS
<1> DEFINE leaving == {p \in Procs : purpose[p] = "release"}
<1> USE DEF LockInv, BakeryInv
<1>1. TypeOK
  OBVIOUS
<1>2. CASE UNCHANGED vars
  BY <1>2 DEF vars, Register!registerVars, Alive
<1>3. ASSUME NEW p \in Procs, Acquire(p) PROVE UNCHANGED <<lock, Alive, leaving>>
  <2>1. Alive' = Alive
    BY <1>1, <1>3, AliveKept DEF Acquire, MakeClaim, Places
  <2>2. leaving' = leaving
    BY <1>1, <1>3 DEF Acquire, MakeClaim, RecordHolds, Alive, TypeOK
  <2> QED BY <1>3, <2>1, <2>2 DEF Acquire, MakeClaim
<1>4. ASSUME NEW p \in Procs, Release(p) PROVE Register!Leave(p)
  <2>1. Alive' = Alive /\ p \in Alive
    BY <1>1, <1>4, AliveKept DEF Release, MakeClaim, Places, Alive
  <2>2. leaving' = leaving \union {p} /\ lock' = lock /\ p \notin leaving /\ lock = p
    BY <1>1, <1>4, <2>1 DEF Release, MakeClaim, RecordHolds, TypeOK
  <2> QED BY <2>1, <2>2 DEF Register!Leave
<1>5. ASSUME NEW p \in Procs,
             \/ OpenToChoose(p) \/ OpenToWait(p) \/ WriteTicket(p) \/ Enter(p) \/ Fail(p)
             \/ RemoveTicket(p) \/ RemoveClaim(p) \/ Refuse(p)
             \/ \E q \in Procs : ReadClaim(p, q)
      PROVE  UNCHANGED <<lock, Alive, leaving>>
  <2>1. UNCHANGED <<lock, purpose>>
    BY <1>5 DEF OpenToChoose, OpenToWait, Open, WriteTicket, Enter, Fail, RemoveTicket, RemoveClaim,
       Refuse, ReadClaim
  <2>2. pc' = pc \/ (pc[p] # "dead" /\ \E place \in Places \ {"dead"} : Go(p, place))
    BY <1>5 DEF OpenToChoose, OpenToWait, Open, WriteTicket, Enter, Fail, RemoveTicket, RemoveClaim,
       Refuse, ReadClaim, Inside, Places
  <2>3. Alive' = Alive
    BY <1>1, <2>2, AliveKept DEF Alive
  <2> QED BY <2>1, <2>3
<1>6. ASSUME NEW p \in Procs, Replace(p) PROVE Register!Forget
  <2>1. Alive' = Alive /\ UNCHANGED leaving
    BY <1>1, <1>6, AliveKept DEF Replace, Inside, Places
  <2> QED BY <1>6, <2>1 DEF Replace, Register!Forget
<1>7. ASSUME NEW p \in Procs, Publish(p) PROVE Register!Acquire(p)
  <2>1. Alive' = Alive /\ UNCHANGED leaving /\ p \in Alive
    BY <1>1, <1>7, AliveKept DEF Publish, Places, Alive
  <2> QED BY <1>7, <2>1 DEF Publish, Register!Acquire, RecordHolds
<1>8. ASSUME NEW p \in Procs, Unpublish(p)
      PROVE  Register!Forget \/ UNCHANGED <<lock, Alive, leaving>>
  <2>1. Alive' = Alive /\ UNCHANGED leaving /\ p \in leaving
    BY <1>1, <1>8, AliveKept DEF Unpublish, Inside, Places
  <2> QED BY <1>8, <2>1 DEF Unpublish, Register!Forget
<1>9. ASSUME NEW p \in Procs, Crash(p) PROVE Register!Crash(p)
  BY <1>1, <1>9 DEF Crash, Register!Crash, Alive, Go, TypeOK
<1> QED
  BY <1>2, <1>3, <1>4, <1>5, <1>6, <1>7, <1>8, <1>9 DEF Next, Step, Register!Next, Register!registerVars

\* The lock directory is the register: the record of a daemon stays until that daemon has
\* died or has itself begun its release (lock.mjs:118, 138).
THEOREM OwnerIsKept == Spec => OwnerKept
<1>1. LockInv /\ [Next]_vars => [Register!Next]_(Register!registerVars)
  BY RegisterStep
<1> QED BY <1>1, RegisterInit, LockCorrect, PTL DEF Spec, OwnerKept, Register!Spec

(***************************************************************************)
(* Setup: an inductive invariant about each command, whatever the commands  *)
(* of the other repositories, mishaps and hands do to what they share.      *)
(***************************************************************************)

Receipts == [hosts : SUBSET Hosts, pending : SUBSET Hosts, version : Nat]

SetupStages ==
    {"idle", "verify", "prepare", "record", "configure", "unbind", "unbound", "add", "check",
     "install", "installed", "dismiss", "remove", "dismissed", "reset"}

CommandType ==
    [at : SetupStages, version : Nat, saved : Receipts, installed : SUBSET Hosts, pending : SUBSET Hosts,
     todo : SUBSET Hosts, host : SUBSET Hosts]

SetupTypes ==
    /\ DOMAIN market = Hosts
    /\ plugin \in [Hosts -> Repos \union {NoRepo}]
    /\ receipt \in [Repos -> Receipts]
    /\ cmd \in [Repos -> CommandType]
    /\ torn \in [Hosts -> Repos \union {NoRepo}]
    /\ done \in [Repos -> [Hosts -> Nat]]

\* The version a receipt keeps when hosts are removed.
KeptVersion(c) == IF c.saved.version # 0 THEN c.saved.version ELSE c.version

\* What is recorded and not pending was installed by the version of the receipt or a later one.
IsTrue(saved, made) ==
    /\ saved.version = 0 => saved.hosts = {}
    /\ \A h \in saved.hosts \ saved.pending : made[h] >= saved.version

\* What is recorded of it is true, and it knows what it has installed.
KnowsItsOwn(r) ==
    LET c == cmd[r] IN
    /\ IsTrue(receipt[r], done[r])
    /\ \A h \in Hosts : plugin[h] = r => h \in receipt[r].hosts \union receipt[r].pending
    /\ \A h \in Hosts : torn[h] = r => h \in receipt[r].pending
    /\ c.at # "idle" =>
          /\ c.version # 0 /\ c.saved.version <= c.version
          /\ \A h \in Hosts : plugin[h] = r => h \in c.installed \union c.pending

\* An installation: before the receipt is written, while a host is worked on, and after it.
InstallsInOrder(r) ==
    LET c == cmd[r] IN
    /\ c.at \in {"verify", "prepare", "record", "configure", "unbind", "unbound", "add", "check", "install", "installed"} =>
          /\ \A h \in c.installed \ c.pending : done[r][h] >= c.version
          /\ c.todo \subseteq c.pending
    /\ c.at \in {"verify", "prepare", "record"} => receipt[r].pending \subseteq c.pending
    /\ c.at \in {"configure", "unbind", "unbound", "add", "check", "install"} => receipt[r].pending = c.pending
    /\ c.at \in {"unbind", "unbound", "add", "check", "install"} =>
          \E h \in c.pending \ c.todo : c.host = {h}
    /\ c.at = "installed" => receipt[r].pending \subseteq c.pending \union c.host
    /\ c.at \in {"check", "install", "installed"} => \A h \in c.host : torn[h] # r

\* A removal: before a host is removed, and between that and the receipt.
RemovesInOrder(r) ==
    LET c == cmd[r] IN
    /\ c.at \in {"dismiss", "remove", "dismissed"} =>
          \A h \in c.installed \ c.pending : done[r][h] >= KeptVersion(c)
    /\ c.at \in {"dismiss", "remove"} => receipt[r].pending \subseteq c.pending
    /\ c.at = "remove" => \E h \in Hosts : c.host = {h}
    /\ c.at = "dismissed" =>
          receipt[r].pending \subseteq c.pending \union c.host /\ c.host \cap c.installed = {}

\* What a command is about to replace is not a stranger's.
ReplacesNoStranger(r) ==
    cmd[r].at \in {"unbind", "unbound", "add"} => \A h \in cmd[r].host : market[h].repo # Stranger

Orderly(r) == KnowsItsOwn(r) /\ InstallsInOrder(r) /\ RemovesInOrder(r) /\ ReplacesNoStranger(r)

TornIsUnregistered == \A h \in Hosts : torn[h] # NoRepo => market[h] = Unregistered

SetupInv == SetupTypes /\ TornIsUnregistered /\ (\A r \in Repos : Orderly(r))

-----------------------------------------------------------------------------
\* The command of one repository takes a step, and the receipts of the others stay true.
LEMMA OthersKeepOrder ==
    ASSUME SetupInv, NEW q \in Repos, cmd'[q] = cmd[q], receipt'[q] = receipt[q], done'[q] = done[q],
           \A h \in Hosts : plugin'[h] = q => plugin[h] = q,
           \A h \in Hosts : torn'[h] = q => torn[h] = q,
           cmd[q].at \in {"unbind", "unbound", "add"} =>
               \A h \in cmd[q].host : market'[h].repo = Stranger => market[h].repo = Stranger
    PROVE  Orderly(q)'
<1>1. Orderly(q) /\ cmd[q].host \subseteq Hosts
  BY DEF SetupInv, SetupTypes, CommandType
<1>2. KnowsItsOwn(q)'
  BY <1>1 DEF Orderly, KnowsItsOwn
<1>3. InstallsInOrder(q)'
  BY <1>1 DEF Orderly, InstallsInOrder
<1>4. RemovesInOrder(q)'
  BY <1>1 DEF Orderly, RemovesInOrder, KeptVersion
<1>5. ReplacesNoStranger(q)'
  BY <1>1 DEF Orderly, ReplacesNoStranger
<1>6. QED
  BY <1>2, <1>3, <1>4, <1>5 DEF Orderly

LEMMA SetupStep ==
    ASSUME SetupInv, NEW r \in Repos, SetupTypes', TornIsUnregistered', Orderly(r)',
           \A q \in Repos \ {r} :
              /\ cmd'[q] = cmd[q] /\ receipt'[q] = receipt[q] /\ done'[q] = done[q]
              /\ \A h \in Hosts : (plugin'[h] = q => plugin[h] = q) /\ (torn'[h] = q => torn[h] = q),
           \A h \in Hosts : market'[h].repo = Stranger => market[h].repo = Stranger
    PROVE  SetupInv'
<1>1. ASSUME NEW q \in Repos \ {r} PROVE Orderly(q)'
  <2>1. cmd[q].host \subseteq Hosts
    BY DEF SetupInv, SetupTypes, CommandType
  <2>2. QED
    BY <2>1, OthersKeepOrder
<1>2. QED
  BY <1>1 DEF SetupInv

\* What a command is after a step of its own.
LEMMA CommandPut ==
    ASSUME SetupTypes, NEW r \in Repos, NEW c \in CommandType, cmd' = [cmd EXCEPT ![r] = c]
    PROVE  /\ cmd' \in [Repos -> CommandType] /\ cmd'[r] = c
           /\ \A q \in Repos \ {r} : cmd'[q] = cmd[q]
BY DEF SetupTypes

LEMMA GoesEffect ==
    ASSUME SetupTypes, NEW r \in Repos, NEW place \in SetupStages, Goes(r, place)
    PROVE  /\ cmd' \in [Repos -> CommandType]
           /\ \A q \in Repos \ {r} : cmd'[q] = cmd[q]
           /\ cmd'[r].at = place
           /\ cmd'[r].version = cmd[r].version /\ cmd'[r].saved = cmd[r].saved
           /\ cmd'[r].installed = cmd[r].installed /\ cmd'[r].pending = cmd[r].pending
           /\ cmd'[r].todo = cmd[r].todo /\ cmd'[r].host = cmd[r].host
<1> DEFINE c == [cmd[r] EXCEPT !.at = place]
<1>1. cmd[r] \in CommandType
  BY DEF SetupTypes
<1>2. /\ c \in CommandType /\ c.at = place
      /\ c.version = cmd[r].version /\ c.saved = cmd[r].saved
      /\ c.installed = cmd[r].installed /\ c.pending = cmd[r].pending
      /\ c.todo = cmd[r].todo /\ c.host = cmd[r].host
  BY <1>1 DEF CommandType
<1>3. cmd' = [cmd EXCEPT ![r] = c]
  BY DEF Goes
<1> HIDE DEF c
<1>4. QED
  BY <1>2, <1>3, CommandPut

LEMMA NoCommandTyped == NoCommand \in CommandType /\ NoCommand.at = "idle" /\ NoReceipt \in Receipts
BY DEF NoCommand, CommandType, NoReceipt, Receipts, SetupStages

\* A command that ends leaves what it has recorded.
LEMMA EndsKeeps ==
    ASSUME SetupInv, NEW r \in Repos, Ends(r), UNCHANGED <<market, plugin, receipt, torn, done>>
    PROVE  SetupInv'
<1>1. /\ cmd' \in [Repos -> CommandType] /\ cmd'[r] = NoCommand
      /\ \A q \in Repos \ {r} : cmd'[q] = cmd[q]
  BY NoCommandTyped, CommandPut DEF Ends, SetupInv
<1>2. SetupTypes' /\ TornIsUnregistered'
  BY <1>1 DEF SetupInv, SetupTypes, TornIsUnregistered
<1>3. KnowsItsOwn(r)'
  BY <1>1, NoCommandTyped DEF SetupInv, Orderly, KnowsItsOwn
<1>4. InstallsInOrder(r)' /\ RemovesInOrder(r)' /\ ReplacesNoStranger(r)'
  BY <1>1, NoCommandTyped DEF InstallsInOrder, RemovesInOrder, ReplacesNoStranger
<1>5. QED
  BY <1>1, <1>2, <1>3, <1>4, SetupStep DEF Orderly

\* A receipt that is written as a whole, over what the same repository has installed and torn.
LEMMA SavesEffect ==
    ASSUME SetupTypes, NEW r \in Repos, NEW installation \in Receipts, Saves(r, installation)
    PROVE  /\ receipt' \in [Repos -> Receipts] /\ receipt'[r] = installation
           /\ \A q \in Repos \ {r} : receipt'[q] = receipt[q]
BY DEF SetupTypes, Saves

LEMMA RecordedIs ==
    ASSUME NEW c \in CommandType, c.version # 0, c.saved.version <= c.version
    PROVE  /\ Recorded(c) \in Receipts /\ Recorded(c).hosts = c.installed /\ Recorded(c).pending = c.pending
           /\ Recorded(c).version # 0 /\ Recorded(c).version <= c.version
BY DEF CommandType, Receipts, Recorded

-----------------------------------------------------------------------------
(* The commands begin. *)

LEMMA BeginKeeps ==
    ASSUME SetupInv, NEW r \in Repos, Begin(r)
    PROVE  SetupInv'
<1>1. /\ cmd[r] = NoCommand /\ UNCHANGED <<market, plugin, receipt, torn, done>>
      /\ BeginInit(r) \/ BeginUninstall(r)
  BY DEF Begin
<1>2. /\ receipt[r] \in Receipts /\ receipt[r].hosts \subseteq Hosts /\ receipt[r].pending \subseteq Hosts
      /\ receipt[r].version \in Nat
  BY DEF SetupInv, SetupTypes, Receipts
<1>3. /\ IsTrue(receipt[r], done[r])
      /\ \A h \in Hosts : plugin[h] = r => h \in receipt[r].hosts \union receipt[r].pending
      /\ \A h \in Hosts : torn[h] = r => h \in receipt[r].pending
  BY DEF SetupInv, Orderly, KnowsItsOwn
<1>4. \A v \in Versions : v \in Nat /\ v # 0
  BY OnboardingAssumption DEF Versions
<1>5. CASE BeginInit(r)
  <2>1. PICK v \in Versions, selected \in SUBSET Hosts :
           /\ v >= receipt[r].version
           /\ cmd' = [cmd EXCEPT ![r] =
                   [at |-> "verify", version |-> v, saved |-> receipt[r],
                    installed |-> receipt[r].hosts, pending |-> ToInstall(receipt[r], v, selected),
                    todo |-> ToInstall(receipt[r], v, selected), host |-> {}]]
    BY <1>5 DEF BeginInit
  <2> DEFINE hosts == ToInstall(receipt[r], v, selected)
             c == [at |-> "verify", version |-> v, saved |-> receipt[r], installed |-> receipt[r].hosts,
                   pending |-> hosts, todo |-> hosts, host |-> {}]
  <2>2. /\ hosts \subseteq Hosts /\ receipt[r].pending \subseteq hosts
        /\ receipt[r].version # v => receipt[r].hosts \subseteq hosts
    BY <1>2 DEF ToInstall
  <2> HIDE DEF hosts
  <2>3. c \in CommandType
    BY <1>2, <1>4, <2>1, <2>2 DEF CommandType, SetupStages
  <2>4. cmd' = [cmd EXCEPT ![r] = c]
    BY <2>1 DEF hosts
  <2>5. /\ cmd' \in [Repos -> CommandType] /\ cmd'[r] = c
        /\ \A q \in Repos \ {r} : cmd'[q] = cmd[q]
    BY <2>3, <2>4, CommandPut DEF SetupInv
  <2>6. SetupTypes' /\ TornIsUnregistered'
    BY <1>1, <2>5 DEF SetupInv, SetupTypes, TornIsUnregistered
  <2>7. v # 0 /\ receipt[r].version <= v
    BY <1>2, <1>4, <2>1
  <2>8. KnowsItsOwn(r)'
    BY <1>1, <1>3, <2>2, <2>5, <2>7 DEF KnowsItsOwn
  <2>9. InstallsInOrder(r)'
    <3>1. \A h \in receipt[r].hosts \ hosts : done[r][h] >= v
      BY <1>3, <2>2 DEF IsTrue
    <3>2. QED
      BY <1>1, <2>2, <2>5, <3>1 DEF InstallsInOrder
  <2>10. RemovesInOrder(r)' /\ ReplacesNoStranger(r)'
    BY <2>5 DEF RemovesInOrder, ReplacesNoStranger
  <2>11. QED
    BY <1>1, <2>5, <2>6, <2>8, <2>9, <2>10, SetupStep DEF Orderly
<1>6. CASE BeginUninstall(r)
  <2>1. PICK v \in Versions, todo \in SUBSET Hosts, at \in {"dismiss", "reset"} :
           /\ v >= receipt[r].version
           /\ cmd' = [cmd EXCEPT ![r] =
                   [at |-> at, version |-> v, saved |-> receipt[r],
                    installed |-> receipt[r].hosts, pending |-> receipt[r].pending,
                    todo |-> todo, host |-> {}]]
    <3>1. PICK v \in Versions, selected \in SUBSET Hosts :
             LET saved == receipt[r]
                 hosts == IF selected = {} THEN saved.hosts \union saved.pending ELSE selected
             IN  /\ v >= saved.version
                 /\ cmd' = [cmd EXCEPT ![r] =
                        Onward([at |-> "", version |-> v, saved |-> saved, installed |-> saved.hosts,
                                pending |-> saved.pending, todo |-> hosts, host |-> {}], "dismiss", "reset")]
      BY <1>6 DEF BeginUninstall
    <3> DEFINE todo == IF selected = {} THEN receipt[r].hosts \union receipt[r].pending ELSE selected
               o == [at |-> "", version |-> v, saved |-> receipt[r], installed |-> receipt[r].hosts,
                     pending |-> receipt[r].pending, todo |-> todo, host |-> {}]
               at == IF todo = {} THEN "reset" ELSE "dismiss"
    <3>2. todo \in SUBSET Hosts /\ at \in {"dismiss", "reset"}
      BY <1>2
    <3> HIDE DEF todo
    <3>3. Onward(o, "dismiss", "reset") =
             [at |-> at, version |-> v, saved |-> receipt[r], installed |-> receipt[r].hosts,
              pending |-> receipt[r].pending, todo |-> todo, host |-> {}]
      BY DEF Onward
    <3>4. cmd' = [cmd EXCEPT ![r] = Onward(o, "dismiss", "reset")] /\ v >= receipt[r].version
      BY <3>1 DEF todo
    <3> HIDE DEF at, o
    <3>5. QED
      BY <3>2, <3>3, <3>4
  <2> DEFINE c == [at |-> at, version |-> v, saved |-> receipt[r], installed |-> receipt[r].hosts,
                   pending |-> receipt[r].pending, todo |-> todo, host |-> {}]
  <2>2. c \in CommandType
    BY <1>2, <1>4, <2>1 DEF CommandType, SetupStages
  <2>3. /\ cmd' \in [Repos -> CommandType] /\ cmd'[r] = c
        /\ \A q \in Repos \ {r} : cmd'[q] = cmd[q]
    BY <2>1, <2>2, CommandPut DEF SetupInv
  <2>4. SetupTypes' /\ TornIsUnregistered'
    BY <1>1, <2>3 DEF SetupInv, SetupTypes, TornIsUnregistered
  <2>5. v # 0 /\ receipt[r].version <= v
    BY <1>2, <1>4, <2>1
  <2>6. KnowsItsOwn(r)'
    BY <1>1, <1>3, <2>3, <2>5 DEF KnowsItsOwn
  <2>7. InstallsInOrder(r)' /\ ReplacesNoStranger(r)'
    BY <2>1, <2>3 DEF InstallsInOrder, ReplacesNoStranger
  <2>8. RemovesInOrder(r)'
    BY <1>1, <1>3, <2>1, <2>3 DEF RemovesInOrder, KeptVersion, IsTrue
  <2>9. QED
    BY <1>1, <2>3, <2>4, <2>6, <2>7, <2>8, SetupStep DEF Orderly
<1>7. QED
  BY <1>1, <1>5, <1>6

-----------------------------------------------------------------------------
(* An installation, step by step. *)

\* A step that only goes on.
LEMMA GoesKeeps ==
    ASSUME SetupInv, NEW r \in Repos, NEW place \in SetupStages, Goes(r, place),
           UNCHANGED <<market, plugin, receipt, torn, done>>,
           <<cmd[r].at, place>> \in {<<"verify", "prepare">>, <<"prepare", "record">>, <<"check", "install">>}
    PROVE  SetupInv'
<1>1. /\ cmd' \in [Repos -> CommandType]
      /\ \A q \in Repos \ {r} : cmd'[q] = cmd[q]
      /\ cmd'[r].at = place
      /\ cmd'[r].version = cmd[r].version /\ cmd'[r].saved = cmd[r].saved
      /\ cmd'[r].installed = cmd[r].installed /\ cmd'[r].pending = cmd[r].pending
      /\ cmd'[r].todo = cmd[r].todo /\ cmd'[r].host = cmd[r].host
  BY GoesEffect DEF SetupInv
<1>2. SetupTypes' /\ TornIsUnregistered'
  BY <1>1 DEF SetupInv, SetupTypes, TornIsUnregistered
<1>3. KnowsItsOwn(r)'
  BY <1>1 DEF SetupInv, Orderly, KnowsItsOwn
<1>4. InstallsInOrder(r)'
  BY <1>1 DEF SetupInv, Orderly, InstallsInOrder
<1>5. RemovesInOrder(r)' /\ ReplacesNoStranger(r)'
  BY <1>1 DEF RemovesInOrder, ReplacesNoStranger
<1>6. QED
  BY <1>1, <1>2, <1>3, <1>4, <1>5, SetupStep DEF Orderly

\* The receipt is written before the first host is begun, and when one has given up its old
\* registration.
LEMMA RecordsKeep ==
    ASSUME SetupInv, NEW r \in Repos, NEW place \in SetupStages, Saves(r, Recorded(cmd[r])), Goes(r, place),
           <<cmd[r].at, place>> \in {<<"record", "configure">>, <<"unbound", "add">>},
           UNCHANGED <<market, plugin, torn, done>>
    PROVE  SetupInv'
<1>1. cmd[r].at \in {"record", "unbound"}
  OBVIOUS
<1>2. /\ cmd' \in [Repos -> CommandType]
      /\ \A q \in Repos \ {r} : cmd'[q] = cmd[q]
      /\ cmd'[r].at = place
      /\ cmd'[r].version = cmd[r].version /\ cmd'[r].saved = cmd[r].saved
      /\ cmd'[r].installed = cmd[r].installed /\ cmd'[r].pending = cmd[r].pending
      /\ cmd'[r].todo = cmd[r].todo /\ cmd'[r].host = cmd[r].host
  BY GoesEffect DEF SetupInv
<1>3. /\ cmd[r] \in CommandType /\ Orderly(r)
      /\ cmd[r].version # 0 /\ cmd[r].saved.version <= cmd[r].version
  BY <1>1 DEF SetupInv, SetupTypes, Orderly, KnowsItsOwn
<1>4. /\ Recorded(cmd[r]) \in Receipts /\ Recorded(cmd[r]).hosts = cmd[r].installed
      /\ Recorded(cmd[r]).pending = cmd[r].pending
      /\ Recorded(cmd[r]).version # 0 /\ Recorded(cmd[r]).version <= cmd[r].version
  BY <1>3, RecordedIs
<1>5. /\ receipt' \in [Repos -> Receipts] /\ receipt'[r] = Recorded(cmd[r])
      /\ \A q \in Repos \ {r} : receipt'[q] = receipt[q]
  BY <1>4, SavesEffect DEF SetupInv
<1>6. SetupTypes' /\ TornIsUnregistered'
  BY <1>1, <1>2, <1>5 DEF SetupInv, SetupTypes, TornIsUnregistered
<1>7. IsTrue(receipt'[r], done'[r])
  <2>1. \A h \in cmd[r].installed \ cmd[r].pending : done[r][h] >= cmd[r].version /\ done[r][h] \in Nat
    BY <1>1, <1>3 DEF Orderly, InstallsInOrder, SetupInv, SetupTypes, CommandType
  <2>2. Recorded(cmd[r]).version \in Nat /\ cmd[r].version \in Nat
    BY <1>3, <1>4 DEF Receipts, CommandType
  <2>3. QED
    BY <1>1, <1>4, <1>5, <2>1, <2>2 DEF IsTrue
<1>8. KnowsItsOwn(r)'
  BY <1>1, <1>2, <1>3, <1>4, <1>5, <1>7 DEF Orderly, KnowsItsOwn, InstallsInOrder
<1>9. InstallsInOrder(r)'
  BY <1>1, <1>2, <1>3, <1>4, <1>5 DEF Orderly, InstallsInOrder
<1>10. RemovesInOrder(r)' /\ ReplacesNoStranger(r)'
  BY <1>1, <1>2, <1>3 DEF RemovesInOrder, ReplacesNoStranger, Orderly
<1>11. QED
  BY <1>1, <1>2, <1>5, <1>6, <1>8, <1>9, <1>10, SetupStep DEF Orderly

\* Nothing but the command changes when it takes the next host.
LEMMA ConfigureKeeps ==
    ASSUME SetupInv, NEW r \in Repos, Configure(r)
    PROVE  SetupInv'
<1>1. /\ cmd[r].at = "configure" /\ UNCHANGED <<market, plugin, packages, receipt, consent, torn, done, spent>>
      /\ cmd[r] \in CommandType /\ Orderly(r) /\ cmd[r].todo \subseteq Hosts
  BY DEF Configure, SetupInv, SetupTypes, CommandType
<1>2. CASE Ends(r)
  BY <1>1, <1>2, EndsKeeps
<1>3. CASE ~ Ends(r)
  <2>1. PICK h \in cmd[r].todo :
           /\ Verified(r, h)
           /\ cmd' = [cmd EXCEPT ![r].host = {h}, ![r].todo = @ \ {h},
                        ![r].at = IF market[h] = Root(r) THEN "install"
                                  ELSE IF market[h] = Unregistered \/ h \in InPlace THEN "add" ELSE "unbind"]
    BY <1>3 DEF Configure
  <2> DEFINE place == IF market[h] = Root(r) THEN "install"
                      ELSE IF market[h] = Unregistered \/ h \in InPlace THEN "add" ELSE "unbind"
             c == [cmd[r] EXCEPT !.host = {h}, !.todo = @ \ {h}, !.at = place]
  <2>2. place \in {"install", "add", "unbind"} /\ (place = "install" => market[h] = Root(r))
    OBVIOUS
  <2>3. cmd' = [cmd EXCEPT ![r] = c]
    <3>1. r \in DOMAIN cmd /\ cmd[r] \in CommandType
      BY <1>1 DEF SetupInv, SetupTypes
    <3> HIDE DEF place
    <3>2. cmd' = [cmd EXCEPT ![r].host = {h}, ![r].todo = @ \ {h}, ![r].at = place]
      BY <2>1 DEF place
    <3>3. QED
      BY <3>1, <3>2 DEF CommandType
  <2> HIDE DEF place
  <2>4. /\ c \in CommandType /\ c.at = place /\ c.version = cmd[r].version /\ c.saved = cmd[r].saved
        /\ c.installed = cmd[r].installed /\ c.pending = cmd[r].pending
        /\ c.todo = cmd[r].todo \ {h} /\ c.host = {h}
    <3> DEFINE a == [cmd[r] EXCEPT !.host = {h}]
               b == [a EXCEPT !.todo = cmd[r].todo \ {h}]
    <3>1. /\ a \in CommandType /\ a.version = cmd[r].version /\ a.saved = cmd[r].saved
          /\ a.installed = cmd[r].installed /\ a.pending = cmd[r].pending
          /\ a.todo = cmd[r].todo /\ a.host = {h}
      BY <1>1 DEF CommandType
    <3>2. c = [b EXCEPT !.at = place]
      BY <1>1, <3>1 DEF CommandType
    <3> HIDE DEF a, c
    <3>3. /\ b \in CommandType /\ b.version = cmd[r].version /\ b.saved = cmd[r].saved
          /\ b.installed = cmd[r].installed /\ b.pending = cmd[r].pending
          /\ b.todo = cmd[r].todo \ {h} /\ b.host = {h}
      BY <1>1, <3>1 DEF CommandType
    <3> HIDE DEF b
    <3>4. place \in SetupStages
      BY <2>2 DEF SetupStages
    <3>5. QED
      BY <3>2, <3>3, <3>4 DEF CommandType
  <2> HIDE DEF c
  <2>5. /\ cmd' \in [Repos -> CommandType] /\ cmd'[r] = c
        /\ \A q \in Repos \ {r} : cmd'[q] = cmd[q]
    BY <2>3, <2>4, CommandPut DEF SetupInv
  <2>6. SetupTypes' /\ TornIsUnregistered'
    BY <1>1, <2>5 DEF SetupInv, SetupTypes, TornIsUnregistered
  <2>7. KnowsItsOwn(r)'
    BY <1>1, <2>4, <2>5 DEF Orderly, KnowsItsOwn
  <2>8. h \in cmd[r].pending \ (cmd[r].todo \ {h})
    BY <1>1, <2>1 DEF Orderly, InstallsInOrder
  <2>9. place = "install" => torn[h] # r
    <3> SUFFICES ASSUME place = "install" PROVE torn[h] # r
      OBVIOUS
    <3>1. market[h] = Root(r)
      BY <2>2
    <3>2. market[h] # Unregistered
      BY <3>1, OnboardingAssumption DEF Root, Unregistered
    <3>3. torn[h] = NoRepo
      BY <1>1, <3>2 DEF SetupInv, TornIsUnregistered
    <3>4. QED
      BY <3>3, OnboardingAssumption
  <2>10. InstallsInOrder(r)'
    BY <1>1, <2>2, <2>4, <2>5, <2>8, <2>9 DEF Orderly, InstallsInOrder
  <2>11. market[h].repo # Stranger
    BY <2>1, OnboardingAssumption DEF Verified, Unregistered
  <2>12. RemovesInOrder(r)' /\ ReplacesNoStranger(r)'
    BY <1>1, <2>2, <2>4, <2>5, <2>11 DEF RemovesInOrder, ReplacesNoStranger
  <2>13. QED
    BY <1>1, <2>5, <2>6, <2>7, <2>10, <2>12, SetupStep DEF Orderly
<1>4. QED
  BY <1>2, <1>3

LEMMA UnbindKeeps ==
    ASSUME SetupInv, NEW r \in Repos, Unbind(r)
    PROVE  SetupInv'
<1>1. /\ cmd[r].at = "unbind" /\ UNCHANGED <<plugin, receipt, done>>
      /\ cmd[r] \in CommandType /\ Orderly(r)
  BY DEF Unbind, SetupInv, SetupTypes
<1>2. PICK h \in cmd[r].host :
         /\ market' = [market EXCEPT ![h] = Unregistered] /\ torn' = [torn EXCEPT ![h] = r]
         /\ cmd' = [cmd EXCEPT ![r].at = "unbound", ![r].installed = @ \ {h}]
  BY DEF Unbind
<1>3. cmd[r].host = {h} /\ h \in cmd[r].pending \ cmd[r].todo /\ h \in Hosts
  BY <1>1, <1>2 DEF Orderly, InstallsInOrder, CommandType
<1> DEFINE a == [cmd[r] EXCEPT !.at = "unbound"]
           c == [a EXCEPT !.installed = cmd[r].installed \ {h}]
<1>4. /\ a \in CommandType /\ a.at = "unbound" /\ a.version = cmd[r].version /\ a.saved = cmd[r].saved
      /\ a.installed = cmd[r].installed /\ a.pending = cmd[r].pending
      /\ a.todo = cmd[r].todo /\ a.host = {h}
  BY <1>1, <1>3 DEF CommandType, SetupStages
<1>5. cmd' = [cmd EXCEPT ![r] = c]
  BY <1>1, <1>2 DEF CommandType, SetupInv, SetupTypes
<1> HIDE DEF a
<1>6. /\ c \in CommandType /\ c.at = "unbound" /\ c.version = cmd[r].version /\ c.saved = cmd[r].saved
      /\ c.installed = cmd[r].installed \ {h} /\ c.pending = cmd[r].pending
      /\ c.todo = cmd[r].todo /\ c.host = {h}
  BY <1>1, <1>4 DEF CommandType
<1> HIDE DEF c
<1>7. /\ cmd' \in [Repos -> CommandType] /\ cmd'[r] = c
      /\ \A q \in Repos \ {r} : cmd'[q] = cmd[q]
  BY <1>5, <1>6, CommandPut DEF SetupInv
<1>8. SetupTypes' /\ TornIsUnregistered'
  BY <1>1, <1>2, <1>3, <1>7 DEF SetupInv, SetupTypes, TornIsUnregistered
<1>9. \A g \in Hosts : market'[g] = IF g = h THEN Unregistered ELSE market[g]
  BY <1>2 DEF SetupInv, SetupTypes
<1>10. \A g \in Hosts : torn'[g] = IF g = h THEN r ELSE torn[g]
  BY <1>2 DEF SetupInv, SetupTypes
<1>11. receipt[r].pending = cmd[r].pending
  BY <1>1 DEF Orderly, InstallsInOrder
<1>12. KnowsItsOwn(r)'
  BY <1>1, <1>3, <1>6, <1>7, <1>10, <1>11 DEF Orderly, KnowsItsOwn
<1>13. InstallsInOrder(r)'
  BY <1>1, <1>3, <1>6, <1>7 DEF Orderly, InstallsInOrder
<1>14. RemovesInOrder(r)'
  BY <1>6, <1>7 DEF RemovesInOrder
<1>15. Unregistered.repo # Stranger
  BY OnboardingAssumption DEF Unregistered
<1>16. ReplacesNoStranger(r)'
  BY <1>3, <1>6, <1>7, <1>9, <1>15 DEF ReplacesNoStranger
<1>17. QED
  BY <1>1, <1>7, <1>8, <1>9, <1>10, <1>12, <1>13, <1>14, <1>15, <1>16, SetupStep DEF Orderly

LEMMA AddKeeps ==
    ASSUME SetupInv, NEW r \in Repos, Add(r)
    PROVE  SetupInv'
<1>1. /\ cmd[r].at = "add" /\ UNCHANGED <<plugin, receipt, done>>
      /\ cmd[r] \in CommandType /\ Orderly(r)
  BY DEF Add, SetupInv, SetupTypes
<1>2. CASE Ends(r) /\ UNCHANGED <<market, torn>>
  BY <1>1, <1>2, EndsKeeps
<1>3. CASE ~ (Ends(r) /\ UNCHANGED <<market, torn>>)
  <2>1. PICK h \in cmd[r].host :
           /\ market' = [market EXCEPT ![h] = Root(r)] /\ torn' = [torn EXCEPT ![h] = NoRepo]
           /\ Goes(r, "check")
    BY <1>3 DEF Add
  <2>2. cmd[r].host = {h} /\ h \in cmd[r].pending \ cmd[r].todo /\ h \in Hosts
    BY <1>1, <2>1 DEF Orderly, InstallsInOrder, CommandType
  <2>3. /\ cmd' \in [Repos -> CommandType]
        /\ \A q \in Repos \ {r} : cmd'[q] = cmd[q]
        /\ cmd'[r].at = "check"
        /\ cmd'[r].version = cmd[r].version /\ cmd'[r].saved = cmd[r].saved
        /\ cmd'[r].installed = cmd[r].installed /\ cmd'[r].pending = cmd[r].pending
        /\ cmd'[r].todo = cmd[r].todo /\ cmd'[r].host = cmd[r].host
    BY <2>1, GoesEffect DEF SetupInv, SetupStages
  <2>4. SetupTypes' /\ TornIsUnregistered'
    BY <1>1, <2>1, <2>2, <2>3 DEF SetupInv, SetupTypes, TornIsUnregistered
  <2>5. \A g \in Hosts : market'[g] = IF g = h THEN Root(r) ELSE market[g]
    BY <2>1 DEF SetupInv, SetupTypes
  <2>6. \A g \in Hosts : torn'[g] = IF g = h THEN NoRepo ELSE torn[g]
    BY <2>1 DEF SetupInv, SetupTypes
  <2>7. Root(r).repo # Stranger /\ \A q \in Repos : q # NoRepo
    BY OnboardingAssumption DEF Root
  <2>8. KnowsItsOwn(r)'
    BY <1>1, <2>3, <2>6, <2>7 DEF Orderly, KnowsItsOwn
  <2>9. InstallsInOrder(r)'
    BY <1>1, <2>2, <2>3, <2>6, <2>7 DEF Orderly, InstallsInOrder
  <2>10. RemovesInOrder(r)' /\ ReplacesNoStranger(r)'
    BY <2>3 DEF RemovesInOrder, ReplacesNoStranger
  <2>11. \A q \in Repos \ {r} : \A g \in Hosts : torn'[g] = q => torn[g] = q
    BY <2>6, <2>7
  <2>12. QED
    BY <1>1, <2>3, <2>4, <2>5, <2>7, <2>8, <2>9, <2>10, <2>11, SetupStep DEF Orderly
<1>4. QED
  BY <1>2, <1>3

LEMMA InstallKeeps ==
    ASSUME SetupInv, NEW r \in Repos, Install(r)
    PROVE  SetupInv'
<1>1. /\ cmd[r].at = "install" /\ UNCHANGED <<market, receipt, torn>>
      /\ cmd[r] \in CommandType /\ Orderly(r)
  BY DEF Install, SetupInv, SetupTypes
<1>2. CASE Ends(r) /\ UNCHANGED <<plugin, done>>
  BY <1>1, <1>2, EndsKeeps
<1>3. CASE ~ (Ends(r) /\ UNCHANGED <<plugin, done>>)
  <2>1. PICK h \in cmd[r].host :
           /\ plugin' = [plugin EXCEPT ![h] = r] /\ done' = [done EXCEPT ![r][h] = cmd[r].version]
           /\ cmd' = [cmd EXCEPT ![r].at = "installed", ![r].installed = @ \union {h}, ![r].pending = @ \ {h}]
    BY <1>3 DEF Install
  <2>2. cmd[r].host = {h} /\ h \in cmd[r].pending \ cmd[r].todo /\ h \in Hosts
    BY <1>1, <2>1 DEF Orderly, InstallsInOrder, CommandType
  <2> DEFINE a == [cmd[r] EXCEPT !.at = "installed"]
             b == [a EXCEPT !.installed = cmd[r].installed \union {h}]
             c == [b EXCEPT !.pending = cmd[r].pending \ {h}]
  <2>3. cmd' = [cmd EXCEPT ![r] = c]
    BY <1>1, <2>1 DEF CommandType, SetupInv, SetupTypes
  <2>4. /\ a \in CommandType /\ a.at = "installed" /\ a.version = cmd[r].version /\ a.saved = cmd[r].saved
        /\ a.installed = cmd[r].installed /\ a.pending = cmd[r].pending
        /\ a.todo = cmd[r].todo /\ a.host = {h}
    BY <1>1, <2>2 DEF CommandType, SetupStages
  <2> HIDE DEF a
  <2>5. /\ b \in CommandType /\ b.at = "installed" /\ b.version = cmd[r].version /\ b.saved = cmd[r].saved
        /\ b.installed = cmd[r].installed \union {h} /\ b.pending = cmd[r].pending
        /\ b.todo = cmd[r].todo /\ b.host = {h}
    BY <1>1, <2>2, <2>4 DEF CommandType
  <2> HIDE DEF b
  <2>6. /\ c \in CommandType /\ c.at = "installed" /\ c.version = cmd[r].version /\ c.saved = cmd[r].saved
        /\ c.installed = cmd[r].installed \union {h} /\ c.pending = cmd[r].pending \ {h}
        /\ c.todo = cmd[r].todo /\ c.host = {h}
    BY <1>1, <2>5 DEF CommandType
  <2> HIDE DEF c
  <2>7. /\ cmd' \in [Repos -> CommandType] /\ cmd'[r] = c
        /\ \A q \in Repos \ {r} : cmd'[q] = cmd[q]
    BY <2>3, <2>6, CommandPut DEF SetupInv
  <2>8. /\ done' \in [Repos -> [Hosts -> Nat]]
        /\ \A q \in Repos \ {r} : done'[q] = done[q]
        /\ \A g \in Hosts : done'[r][g] = IF g = h THEN cmd[r].version ELSE done[r][g]
    <3>1. cmd[r].version \in Nat /\ done[r] \in [Hosts -> Nat] /\ done \in [Repos -> [Hosts -> Nat]]
      BY <1>1 DEF CommandType, SetupInv, SetupTypes
    <3>2. [done[r] EXCEPT ![h] = cmd[r].version] \in [Hosts -> Nat]
      BY <3>1
    <3>3. done' = [done EXCEPT ![r] = [done[r] EXCEPT ![h] = cmd[r].version]]
      BY <2>1
    <3>4. QED
      BY <3>1, <3>2, <3>3
  <2>9. \A g \in Hosts : plugin'[g] = IF g = h THEN r ELSE plugin[g]
    BY <2>1 DEF SetupInv, SetupTypes
  <2>10. SetupTypes' /\ TornIsUnregistered'
    BY <1>1, <2>1, <2>2, <2>7, <2>8 DEF SetupInv, SetupTypes, TornIsUnregistered
  <2>11. receipt[r].pending = cmd[r].pending
    BY <1>1 DEF Orderly, InstallsInOrder
  <2>12. KnowsItsOwn(r)'
    <3>1. IsTrue(receipt'[r], done'[r])
      BY <1>1, <2>2, <2>8, <2>11 DEF Orderly, KnowsItsOwn, IsTrue, SetupInv, SetupTypes, Receipts
    <3>2. QED
      BY <1>1, <2>2, <2>6, <2>7, <2>9, <2>11, <3>1 DEF Orderly, KnowsItsOwn
  <2>13. InstallsInOrder(r)'
    <3>1. \A g \in c.installed \ c.pending : done'[r][g] >= c.version
      BY <1>1, <2>2, <2>6, <2>8 DEF Orderly, InstallsInOrder, CommandType
    <3>2. QED
      BY <1>1, <2>2, <2>6, <2>7, <2>11, <3>1 DEF Orderly, InstallsInOrder
  <2>14. RemovesInOrder(r)' /\ ReplacesNoStranger(r)'
    BY <2>6, <2>7 DEF RemovesInOrder, ReplacesNoStranger
  <2>15. QED
    BY <1>1, <2>7, <2>8, <2>9, <2>10, <2>12, <2>13, <2>14, SetupStep DEF Orderly
<1>4. QED
  BY <1>2, <1>3

LEMMA InstalledKeeps ==
    ASSUME SetupInv, NEW r \in Repos, Installed(r)
    PROVE  SetupInv'
<1>1. /\ cmd[r].at = "installed" /\ Saves(r, Recorded(cmd[r])) /\ UNCHANGED <<market, plugin, torn, done>>
      /\ cmd[r] \in CommandType /\ Orderly(r)
      /\ cmd[r].version # 0 /\ cmd[r].saved.version <= cmd[r].version
  BY DEF Installed, SetupInv, SetupTypes, Orderly, KnowsItsOwn
<1> DEFINE c == IF cmd[r].todo = {} THEN NoCommand ELSE [cmd[r] EXCEPT !.at = "configure"]
<1>2. /\ c \in CommandType
      /\ \/ c.at = "idle"
         \/ /\ c.at = "configure" /\ c.version = cmd[r].version /\ c.saved = cmd[r].saved
            /\ c.installed = cmd[r].installed /\ c.pending = cmd[r].pending /\ c.todo = cmd[r].todo
  BY <1>1, NoCommandTyped DEF CommandType, SetupStages
<1>3. cmd' = [cmd EXCEPT ![r] = c]
  BY DEF Installed
<1> HIDE DEF c
<1>4. /\ cmd' \in [Repos -> CommandType] /\ cmd'[r] = c
      /\ \A q \in Repos \ {r} : cmd'[q] = cmd[q]
  BY <1>2, <1>3, CommandPut DEF SetupInv
<1>5. /\ Recorded(cmd[r]) \in Receipts /\ Recorded(cmd[r]).hosts = cmd[r].installed
      /\ Recorded(cmd[r]).pending = cmd[r].pending
      /\ Recorded(cmd[r]).version # 0 /\ Recorded(cmd[r]).version <= cmd[r].version
  BY <1>1, RecordedIs
<1>6. /\ receipt' \in [Repos -> Receipts] /\ receipt'[r] = Recorded(cmd[r])
      /\ \A q \in Repos \ {r} : receipt'[q] = receipt[q]
  BY <1>1, <1>5, SavesEffect DEF SetupInv
<1>7. SetupTypes' /\ TornIsUnregistered'
  BY <1>1, <1>4, <1>6 DEF SetupInv, SetupTypes, TornIsUnregistered
<1>8. IsTrue(receipt'[r], done'[r])
  <2>1. \A h \in cmd[r].installed \ cmd[r].pending : done[r][h] >= cmd[r].version /\ done[r][h] \in Nat
    BY <1>1 DEF Orderly, InstallsInOrder, SetupInv, SetupTypes, CommandType
  <2>2. Recorded(cmd[r]).version \in Nat /\ cmd[r].version \in Nat
    BY <1>1, <1>5 DEF Receipts, CommandType
  <2>3. QED
    BY <1>1, <1>5, <1>6, <2>1, <2>2 DEF IsTrue
<1>9. KnowsItsOwn(r)'
  <2>1. \A h \in Hosts : torn[h] = r => h \in cmd[r].pending
    BY <1>1 DEF Orderly, KnowsItsOwn, InstallsInOrder
  <2>2. QED
    BY <1>1, <1>2, <1>4, <1>5, <1>6, <1>8, <2>1 DEF Orderly, KnowsItsOwn
<1>10. InstallsInOrder(r)'
  BY <1>1, <1>2, <1>4, <1>5, <1>6 DEF Orderly, InstallsInOrder
<1>11. RemovesInOrder(r)' /\ ReplacesNoStranger(r)'
  BY <1>2, <1>4 DEF RemovesInOrder, ReplacesNoStranger
<1>12. QED
  BY <1>1, <1>4, <1>6, <1>7, <1>9, <1>10, <1>11, SetupStep DEF Orderly

-----------------------------------------------------------------------------
(* A removal, step by step. *)

LEMMA DismissKeeps ==
    ASSUME SetupInv, NEW r \in Repos, Dismiss(r)
    PROVE  SetupInv'
<1>1. /\ cmd[r].at = "dismiss" /\ UNCHANGED <<market, plugin, receipt, torn, done>>
      /\ cmd[r] \in CommandType /\ Orderly(r)
  BY DEF Dismiss, SetupInv, SetupTypes
<1>2. PICK h \in cmd[r].todo :
         LET c == [cmd[r] EXCEPT !.todo = @ \ {h}, !.host = {h}]
         IN  IF h \in c.pending \ c.installed /\ plugin[h] = NoRepo
             THEN cmd' = [cmd EXCEPT ![r] = [c EXCEPT !.at = "dismissed", !.pending = @ \ {h}]]
             ELSE cmd' = [cmd EXCEPT ![r] = [c EXCEPT !.at = "remove"]]
  BY DEF Dismiss
<1>3. h \in Hosts
  BY <1>1, <1>2 DEF CommandType
<1> DEFINE a == [cmd[r] EXCEPT !.todo = cmd[r].todo \ {h}]
           b == [a EXCEPT !.host = {h}]
           c == [b EXCEPT !.at = "dismissed"]
           d == [c EXCEPT !.pending = cmd[r].pending \ {h}]
           e == [b EXCEPT !.at = "remove"]
<1>4. /\ a \in CommandType /\ a.at = "dismiss" /\ a.version = cmd[r].version /\ a.saved = cmd[r].saved
      /\ a.installed = cmd[r].installed /\ a.pending = cmd[r].pending
  BY <1>1 DEF CommandType
<1>5. [cmd[r] EXCEPT !.todo = @ \ {h}, !.host = {h}] = b
  BY <1>1 DEF CommandType
<1> HIDE DEF a
<1>6. /\ b \in CommandType /\ b.version = cmd[r].version /\ b.saved = cmd[r].saved
      /\ b.installed = cmd[r].installed /\ b.pending = cmd[r].pending /\ b.host = {h}
  BY <1>3, <1>4 DEF CommandType
<1>7. [b EXCEPT !.at = "dismissed", !.pending = @ \ {h}] = d
  BY <1>6 DEF CommandType
<1>8. IF h \in b.pending \ b.installed /\ plugin[h] = NoRepo
      THEN cmd' = [cmd EXCEPT ![r] = d]
      ELSE cmd' = [cmd EXCEPT ![r] = e]
  BY <1>2, <1>5, <1>7
<1> HIDE DEF b
<1>9. /\ c \in CommandType /\ c.at = "dismissed" /\ c.version = cmd[r].version /\ c.saved = cmd[r].saved
      /\ c.installed = cmd[r].installed /\ c.pending = cmd[r].pending /\ c.host = {h}
  BY <1>6 DEF CommandType, SetupStages
<1>10. /\ e \in CommandType /\ e.at = "remove" /\ e.version = cmd[r].version /\ e.saved = cmd[r].saved
       /\ e.installed = cmd[r].installed /\ e.pending = cmd[r].pending /\ e.host = {h}
  BY <1>6 DEF CommandType, SetupStages
<1> HIDE DEF c, e
<1>11. /\ d \in CommandType /\ d.at = "dismissed" /\ d.version = cmd[r].version /\ d.saved = cmd[r].saved
       /\ d.installed = cmd[r].installed /\ d.pending = cmd[r].pending \ {h} /\ d.host = {h}
  BY <1>9 DEF CommandType
<1> HIDE DEF d
<1>12. CASE h \in cmd[r].pending \ cmd[r].installed /\ plugin[h] = NoRepo
  <2>1. /\ cmd' \in [Repos -> CommandType] /\ cmd'[r] = d
        /\ \A q \in Repos \ {r} : cmd'[q] = cmd[q]
    BY <1>6, <1>8, <1>11, <1>12, CommandPut DEF SetupInv
  <2>2. SetupTypes' /\ TornIsUnregistered'
    BY <1>1, <2>1 DEF SetupInv, SetupTypes, TornIsUnregistered
  <2>3. plugin[h] # r
    BY <1>12, OnboardingAssumption
  <2>4. KnowsItsOwn(r)'
    BY <1>1, <1>11, <2>1, <2>3 DEF Orderly, KnowsItsOwn
  <2>5. InstallsInOrder(r)' /\ ReplacesNoStranger(r)'
    BY <1>11, <2>1 DEF InstallsInOrder, ReplacesNoStranger
  <2>6. RemovesInOrder(r)'
    BY <1>1, <1>11, <1>12, <2>1 DEF Orderly, RemovesInOrder, KeptVersion
  <2>7. QED
    BY <1>1, <2>1, <2>2, <2>4, <2>5, <2>6, SetupStep DEF Orderly
<1>13. CASE ~ (h \in cmd[r].pending \ cmd[r].installed /\ plugin[h] = NoRepo)
  <2>1. /\ cmd' \in [Repos -> CommandType] /\ cmd'[r] = e
        /\ \A q \in Repos \ {r} : cmd'[q] = cmd[q]
    BY <1>6, <1>8, <1>10, <1>13, CommandPut DEF SetupInv
  <2>2. SetupTypes' /\ TornIsUnregistered'
    BY <1>1, <2>1 DEF SetupInv, SetupTypes, TornIsUnregistered
  <2>3. KnowsItsOwn(r)'
    BY <1>1, <1>10, <2>1 DEF Orderly, KnowsItsOwn
  <2>4. InstallsInOrder(r)' /\ ReplacesNoStranger(r)'
    BY <1>10, <2>1 DEF InstallsInOrder, ReplacesNoStranger
  <2>5. RemovesInOrder(r)'
    BY <1>1, <1>3, <1>10, <2>1 DEF Orderly, RemovesInOrder, KeptVersion
  <2>6. QED
    BY <1>1, <2>1, <2>2, <2>3, <2>4, <2>5, SetupStep DEF Orderly
<1>14. QED
  BY <1>12, <1>13

LEMMA RemoveKeeps ==
    ASSUME SetupInv, NEW r \in Repos, Remove(r)
    PROVE  SetupInv'
<1>1. /\ cmd[r].at = "remove" /\ UNCHANGED <<market, receipt, torn, done>>
      /\ cmd[r] \in CommandType /\ Orderly(r)
  BY DEF Remove, SetupInv, SetupTypes
<1>2. CASE Ends(r) /\ UNCHANGED plugin
  BY <1>1, <1>2, EndsKeeps
<1>3. CASE ~ (Ends(r) /\ UNCHANGED plugin)
  <2>1. PICK h \in cmd[r].host :
           /\ plugin' = [plugin EXCEPT ![h] = NoRepo]
           /\ cmd' = [cmd EXCEPT ![r].at = "dismissed", ![r].installed = @ \ {h}, ![r].pending = @ \ {h}]
    BY <1>3 DEF Remove
  <2>2. cmd[r].host = {h} /\ h \in Hosts
    BY <1>1, <2>1 DEF Orderly, RemovesInOrder, CommandType
  <2> DEFINE a == [cmd[r] EXCEPT !.at = "dismissed"]
             b == [a EXCEPT !.installed = cmd[r].installed \ {h}]
             c == [b EXCEPT !.pending = cmd[r].pending \ {h}]
  <2>3. cmd' = [cmd EXCEPT ![r] = c]
    BY <1>1, <2>1 DEF CommandType, SetupInv, SetupTypes
  <2>4. /\ a \in CommandType /\ a.at = "dismissed" /\ a.version = cmd[r].version /\ a.saved = cmd[r].saved
        /\ a.installed = cmd[r].installed /\ a.pending = cmd[r].pending /\ a.host = {h}
    BY <1>1, <2>2 DEF CommandType, SetupStages
  <2> HIDE DEF a
  <2>5. /\ b \in CommandType /\ b.at = "dismissed" /\ b.version = cmd[r].version /\ b.saved = cmd[r].saved
        /\ b.installed = cmd[r].installed \ {h} /\ b.pending = cmd[r].pending /\ b.host = {h}
    BY <2>4 DEF CommandType
  <2> HIDE DEF b
  <2>6. /\ c \in CommandType /\ c.at = "dismissed" /\ c.version = cmd[r].version /\ c.saved = cmd[r].saved
        /\ c.installed = cmd[r].installed \ {h} /\ c.pending = cmd[r].pending \ {h} /\ c.host = {h}
    BY <2>5 DEF CommandType
  <2> HIDE DEF c
  <2>7. /\ cmd' \in [Repos -> CommandType] /\ cmd'[r] = c
        /\ \A q \in Repos \ {r} : cmd'[q] = cmd[q]
    BY <2>3, <2>6, CommandPut DEF SetupInv
  <2>8. \A g \in Hosts : plugin'[g] = IF g = h THEN NoRepo ELSE plugin[g]
    BY <2>1 DEF SetupInv, SetupTypes
  <2>9. SetupTypes' /\ TornIsUnregistered'
    BY <1>1, <2>1, <2>2, <2>7 DEF SetupInv, SetupTypes, TornIsUnregistered
  <2>10. KnowsItsOwn(r)'
    BY <1>1, <2>6, <2>7, <2>8, OnboardingAssumption DEF Orderly, KnowsItsOwn
  <2>11. InstallsInOrder(r)' /\ ReplacesNoStranger(r)'
    BY <2>6, <2>7 DEF InstallsInOrder, ReplacesNoStranger
  <2>12. RemovesInOrder(r)'
    BY <1>1, <2>6, <2>7 DEF Orderly, RemovesInOrder, KeptVersion
  <2>13. \A q \in Repos, g \in Hosts : plugin'[g] = q => plugin[g] = q
    BY <2>8, OnboardingAssumption
  <2>14. QED
    BY <1>1, <2>7, <2>9, <2>10, <2>11, <2>12, <2>13, SetupStep DEF Orderly
<1>4. QED
  BY <1>2, <1>3

LEMMA DismissedKeeps ==
    ASSUME SetupInv, NEW r \in Repos, Dismissed(r)
    PROVE  SetupInv'
<1> DEFINE saved == [hosts |-> cmd[r].installed, pending |-> cmd[r].pending, version |-> KeptVersion(cmd[r])]
           c == Onward(cmd[r], "dismiss", "reset")
<1>1. /\ cmd[r].at = "dismissed" /\ Saves(r, saved) /\ UNCHANGED <<market, plugin>>
      /\ torn' = [h \in Hosts |-> IF h \in cmd[r].host /\ torn[h] = r THEN NoRepo ELSE torn[h]]
      /\ done' = [done EXCEPT ![r] = [h \in Hosts |-> IF h \in cmd[r].host THEN 0 ELSE @[h]]]
      /\ cmd' = [cmd EXCEPT ![r] = c]
  BY DEF Dismissed, KeptVersion
<1>2. cmd[r] \in CommandType /\ Orderly(r) /\ cmd[r].version # 0
  BY <1>1 DEF SetupInv, SetupTypes, Orderly, KnowsItsOwn
<1>3. /\ c \in CommandType /\ c.at \in {"dismiss", "reset"} /\ c.version = cmd[r].version
      /\ c.saved = cmd[r].saved /\ c.installed = cmd[r].installed /\ c.pending = cmd[r].pending
  BY <1>2 DEF Onward, CommandType, SetupStages
<1>4. /\ saved \in Receipts /\ saved.version # 0 /\ saved.version = KeptVersion(cmd[r])
      /\ saved.hosts = cmd[r].installed /\ saved.pending = cmd[r].pending
  BY <1>2 DEF CommandType, Receipts, KeptVersion
<1> HIDE DEF saved, c
<1>5. /\ cmd' \in [Repos -> CommandType] /\ cmd'[r] = c
      /\ \A q \in Repos \ {r} : cmd'[q] = cmd[q]
  BY <1>1, <1>3, CommandPut DEF SetupInv
<1>6. /\ receipt' \in [Repos -> Receipts] /\ receipt'[r] = saved
      /\ \A q \in Repos \ {r} : receipt'[q] = receipt[q]
  BY <1>1, <1>4, SavesEffect DEF SetupInv
<1>7. /\ done' \in [Repos -> [Hosts -> Nat]]
      /\ \A q \in Repos \ {r} : done'[q] = done[q]
      /\ \A h \in Hosts : done'[r][h] = IF h \in cmd[r].host THEN 0 ELSE done[r][h]
  <2> DEFINE made == [h \in Hosts |-> IF h \in cmd[r].host THEN 0 ELSE done[r][h]]
  <2>1. done \in [Repos -> [Hosts -> Nat]]
    BY DEF SetupInv, SetupTypes
  <2>2. made \in [Hosts -> Nat] /\ \A h \in Hosts : made[h] = IF h \in cmd[r].host THEN 0 ELSE done[r][h]
    BY <2>1
  <2>3. done' = [done EXCEPT ![r] = made]
    BY <1>1
  <2> HIDE DEF made
  <2>4. QED
    BY <2>1, <2>2, <2>3
<1>8. /\ torn' \in [Hosts -> Repos \union {NoRepo}]
      /\ \A h \in Hosts : torn'[h] = IF h \in cmd[r].host /\ torn[h] = r THEN NoRepo ELSE torn[h]
  BY <1>1 DEF SetupInv, SetupTypes
<1>9. SetupTypes' /\ TornIsUnregistered'
  BY <1>1, <1>5, <1>6, <1>7, <1>8 DEF SetupInv, SetupTypes, TornIsUnregistered
<1>10. /\ \A h \in cmd[r].installed \ cmd[r].pending : h \in Hosts /\ done'[r][h] >= KeptVersion(cmd[r])
       /\ \A h \in Hosts : torn'[h] = r => h \in cmd[r].pending
  <2>1. /\ cmd[r].host \cap cmd[r].installed = {} /\ cmd[r].installed \subseteq Hosts
        /\ \A h \in cmd[r].installed \ cmd[r].pending : done[r][h] >= KeptVersion(cmd[r])
        /\ receipt[r].pending \subseteq cmd[r].pending \union cmd[r].host
        /\ \A h \in Hosts : torn[h] = r => h \in receipt[r].pending
    BY <1>1, <1>2 DEF Orderly, KnowsItsOwn, RemovesInOrder, CommandType
  <2>2. QED
    BY <1>7, <1>8, <2>1, OnboardingAssumption
<1>11. KnowsItsOwn(r)'
  <2>1. IsTrue(receipt'[r], done'[r])
    BY <1>4, <1>6, <1>10 DEF IsTrue
  <2>2. QED
    BY <1>1, <1>2, <1>3, <1>4, <1>5, <1>6, <1>10, <2>1 DEF Orderly, KnowsItsOwn
<1>12. InstallsInOrder(r)' /\ ReplacesNoStranger(r)'
  BY <1>3, <1>5 DEF InstallsInOrder, ReplacesNoStranger
<1>13. RemovesInOrder(r)'
  BY <1>3, <1>4, <1>5, <1>6, <1>10 DEF RemovesInOrder, KeptVersion
<1>14. \A q \in Repos, h \in Hosts : torn'[h] = q => torn[h] = q
  BY <1>8, OnboardingAssumption
<1>15. QED
  BY <1>1, <1>5, <1>6, <1>7, <1>9, <1>11, <1>12, <1>13, <1>14, SetupStep DEF Orderly

-----------------------------------------------------------------------------
\* What is done by hand: no command is about to replace what is put there.
LEMMA EstrangeKeeps ==
    ASSUME SetupInv, NEW h \in Hosts, Estrange(h)
    PROVE  SetupInv'
<1>1. /\ market' = [market EXCEPT ![h] = [repo |-> Stranger, version |-> 0]]
      /\ torn' = [torn EXCEPT ![h] = NoRepo]
      /\ UNCHANGED <<plugin, receipt, cmd, done>>
      /\ \A r \in Repos : h \in cmd[r].host => cmd[r].at \notin {"unbind", "unbound", "add"}
  BY DEF Estrange
<1>2. /\ \A g \in Hosts : torn'[g] = IF g = h THEN NoRepo ELSE torn[g]
      /\ \A g \in Hosts : g # h => market'[g] = market[g]
      /\ torn' \in [Hosts -> Repos \union {NoRepo}] /\ DOMAIN market' = Hosts
  BY <1>1 DEF SetupInv, SetupTypes
<1>3. SetupTypes' /\ TornIsUnregistered'
  BY <1>1, <1>2 DEF SetupInv, SetupTypes, TornIsUnregistered
<1>4. ASSUME NEW q \in Repos PROVE Orderly(q)'
  <2>1. \A g \in Hosts : torn'[g] = q => torn[g] = q
    BY <1>2, OnboardingAssumption
  <2>2. cmd[q].at \in {"unbind", "unbound", "add"} =>
           \A g \in cmd[q].host : market'[g].repo = Stranger => market[g].repo = Stranger
    BY <1>1, <1>2 DEF SetupInv, SetupTypes, CommandType
  <2>3. QED
    BY <1>1, <2>1, <2>2, OthersKeepOrder
<1>5. QED
  BY <1>3, <1>4 DEF SetupInv

\* What is said of setup does not depend on packages and consent.
LEMMA NothingKeeps ==
    ASSUME SetupInv, UNCHANGED <<market, plugin, receipt, cmd, torn, done>>
    PROVE  SetupInv'
BY DEF SetupInv, SetupTypes, TornIsUnregistered, Orderly, KnowsItsOwn, InstallsInOrder, RemovesInOrder,
       KeptVersion, ReplacesNoStranger

\* The invariant of setup holds at first, when no command has run.
LEMMA SetupBegins == SetupInit => SetupInv
<1> SUFFICES ASSUME SetupInit PROVE SetupInv
  OBVIOUS
<1>1. SetupTypes
  BY NoCommandTyped DEF SetupInit, SetupTypes
<1>2. TornIsUnregistered
  BY DEF SetupInit, TornIsUnregistered
<1>3. ASSUME NEW r \in Repos PROVE Orderly(r)
  <2>1. /\ cmd[r] = NoCommand /\ receipt[r] = NoReceipt /\ NoReceipt.hosts = {}
        /\ \A h \in Hosts : plugin[h] # r /\ torn[h] # r
    BY OnboardingAssumption DEF SetupInit, NoReceipt
  <2>2. KnowsItsOwn(r)
    BY <2>1, NoCommandTyped DEF KnowsItsOwn, IsTrue
  <2>3. InstallsInOrder(r) /\ RemovesInOrder(r) /\ ReplacesNoStranger(r)
    BY <2>1, NoCommandTyped DEF InstallsInOrder, RemovesInOrder, ReplacesNoStranger
  <2>4. QED
    BY <2>2, <2>3 DEF Orderly
<1>4. QED
  BY <1>1, <1>2, <1>3 DEF SetupInv

\* Every step of a command, of a mishap and of a hand keeps it.
LEMMA SetupKept == SetupInv /\ [SetupNext]_setupVars => SetupInv'
<1> SUFFICES ASSUME SetupInv, [SetupNext]_setupVars PROVE SetupInv'
  OBVIOUS
<1>1. CASE UNCHANGED setupVars
  BY <1>1, NothingKeeps DEF setupVars
<1>2. ASSUME NEW r \in Repos, Begin(r) PROVE SetupInv'
  BY <1>2, BeginKeeps
<1>3. ASSUME NEW r \in Repos, Verify(r) PROVE SetupInv'
  <2>1. "prepare" \in SetupStages
    BY DEF SetupStages
  <2>2. QED
    BY <1>3, <2>1, GoesKeeps, EndsKeeps DEF Verify
<1>4. ASSUME NEW r \in Repos, Prepare(r) PROVE SetupInv'
  <2>1. "record" \in SetupStages
    BY DEF SetupStages
  <2>2. QED
    BY <1>4, <2>1, GoesKeeps, NothingKeeps DEF Prepare
<1>5. ASSUME NEW r \in Repos, Record(r) PROVE SetupInv'
  <2>1. "configure" \in SetupStages
    BY DEF SetupStages
  <2>2. QED
    BY <1>5, <2>1, RecordsKeep DEF Record
<1>6. ASSUME NEW r \in Repos, Configure(r) PROVE SetupInv'
  BY <1>6, ConfigureKeeps
<1>7. ASSUME NEW r \in Repos, Unbind(r) PROVE SetupInv'
  BY <1>7, UnbindKeeps
<1>8. ASSUME NEW r \in Repos, Unbound(r) PROVE SetupInv'
  <2>1. "add" \in SetupStages
    BY DEF SetupStages
  <2>2. QED
    BY <1>8, <2>1, RecordsKeep DEF Unbound
<1>9. ASSUME NEW r \in Repos, Add(r) PROVE SetupInv'
  BY <1>9, AddKeeps
<1>10. ASSUME NEW r \in Repos, Check(r) PROVE SetupInv'
  <2>1. "install" \in SetupStages
    BY DEF SetupStages
  <2>2. QED
    BY <1>10, <2>1, GoesKeeps, EndsKeeps DEF Check
<1>11. ASSUME NEW r \in Repos, Install(r) PROVE SetupInv'
  BY <1>11, InstallKeeps
<1>12. ASSUME NEW r \in Repos, Installed(r) PROVE SetupInv'
  BY <1>12, InstalledKeeps
<1>13. ASSUME NEW r \in Repos, Dismiss(r) PROVE SetupInv'
  BY <1>13, DismissKeeps
<1>14. ASSUME NEW r \in Repos, Remove(r) PROVE SetupInv'
  BY <1>14, RemoveKeeps
<1>15. ASSUME NEW r \in Repos, Dismissed(r) PROVE SetupInv'
  BY <1>15, DismissedKeeps
<1>16. ASSUME NEW r \in Repos, Reset(r) \/ Stop(r) PROVE SetupInv'
  BY <1>16, EndsKeeps DEF Reset, Stop
<1>17. ASSUME NEW r \in Repos, Delete(r) PROVE SetupInv'
  BY <1>17, NothingKeeps DEF Delete
<1>18. ASSUME NEW h \in Hosts, Estrange(h) PROVE SetupInv'
  BY <1>18, EstrangeKeeps
<1>19. QED
  BY <1>1, <1>2, <1>3, <1>4, <1>5, <1>6, <1>7, <1>8, <1>9, <1>10, <1>11, <1>12, <1>13, <1>14, <1>15,
     <1>16, <1>17, <1>18 DEF SetupNext

\* What a repository knows of its own is what is promised of all receipts.
LEMMA ReceiptsFollow == SetupInv => ReceiptsHold
<1> SUFFICES ASSUME SetupInv PROVE ReceiptsHold
  OBVIOUS
<1>1. NoOrphan /\ TornIsPending
  BY DEF SetupInv, Orderly, KnowsItsOwn, NoOrphan, TornIsPending
<1>2. CompleteIsInstalled
  <2> SUFFICES ASSUME NEW r \in Repos, NEW v \in Versions, ~ needsOnboarding(r, v),
                      NEW h \in receipt[r].hosts
               PROVE  plugin[h] # NoRepo /\ done[r][h] >= v
    BY DEF CompleteIsInstalled
  <2>1. receipt[r].pending = {} /\ receipt[r].version = v /\ plugin[h] # NoRepo
    BY DEF needsOnboarding
  <2>2. IsTrue(receipt[r], done[r])
    BY DEF SetupInv, Orderly, KnowsItsOwn
  <2>3. QED
    BY <2>1, <2>2 DEF IsTrue
<1>3. QED
  BY <1>1, <1>2 DEF ReceiptsHold

\* Of the steps that change a registration, none is about to replace a stranger's.
LEMMA StrangersStay == SetupInv /\ SetupNext => StrangersAreKept
<1> SUFFICES ASSUME SetupInv, SetupNext, NEW g \in Hosts, market[g].repo = Stranger
             PROVE  market'[g] = market[g]
  BY DEF StrangersAreKept
<1>1. CASE UNCHANGED market
  BY <1>1
<1>2. ASSUME NEW r \in Repos, Unbind(r) \/ Add(r) PROVE market'[g] = market[g]
  <2>1. /\ \E h \in cmd[r].host : UNCHANGED market \/ \E m : market' = [market EXCEPT ![h] = m]
        /\ cmd[r].at \in {"unbind", "add"}
    BY <1>2 DEF Unbind, Add
  <2>2. g \notin cmd[r].host
    BY <2>1 DEF SetupInv, Orderly, ReplacesNoStranger
  <2>3. QED
    BY <2>1, <2>2 DEF SetupInv, SetupTypes
<1>3. ASSUME NEW h \in Hosts, Estrange(h) PROVE market'[g] = market[g]
  BY <1>3 DEF Estrange, SetupInv, SetupTypes
<1>4. QED
  <2>1. UNCHANGED market \/ (\E r \in Repos : Unbind(r) \/ Add(r)) \/ \E h \in Hosts : Estrange(h)
    BY DEF SetupNext, Begin, Verify, Prepare, Record, Configure, Unbound, Check, Install, Installed, Dismiss,
           Remove, Dismissed, Reset, Stop, Delete
  <2>2. QED
    BY <1>1, <1>2, <1>3, <2>1

\* However the commands of the repositories interleave, fail and die, and whatever is deleted
\* or registered by hand: the invariant of setup holds throughout.
THEOREM SetupCorrect == SetupInit /\ [][SetupNext]_setupVars => []SetupInv
BY SetupBegins, SetupKept, PTL

\* No plugin is without a receipt, no registration is torn and forgotten, no partial upgrade
\* passes for a whole one, and no catalogue of a stranger is replaced.
THEOREM SetupIsKept == SetupInit /\ [][SetupNext]_setupVars => SetupHolds
<1>1. SetupInv /\ SetupInv' /\ [SetupNext]_setupVars => [StrangersAreKept /\ ReceiptsHold']_setupVars
  <2>1. SetupInv' => ReceiptsHold'
    BY ReceiptsFollow, PTL
  <2>2. QED
    BY <2>1, StrangersStay
<1>2. QED
  BY <1>1, SetupCorrect, PTL DEF SetupHolds
====
