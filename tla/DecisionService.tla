---- MODULE DecisionService ----
(***************************************************************************)
(* The scheduler of provider decisions (runtime/decisions/index.mjs).       *)
(*                                                                         *)
(* A job is queued, owns one of a few slots while run() works on it, and is *)
(* settled once: by its answer, its deadline, its caller, an overloaded     *)
(* provider or close.  An aborted job is settled at once; its slot is free  *)
(* only when run() has unwound.  A source job asks the provider twice, with *)
(* the core's materialization between; an evaluation asks once, and yields  *)
(* its turn to source jobs.                                                 *)
(*                                                                         *)
(* What an action does runs without interruption up to the next await on    *)
(* the provider, on core or on a timer.  Time is only what the code reads   *)
(* of it: whether a deadline has passed, and how far the cooldown has.  The *)
(* statuses without an answer are one, except a cancellation's.             *)
(***************************************************************************)
EXTENDS Naturals, FiniteSets

CONSTANTS
    Sources,      \* jobs of classify and analyze
    Evaluations,  \* jobs of evaluate
    Concurrency,
    MaxQueue,
    MaxOverloads  \* bounds how often the provider reports a cooldown

Jobs == Sources \union Evaluations

ASSUME DecisionAssumption ==
    /\ Sources \intersect Evaluations = {}
    /\ Concurrency \in Nat \ {0} /\ MaxQueue \in Nat /\ MaxOverloads \in Nat

VARIABLES
    at,       \* where each job is: in the queue, or at which await of run()
    queue,    \* jobs waiting for a slot
    behind,   \* the waiting jobs that were there before each of them
    active,   \* slots in use
    result,   \* the status a job was settled with
    late,     \* unsettled jobs whose deadline has passed
    until,    \* cooldowns reported so far: the end of the last is cooldownUntil
    past,     \* how many of them are over
    waits,    \* the end a job's own cooldown timer was set for
    wake,     \* the end pump's timer was set for, 0 without one
    closed

serviceVars == <<at, queue, behind, active, result, late, until, past, waits, wake, closed>>

\* The stages: A, then B, or P for a job with a profile; D of an evaluation.
Waiting == {"waitA", "waitB", "waitP", "waitD"}
Asking == {"askA", "askB", "askP", "askD"}
Awaiting == {"core", "materialize", "propose"} \union Waiting \union Asking

AskOf == [waitA |-> "askA", waitB |-> "askB", waitP |-> "askP", waitD |-> "askD"]

Statuses == {"none", "accepted", "declined", "cancelled"}

ServiceTypeOK ==
    /\ at \in [Jobs -> {"new", "queued", "done"} \union Awaiting]
    /\ queue \subseteq Jobs /\ behind \in [Jobs -> SUBSET Jobs]
    /\ active \in Nat
    /\ result \in [Jobs -> Statuses]
    /\ late \subseteq Jobs
    /\ until \in 0..MaxOverloads /\ past \in 0..until
    /\ waits \in [Jobs -> 0..MaxOverloads] /\ wake \in 0..MaxOverloads
    /\ closed \in BOOLEAN

ServiceInit ==
    /\ at = [j \in Jobs |-> "new"] /\ queue = {} /\ behind = [j \in Jobs |-> {}] /\ active = 0
    /\ result = [j \in Jobs |-> "none"] /\ late = {}
    /\ until = 0 /\ past = 0
    /\ waits = [j \in Jobs |-> 0] /\ wake = 0
    /\ closed = FALSE

Running == {j \in Jobs : at[j] \in Awaiting}

Unsettled == {j \in Jobs : at[j] # "new" /\ result[j] = "none"}

Cooling == past < until

Full == Cardinality(queue) >= MaxQueue /\ (active >= Concurrency \/ Cooling)
----
(***************************************************************************)
(* pump                                                                     *)
(***************************************************************************)
\* Source jobs go before evaluations, otherwise the job that has waited longer; one that is
\* queued in this step is behind those that were.
Behind(j) == IF j \in queue THEN behind[j] ELSE queue

GoesFirst(s, j) ==
    \/ s \in Sources /\ j \in Evaluations
    \/ (s \in Sources <=> j \in Sources) /\ s \in Behind(j)

\* The jobs of q a pump with this many free slots starts.
Starts(q, free) ==
    {S \in SUBSET q :
        /\ Cardinality(S) = IF free < Cardinality(q) THEN free ELSE Cardinality(q)
        /\ \A s \in S, j \in q \ S : GoesFirst(s, j)}

\* pump, over the state its caller leaves: in a cooldown it sets its timer, otherwise it
\* fills the free slots; run() looks at the deadline of a job before anything else, and a
\* settled job has no deadline.
Pump(q, used, at1, result1) ==
    LET paused == past < until' /\ q # {}
    IN  \E starts \in IF paused \/ closed' THEN {{}} ELSE Starts(q, Concurrency - used) :
        /\ queue' = q \ starts
        /\ behind' = [j \in Jobs |-> IF j \in queue' THEN Behind(j) \intersect queue' ELSE {}]
        /\ active' = used + Cardinality(starts)
        /\ at' = [j \in Jobs |-> IF j \notin starts THEN at1[j]
                                 ELSE IF j \in Sources THEN "core" ELSE "waitD"]
        /\ result' = [j \in Jobs |-> IF j \in starts \intersect late THEN "declined" ELSE result1[j]]
        /\ late' = {j \in late : result'[j] = "none"}
        /\ wake' = IF paused /\ ~closed' THEN until' ELSE 0

\* The controllers of these jobs are aborted: each that is not settled is settled at once,
\* and leaves the queue when it was still in it.
Abort(S, status) ==
    LET X == S \intersect Unsettled
        inQueue == {j \in X : at[j] = "queued"}
    IN  /\ UNCHANGED <<until, past, waits>>
        /\ Pump(queue \ inQueue, active,
                [j \in Jobs |-> IF j \in inQueue THEN "done" ELSE at[j]],
                [j \in Jobs |-> IF j \in X THEN status ELSE result[j]])
----
(***************************************************************************)
(* classify, analyze and the scheduler's part of evaluate                   *)
(***************************************************************************)
\* A full queue is refused only while every slot is taken.
MutantAdmit(j) ==
    /\ at[j] = "new" /\ ~closed
    /\ ~(Cardinality(queue) >= MaxQueue /\ active >= Concurrency)
    /\ UNCHANGED <<until, past, waits, closed>>
    /\ Pump(queue \union {j}, active, [at EXCEPT ![j] = "queued"], result)

\* A valid input for which the service is open and has room.
Admit(j) ==
    /\ at[j] = "new" /\ ~closed /\ ~Full
    /\ UNCHANGED <<until, past, waits, closed>>
    /\ Pump(queue \union {j}, active, [at EXCEPT ![j] = "queued"], result)

\* immediate: closed, full, or something wrong with the input, its signal, its deadline, its
\* candidates or the provider; nothing is queued.
Reject(j) ==
    /\ at[j] = "new"
    /\ at' = [at EXCEPT ![j] = "done"]
    /\ result' = [result EXCEPT ![j] = "declined"]
    /\ UNCHANGED <<queue, behind, active, late, until, past, waits, wake, closed>>

Submit(j) == Admit(j) \/ Reject(j)

\* The signal of the caller.
Cancel(j) ==
    /\ j \in Unsettled
    /\ UNCHANGED closed
    /\ Abort({j}, "declined")

DeadlinePasses(j) ==
    /\ j \in Unsettled \ late
    /\ late' = late \union {j}
    /\ UNCHANGED <<at, queue, behind, active, result, until, past, waits, wake, closed>>

\* The timer of the deadline, some time after it.
DeadlineTimer(j) ==
    /\ j \in Unsettled \intersect late
    /\ UNCHANGED closed
    /\ Abort({j}, "declined")

CooldownPasses ==
    /\ Cooling
    /\ past' = past + 1
    /\ UNCHANGED <<at, queue, behind, active, result, late, until, waits, wake, closed>>

WakeTimer ==
    /\ wake # 0 /\ past >= wake
    /\ UNCHANGED <<until, past, waits, closed>>
    /\ Pump(queue, active, at, result)

CloseService ==
    /\ ~closed
    /\ closed' = TRUE
    /\ Abort(Jobs, "declined")
----
(***************************************************************************)
(* run and request                                                          *)
(***************************************************************************)
\* A job at this await whose promise settles while it is not aborted.
Resumes(j, place) == at[j] = place /\ result[j] = "none"

\* check(job) finds the deadline passed before the timer did.
TooLate(j) == DeadlineTimer(j)

\* A job that was settled meanwhile is settled again.
MutantEnd(j, status) ==
    /\ waits' = [waits EXCEPT ![j] = 0]
    /\ UNCHANGED <<past, closed>>
    /\ Pump(queue, active - 1, [at EXCEPT ![j] = "done"], [result EXCEPT ![j] = status])

\* run returns or throws: the status is kept unless there is one, the slot is freed, and the
\* next job starts.
End(j, status) ==
    /\ waits' = [waits EXCEPT ![j] = 0]
    /\ UNCHANGED <<past, closed>>
    /\ Pump(queue, active - 1, [at EXCEPT ![j] = "done"],
            [result EXCEPT ![j] = IF @ = "none" THEN status ELSE @])

Finish(j, status) == j \notin late /\ UNCHANGED until /\ End(j, status)

\* The job goes on to its next await; before a request that is its wait for the cooldown.
GoOn(j, place) ==
    /\ j \notin late
    /\ at' = [at EXCEPT ![j] = place]
    /\ waits' = [waits EXCEPT ![j] = IF place \in Waiting /\ Cooling THEN until ELSE 0]
    /\ UNCHANGED <<queue, behind, active, result, late, until, past, wake, closed>>

\* The import of core, then the intake questions.
CoreLoaded(j) ==
    /\ Resumes(j, "core")
    /\ TooLate(j) \/ GoOn(j, "waitA") \/ Finish(j, "declined")

\* waitForCooldown, until no cooldown is left, and then the call of the provider.
AfterCooldown(j) ==
    /\ at[j] \in Waiting /\ result[j] = "none" /\ past >= waits[j]
    /\ TooLate(j) \/ GoOn(j, IF Cooling THEN at[j] ELSE AskOf[at[j]])

\* cooldown(retryAfterMs), which never shortens the one that is on.
Overloaded(j) ==
    /\ j \notin late
    /\ until' \in {until + 1} \union (IF Cooling THEN {until} ELSE {})
    /\ until' <= MaxOverloads
    /\ End(j, "declined")

\* The provider's answer to an evaluation, to the intake questions, or to the questions of
\* the second stage; one that does not validate fails the job.
Answer(j) ==
    /\ at[j] \in Asking /\ result[j] = "none"
    /\ \/ TooLate(j)
       \/ Overloaded(j)
       \/ Finish(j, "declined")
       \/ at[j] = "askA" /\ GoOn(j, "materialize")
       \/ at[j] \in {"askB", "askD"} /\ Finish(j, "accepted")

\* Core has materialized the approved candidates: an invalid bundle, none approved, the
\* questions of a profile, or the proposals of the second stage.
Materialized(j) ==
    /\ Resumes(j, "materialize")
    /\ \/ TooLate(j)
       \/ Finish(j, "declined")
       \/ GoOn(j, "waitP")
       \/ GoOn(j, "propose")

Proposed(j) ==
    /\ Resumes(j, "propose")
    /\ TooLate(j) \/ Finish(j, "declined") \/ GoOn(j, "waitB")

\* An aborted job leaves its slot only when the provider answers.
MutantUnwind(j) ==
    /\ at[j] \in Awaiting \ Asking /\ result[j] # "none"
    /\ UNCHANGED until
    /\ End(j, "declined")

\* withAbort has rejected the await of an aborted job, whatever the other side does.
Unwind(j) ==
    /\ at[j] \in Awaiting /\ result[j] # "none"
    /\ UNCHANGED until
    /\ End(j, "declined")

RunStep(j) ==
    CoreLoaded(j) \/ AfterCooldown(j) \/ Answer(j) \/ Materialized(j) \/ Proposed(j) \/ Unwind(j)

ServiceStep ==
    \/ \E j \in Jobs : DeadlinePasses(j) \/ DeadlineTimer(j) \/ RunStep(j)
    \/ CooldownPasses \/ WakeTimer
----
(***************************************************************************)
(* Properties                                                               *)
(***************************************************************************)
\* Slots are neither lost nor given twice, however a job ends, and no more jobs wait than the
\* queue has room for, also while a cooldown holds the queue back.
SlotsAndQueueBounded ==
    /\ active = Cardinality(Running) /\ active <= Concurrency
    /\ Cardinality(queue) <= MaxQueue

\* A job is queued exactly while nobody has settled it and no slot is its own; it is not left
\* there: every slot is taken, or pump's timer is set and will start it.
QueueIsServed ==
    /\ queue = {j \in Unsettled : at[j] = "queued"}
    /\ queue # {} => active = Concurrency \/ wake # 0

\* The discipline of the pool as one promise: bounds, exact slots, and no job left behind.
PoolDiscipline == SlotsAndQueueBounded /\ QueueIsServed

\* A provider is called only outside a cooldown, for a job that is neither settled nor past
\* its deadline; a settled job keeps its result, and none is accepted after its deadline.
CallsAndResultsInTime ==
    \A j \in Jobs :
       /\ at'[j] \in Asking /\ at[j] \notin Asking => ~Cooling /\ j \in Unsettled \ late
       /\ result[j] # "none" => result'[j] = result[j]
       /\ result'[j] = "accepted" /\ result[j] = "none" => j \notin late

InTime == [][CallsAndResultsInTime]_serviceVars
====
