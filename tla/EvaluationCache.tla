---- MODULE EvaluationCache ----
(***************************************************************************)
(* The shared and cached evaluations of the decision service                *)
(* (runtime/decisions/evaluation.mjs, createEvaluationAPI).                 *)
(*                                                                         *)
(* Requests for the same key share one evaluation job.  Each request has a  *)
(* deadline and a signal of its own; the job lives as long as one of them   *)
(* waits.  Its answer is cached for later requests.  An invalidation (the   *)
(* evidence of answers may have changed) empties the cache and abandons     *)
(* what is in flight.                                                       *)
(***************************************************************************)
EXTENDS DecisionService, Sequences, SequencesExt

CONSTANTS
    Direct,      \* evaluations without a cache context, which are submitted as they are
    Requests,    \* calls of evaluate with a cache context
    KeyOf,       \* the key of each: provider, profile, questions and cache context
    MaxEntries,  \* answers the cache holds
    MaxEpoch,    \* bounds the invalidations
    Nobody

Keys == {KeyOf[r] : r \in Requests}

ASSUME EvaluationAssumption ==
    Direct \subseteq Evaluations /\ Requests \subseteq Nat /\ MaxEntries \in Nat /\ MaxEpoch \in Nat /\ Nobody \notin Evaluations

VARIABLES
    entry,      \* the evaluation a request waits for, Nobody while it does not
    reply,      \* how it was answered
    since,      \* the epoch in which a waiting request was made
    expired,    \* waiting requests whose own deadline has passed
    shared,     \* the evaluation that a request for a key joins
    askedIn,    \* the epoch of each evaluation
    finished,   \* evaluations whose answer has been received
    cache,      \* answers kept, the least recently used first
    epoch

cacheVars == <<entry, reply, since, expired, shared, askedIn, finished, cache, epoch>>

vars == <<serviceVars, cacheVars>>

Answers == [key : Keys, askedIn : 0..MaxEpoch]

\* An accepted reply says whether it was asked before the request was made in another epoch.
Replies == {"none", "declined", "accepted", "outdated"}

TypeOK ==
    /\ ServiceTypeOK
    /\ entry \in [Requests -> Evaluations \union {Nobody}]
    /\ reply \in [Requests -> Replies]
    /\ since \in [Requests -> 0..MaxEpoch]
    /\ expired \subseteq Requests
    /\ shared \in [Keys -> Evaluations \union {Nobody}]
    /\ askedIn \in [Evaluations -> 0..MaxEpoch]
    /\ finished \subseteq Evaluations
    /\ cache \in Seq(Answers) /\ Len(cache) <= MaxEntries
    /\ epoch \in 0..MaxEpoch

Init ==
    /\ ServiceInit
    /\ entry = [r \in Requests |-> Nobody] /\ reply = [r \in Requests |-> "none"]
    /\ since = [r \in Requests |-> 0] /\ expired = {}
    /\ shared = [k \in Keys |-> Nobody] /\ askedIn = [e \in Evaluations |-> 0]
    /\ finished = {} /\ cache = <<>> /\ epoch = 0

Waiters(e) == {r \in Requests : entry[r] = e}

Subscribers == {r \in Requests : entry[r] # Nobody}

Cached(k) == {a \in ToSet(cache) : a.key = k}

\* A key is cached once.
Uncached(k) ==
    IF Cached(k) = {} THEN cache
    ELSE RemoveAt(cache, CHOOSE i \in DOMAIN cache : cache[i].key = k)

Unshared(e) == [k \in Keys |-> IF shared[k] = e THEN Nobody ELSE shared[k]]
----
(***************************************************************************)
(* evaluate                                                                 *)
(***************************************************************************)
\* The request is answered and no longer waits.
Reply(r, what) ==
    /\ reply' = [reply EXCEPT ![r] = what]
    /\ entry' = [entry EXCEPT ![r] = Nobody]
    /\ since' = [since EXCEPT ![r] = 0]
    /\ expired' = expired \ {r}

Accepted(asked, made) == IF asked >= made THEN "accepted" ELSE "outdated"

New(r) == reply[r] = "none" /\ entry[r] = Nobody

\* Requests are numbered in the order in which they are made.
IsNext(r) == New(r) /\ \A q \in Requests : q < r => ~New(q)

\* Closed, something wrong with the input, its signal, its deadline or the provider, or too
\* many subscribers.
Refuse(r) ==
    /\ IsNext(r)
    /\ Reply(r, "declined")
    /\ UNCHANGED <<serviceVars, shared, askedIn, finished, cache, epoch>>

\* A hit becomes the most recently used.
Hit(r) ==
    /\ IsNext(r) /\ ~closed
    /\ \E a \in Cached(KeyOf[r]) :
          /\ Reply(r, Accepted(a.askedIn, epoch))
          /\ cache' = Append(Uncached(a.key), a)
    /\ UNCHANGED <<serviceVars, shared, askedIn, finished, epoch>>

Subscribe(r, e) ==
    /\ IsNext(r) /\ ~closed /\ Cached(KeyOf[r]) = {}
    /\ Cardinality(Subscribers) < MaxQueue + Concurrency
    /\ entry' = [entry EXCEPT ![r] = e]
    /\ since' = [since EXCEPT ![r] = epoch]
    /\ UNCHANGED <<reply, expired, finished, cache, epoch>>

Join(r) ==
    /\ shared[KeyOf[r]] # Nobody
    /\ Subscribe(r, shared[KeyOf[r]])
    /\ UNCHANGED <<serviceVars, shared, askedIn>>

\* The first request for a key submits the evaluation, which the scheduler may refuse.
Miss(r, e) ==
    /\ shared[KeyOf[r]] = Nobody
    /\ Subscribe(r, e)
    /\ shared' = [shared EXCEPT ![KeyOf[r]] = e]
    /\ askedIn' = [askedIn EXCEPT ![e] = epoch]
    /\ Submit(e)
----
(***************************************************************************)
(* subscribe: a waiter's end, and the answer of the shared evaluation       *)
(***************************************************************************)
Kept(e) ==
    LET k == KeyOf[CHOOSE r \in Waiters(e) : TRUE]
        kept == Append(Uncached(k), [key |-> k, askedIn |-> askedIn[e]])
    IN  IF Len(kept) > MaxEntries THEN Tail(kept) ELSE kept

\* The answer is kept although it was asked before an invalidation.
MutantRemember(e) ==
    cache' = IF result[e] = "accepted" /\ ~closed /\ Waiters(e) \ expired # {} /\ MaxEntries > 0
             THEN Kept(e) ELSE cache

\* remember: an accepted answer of this epoch that someone still waits for in time.
Remember(e) ==
    cache' = IF /\ result[e] = "accepted" /\ askedIn[e] = epoch /\ ~closed
                /\ Waiters(e) \ expired # {} /\ MaxEntries > 0
             THEN Kept(e) ELSE cache

\* The promise of the shared evaluation.
Answered(e) ==
    /\ e \notin finished /\ result[e] # "none"
    /\ finished' = finished \union {e}
    /\ shared' = Unshared(e)
    /\ Remember(e)
    /\ UNCHANGED <<serviceVars, entry, reply, since, expired, askedIn, epoch>>

\* A waiter receives it, unless its own deadline passed before.
Receive(r) ==
    /\ entry[r] \in finished
    /\ Reply(r, IF result[entry[r]] = "accepted" /\ r \notin expired
                THEN Accepted(askedIn[entry[r]], since[r]) ELSE "declined")
    /\ UNCHANGED <<serviceVars, shared, askedIn, finished, cache, epoch>>

\* A waiter leaves before the answer; the last one abandons the evaluation.
Leave(r) ==
    /\ entry[r] # Nobody
    /\ Reply(r, "declined")
    /\ UNCHANGED <<askedIn, finished, cache, epoch>>
    /\ IF Waiters(entry[r]) = {r} /\ entry[r] \notin finished
       THEN shared' = Unshared(entry[r]) /\ UNCHANGED closed /\ Abort({entry[r]}, "cancelled")
       ELSE UNCHANGED <<serviceVars, shared>>

\* Its signal.
Withdraw(r) == Leave(r)

RequestDeadlinePasses(r) ==
    /\ entry[r] # Nobody /\ r \notin expired
    /\ expired' = expired \union {r}
    /\ UNCHANGED <<serviceVars, entry, reply, since, shared, askedIn, finished, cache, epoch>>

\* Its own timer.
RequestTimer(r) == r \in expired /\ Leave(r)

\* The time to live of an answer.
Expire(a) ==
    /\ cache' = Uncached(a.key)
    /\ UNCHANGED <<serviceVars, entry, reply, since, expired, shared, askedIn, finished, epoch>>

Clear ==
    cache' = <<>> /\ shared' = [k \in Keys |-> Nobody]

\* The answers kept are dropped, and the evaluations in flight aborted.
Invalidate ==
    /\ epoch < MaxEpoch
    /\ epoch' = epoch + 1
    /\ UNCHANGED <<closed, entry, reply, since, expired, askedIn, finished>>
    /\ Clear
    /\ Abort({shared[k] : k \in Keys}, "declined")

\* close of the service, then of the evaluations, which invalidates.
Close ==
    /\ CloseService
    /\ Clear
    /\ UNCHANGED <<entry, reply, since, expired, askedIn, finished, epoch>>
----
Next ==
    \/ (ServiceStep \/ \E j \in Sources \union Direct : Submit(j) \/ Cancel(j)) /\ UNCHANGED cacheVars
    \/ \E r \in Requests :
          \/ Refuse(r) \/ Hit(r) \/ Join(r) \/ \E e \in Evaluations \ Direct : Miss(r, e)
          \/ Receive(r) \/ Withdraw(r) \/ RequestDeadlinePasses(r) \/ RequestTimer(r)
    \/ \E e \in Evaluations \ Direct : Answered(e)
    \/ \E a \in ToSet(cache) : Expire(a)
    \/ Invalidate \/ Close

\* Timers fire, an abort reaches run(), and the promises of settled jobs run their callbacks;
\* the provider, core and the callers owe nothing.
\* Each of these stays possible until it happens or its job or request is settled.
Due ==
    \/ UNCHANGED cacheVars /\ \E j \in Jobs : DeadlinePasses(j) \/ DeadlineTimer(j) \/ Unwind(j)
    \/ \E e \in Evaluations \ Direct : Answered(e)
    \/ \E r \in Requests : Receive(r) \/ RequestTimer(r) \/ RequestDeadlinePasses(r)

Spec == Init /\ [][Next]_vars /\ WF_vars(Due)
----
(***************************************************************************)
(* Properties                                                               *)
(***************************************************************************)
\* No answer from before an invalidation reaches a request made after it, neither from the
\* cache nor by joining an evaluation that is in flight.
NoAnswerFromBefore == \A r \in Requests : reply[r] # "outdated"

\* An evaluation takes a place in the queue or a slot only while a request waits for it, and
\* no request that waits gets another one's cancellation.
EvaluationsHaveOwners ==
    \A e \in Evaluations \ Direct :
       /\ e \in Unsettled => Waiters(e) # {}
       /\ result[e] = "cancelled" => Waiters(e) = {}

\* Requests that share an evaluation get its answer and nothing else of each other.
EvaluationsHold == NoAnswerFromBefore /\ EvaluationsHaveOwners

\* Again and again every job is settled and has freed its slot and every request is
\* answered, whatever the provider does.
Drains == []<>(Subscribers = {} /\ \A j \in Jobs : at[j] \in {"new", "done"})
====
