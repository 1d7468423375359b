---- MODULE PublicationLock ----
(***************************************************************************)
(* The lock that makes one daemon of a project (runtime/daemon/lock.mjs).   *)
(*                                                                         *)
(* withPublicationGuard is a bakery over a directory of claims: a process   *)
(* makes its claim, reads every claim to choose a number, writes it, and    *)
(* reads every claim again until none is before its own.  A directory is    *)
(* read entry by entry while others come and go: what was there when the    *)
(* reading began is returned if it still is there; what came later may be.  *)
(*                                                                         *)
(* Inside the guard acquireLock replaces the record of a dead owner and     *)
(* release removes its own.  Any process may die between any two steps.     *)
(* The order of claim names is the order of the processes: each process     *)
(* has at most one claim at a time, and a new one at each call.             *)
(***************************************************************************)
EXTENDS Naturals, FiniteSets

CONSTANTS
    Procs,   \* the processes that may become the daemon, ordered as their claim names
    NoOwner

ASSUME LockAssumption == Procs \subseteq Nat /\ NoOwner \notin Procs

VARIABLES
    pc,      \* where each process is
    purpose, \* which call of withPublicationGuard it is in
    claim,   \* the processes with a directory in the claims directory
    ticket,  \* the number in ticket.json, 0 without one
    left,    \* entries of the directory a reading has yet to return
    high,    \* the highest number a reading has returned
    blocked, \* whether a reading has returned a claim before the own one
    lock     \* the owner named in the lock directory

vars == <<pc, purpose, claim, ticket, left, high, blocked, lock>>

Places == {"new", "claimed", "choosing", "numbered", "waiting", "inside", "replacing",
           "leaving", "running", "ended", "dead"}

\* The types; a process from its second reading on has its claim and its number.
TypeOK ==
    /\ pc \in [Procs -> Places]
    /\ purpose \in [Procs -> {"acquire", "release"}]
    /\ claim \in SUBSET Procs
    /\ ticket \in [Procs -> Nat]
    /\ left \in [Procs -> SUBSET Procs]
    /\ high \in [Procs -> Nat]
    /\ blocked \in [Procs -> BOOLEAN]
    /\ lock \in Procs \union {NoOwner}
    /\ \A p \in Procs : pc[p] \in {"numbered", "waiting", "inside", "replacing"} =>
          p \in claim /\ ticket[p] # 0

Init ==
    /\ pc = [p \in Procs |-> "new"]
    /\ purpose = [p \in Procs |-> "acquire"]
    /\ claim = {}
    /\ ticket = [p \in Procs |-> 0]
    /\ left = [p \in Procs |-> {}]
    /\ high = [p \in Procs |-> 0]
    /\ blocked = [p \in Procs |-> FALSE]
    /\ lock = NoOwner

Alive == {p \in Procs : pc[p] # "dead"}

Go(p, place) == pc' = [pc EXCEPT ![p] = place]
----
(***************************************************************************)
(* withPublicationGuard                                                     *)
(***************************************************************************)
Reading(p) == pc[p] \in {"choosing", "waiting"}

\* mkdir of the claim, which a reading that has begun returns or not.
MakeClaim(p, for) ==
    /\ claim' = claim \union {p}
    /\ purpose' = [purpose EXCEPT ![p] = for]
    /\ \E readers \in SUBSET {q \in Procs : Reading(q)} :
          left' = [q \in Procs |-> IF q \in readers THEN left[q] \union {p} ELSE left[q]]
    /\ Go(p, "claimed")
    /\ UNCHANGED <<ticket, high, blocked, lock>>

\* acquireLock, and release, which a daemon calls once.
Acquire(p) == pc[p] = "new" /\ MakeClaim(p, "acquire")

Release(p) == pc[p] = "running" /\ MakeClaim(p, "release")

\* opendir; a waiting process reads again after each reading that blocked it.
Open(p, place) ==
    /\ Go(p, place)
    /\ left' = [left EXCEPT ![p] = claim \ {p}]
    /\ blocked' = [blocked EXCEPT ![p] = FALSE]
    /\ UNCHANGED <<purpose, claim, ticket, high, lock>>

OpenToChoose(p) == pc[p] = "claimed" /\ Open(p, "choosing")

OpenToWait(p) ==
    /\ \/ pc[p] = "numbered"
       \/ pc[p] = "waiting" /\ left[p] = {} /\ blocked[p]
    /\ Open(p, "waiting")

\* A choosing peer is not waited for.
MutantIgnoresChoosing(q, p) ==
    ticket[q] # 0 /\ (ticket[q] < ticket[p] \/ (ticket[q] = ticket[p] /\ q < p))

\* A claim with no number, or one that goes first.
Before(q, p) ==
    \/ ticket[q] = 0
    \/ ticket[q] < ticket[p]
    \/ ticket[q] = ticket[p] /\ q < p

\* What a reading of a live claim is for: the number to exceed, or whether to wait.
Note(p, q) ==
    \/ /\ pc[p] = "choosing"
       /\ high' = [high EXCEPT ![p] = IF ticket[q] > @ THEN ticket[q] ELSE @]
       /\ UNCHANGED blocked
    \/ /\ pc[p] = "waiting"
       /\ blocked' = [blocked EXCEPT ![p] = @ \/ Before(q, p)]
       /\ UNCHANGED high

\* Claims of dead processes are read like any other.
MutantKeepsDead(p, q) ==
    /\ Reading(p) /\ q \in left[p]
    /\ left' = [left EXCEPT ![p] = @ \ {q}]
    /\ Note(p, q)
    /\ UNCHANGED <<pc, purpose, claim, ticket, lock>>

\* The reading returns an entry: the claim of a dead process is removed, that
\* of a live one counts.
ReadClaim(p, q) ==
    /\ Reading(p) /\ q \in left[p]
    /\ IF q \in Alive
       THEN /\ left' = [left EXCEPT ![p] = @ \ {q}]
            /\ Note(p, q)
            /\ UNCHANGED <<claim, ticket>>
       ELSE /\ claim' = claim \ {q}
            /\ ticket' = [ticket EXCEPT ![q] = 0]
            /\ left' = [r \in Procs |-> left[r] \ {q}]
            /\ UNCHANGED <<high, blocked>>
    /\ UNCHANGED <<pc, purpose, lock>>

\* All claims are read: atomicJSON puts the number in place in one step.
WriteTicket(p) ==
    /\ pc[p] = "choosing" /\ left[p] = {}
    /\ ticket' = [ticket EXCEPT ![p] = high[p] + 1]
    /\ high' = [high EXCEPT ![p] = 0]
    /\ Go(p, "numbered")
    /\ UNCHANGED <<purpose, claim, left, blocked, lock>>

\* A whole reading has found no claim before the own one.
Enter(p) ==
    /\ pc[p] = "waiting" /\ left[p] = {} /\ ~ blocked[p]
    /\ Go(p, "inside")
    /\ UNCHANGED <<purpose, claim, ticket, left, high, blocked, lock>>

\* The call fails: after two seconds of waiting, at a file it cannot read or
\* write, or at a record of the owner it does not understand.  Others cannot
\* tell at which entry a reading fails: it does so at the end.
Fail(p) ==
    /\ pc[p] \in {"choosing", "waiting", "inside", "replacing"} /\ left[p] = {}
    /\ high' = [high EXCEPT ![p] = 0]
    /\ blocked' = [blocked EXCEPT ![p] = FALSE]
    /\ Go(p, "leaving")
    /\ UNCHANGED <<purpose, claim, ticket, left, lock>>

\* rm of the claim removes ticket.json before the directory.
RemoveTicket(p) ==
    /\ pc[p] = "leaving" /\ ticket[p] # 0
    /\ ticket' = [ticket EXCEPT ![p] = 0]
    /\ UNCHANGED <<pc, purpose, claim, left, high, blocked, lock>>

\* Removal of the directory, after which the call returns, or throws.
RemoveClaim(p) ==
    /\ pc[p] = "leaving" /\ ticket[p] = 0
    /\ claim' = claim \ {p}
    /\ left' = [r \in Procs |-> left[r] \ {p}]
    /\ Go(p, IF purpose[p] = "acquire" /\ lock = p THEN "running" ELSE "ended")
    /\ UNCHANGED <<purpose, ticket, high, blocked, lock>>
----
(***************************************************************************)
(* The action inside the guard.                                             *)
(***************************************************************************)
Inside(p, for) == pc[p] = "inside" /\ purpose[p] = for

\* The record is taken over without asking whether its process lives.
MutantTakesOver(p) ==
    /\ Inside(p, "acquire")
    /\ lock' = NoOwner
    /\ Go(p, "replacing")
    /\ UNCHANGED <<purpose, claim, ticket, left, high, blocked>>

\* acquireLock removes the record of a dead owner, or fails.
Replace(p) ==
    /\ Inside(p, "acquire") /\ lock \notin Alive
    /\ lock' = NoOwner
    /\ Go(p, "replacing")
    /\ UNCHANGED <<purpose, claim, ticket, left, high, blocked>>

\* The owner lives: already_running, or daemon_busy if it does not answer.
Refuse(p) ==
    /\ Inside(p, "acquire") /\ lock \in Alive
    /\ Go(p, "leaving")
    /\ UNCHANGED <<purpose, claim, ticket, left, high, blocked, lock>>

\* rename puts the complete record in place.
Publish(p) ==
    /\ pc[p] = "replacing"
    /\ lock' = p
    /\ Go(p, "leaving")
    /\ UNCHANGED <<purpose, claim, ticket, left, high, blocked>>

\* release removes the record if it is still its own.
Unpublish(p) ==
    /\ Inside(p, "release")
    /\ lock' = IF lock = p THEN NoOwner ELSE lock
    /\ Go(p, "leaving")
    /\ UNCHANGED <<purpose, claim, ticket, left, high, blocked>>

\* A process dies, or exits; its files stay.
Crash(p) ==
    /\ p \in Alive
    /\ Go(p, "dead")
    /\ left' = [left EXCEPT ![p] = {}]
    /\ high' = [high EXCEPT ![p] = 0]
    /\ blocked' = [blocked EXCEPT ![p] = FALSE]
    /\ UNCHANGED <<purpose, claim, ticket, lock>>
----
\* What a call does on its own, except failing.
Step(p) ==
    \/ OpenToChoose(p) \/ OpenToWait(p) \/ WriteTicket(p) \/ Enter(p)
    \/ \E q \in Procs : ReadClaim(p, q)
    \/ RemoveTicket(p) \/ RemoveClaim(p)
    \/ Replace(p) \/ Refuse(p) \/ Publish(p) \/ Unpublish(p)

Next == \E p \in Procs : Acquire(p) \/ Release(p) \/ Step(p) \/ Fail(p) \/ Crash(p)

Spec == Init /\ [][Next]_vars

\* A living process goes on; a daemon need not stop, nor a call fail.
FairSpec == Spec /\ \A p \in Procs : WF_vars(Step(p))
----
(***************************************************************************)
(* Properties                                                               *)
(***************************************************************************)
\* Never two living processes between the last reading and the end of the
\* guarded action (lock.mjs:18): claims made, chosen, removed and left behind
\* by the dead in any order let one in.
GuardExclusive ==
    \A p, q \in Alive :
        pc[p] \in {"inside", "replacing"} /\ pc[q] \in {"inside", "replacing"} => p = q

\* The lock directory is the register that OwnerRegister describes: the record
\* of a living daemon is never replaced, and never removed before that daemon
\* has begun its own release, nor the record of a successor by a late release
\* (lock.mjs:118, 138).
Register == INSTANCE OwnerRegister WITH
    owner <- lock, alive <- Alive, leaving <- {p \in Procs : purpose[p] = "release"}

OwnerKept == Register!Spec

\* A claim left by a dead process, with a ticket or without, holds no call up
\* for ever, nor do calls wait for each other (lock.mjs:20): as each process
\* makes two calls at most, there come moments with none under way.
CallsEnd == []<>(\A p \in Procs : pc[p] \in {"new", "running", "ended", "dead"})
====
