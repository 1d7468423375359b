---- MODULE Daemon ----
(***************************************************************************)
(* The life of the daemons of a project: the start of a process that        *)
(* becomes the daemon or attaches to one (runtime/daemon/manager.mjs), the  *)
(* copy of the state of older versions before it (migration.mjs), what is   *)
(* restored and saved (persistence.mjs, model-persistence.mjs), and the end *)
(* (close of server.mjs).                                                   *)
(*                                                                         *)
(* The lock is taken as OwnerRegister promises it, which PublicationLock    *)
(* implements; of its guard the migration needs that nobody acquires the    *)
(* lock meanwhile.  A process starts once, so that it is its own instance.  *)
(*                                                                         *)
(* What is saved is abstracted to how recent it is: the number of the       *)
(* change it contains last; 1 is what an older version left or what a new   *)
(* daemon begins with, 0 is no file.                                        *)
(***************************************************************************)
EXTENDS Naturals

CONSTANTS
    Procs,        \* the processes that start
    NoOwner,
    Parts,        \* the files that are saved: state.json and model-state.json
    Journal,      \* the part saved at every notification; others coalesce
    Legacy,       \* the parts an older version has left
    MaxRevision,  \* bound: changes, counted from 1
    MaxFailures   \* bound: writes that fail, of each process

ASSUME DaemonAssumption ==
    /\ NoOwner \notin Procs
    /\ Journal \in Parts /\ Legacy \subseteq Parts
    /\ MaxRevision \in Nat \ {0} /\ MaxFailures \in Nat

VARIABLES
    owner, alive, leaving,  \* the lock
    guard,     \* the process that migrates, in the guard of the lock
    stage,     \* where each process is
    target,    \* the instance a process is attached to
    copies,    \* the parts a migration has yet to copy
    marker,    \* the record of a completed migration
    stored,    \* the files
    latest,    \* the number of the last change
    memory,    \* what the pipeline of a daemon holds
    unsaved,   \* modelFlush: a serialization of the model is due
    pending,   \* what a writer has been given
    writing,   \* what it has written to a temporary file
    failures

lockVars == <<owner, alive, leaving>>
migrationVars == <<guard, copies, marker>>
writerVars == <<unsaved, pending, writing, failures>>
vars == <<lockVars, migrationVars, stage, target, stored, latest, memory, writerVars>>

Register == INSTANCE OwnerRegister

Stages == {"new", "migrating", "ready", "waiting", "starting", "opening", "serving",
           "closing", "flushing", "attached", "asking", "ended"}

Revisions == 0..MaxRevision

Nothing == [f \in Parts |-> 0]

TypeOK ==
    /\ owner \in Procs \union {NoOwner} /\ alive \subseteq Procs /\ leaving \subseteq Procs
    /\ guard \in Procs \union {NoOwner} /\ copies \subseteq Parts /\ marker \in BOOLEAN
    /\ stage \in [Procs -> Stages] /\ target \in [Procs -> Procs \union {NoOwner}]
    /\ stored \in [Parts -> Revisions] /\ latest \in Revisions
    /\ memory \in [Procs -> [Parts -> Revisions]]
    /\ unsaved \in [Procs -> BOOLEAN] /\ failures \in [Procs -> 0..MaxFailures]
    /\ pending \in [Procs -> [Parts -> Revisions]] /\ writing \in [Procs -> [Parts -> Revisions]]

Init ==
    /\ Register!Init
    /\ guard = NoOwner /\ copies = {} /\ marker = FALSE
    /\ stage = [p \in Procs |-> "new"] /\ target = [p \in Procs |-> NoOwner]
    /\ stored = Nothing /\ latest = 1
    /\ memory = [p \in Procs |-> Nothing]
    /\ unsaved = [p \in Procs |-> FALSE] /\ failures = [p \in Procs |-> 0]
    /\ pending = [p \in Procs |-> Nothing] /\ writing = [p \in Procs |-> Nothing]

At(p, place) == p \in alive /\ stage[p] = place

Goes(p, place) == stage' = [stage EXCEPT ![p] = place]

Running == owner \in alive

----
(* prepareProjectState: migrateLegacyProject. *)

\* Nothing to copy, or a start that does not look for it (demo).
Skip(p) ==
    /\ At(p, "new")
    /\ Goes(p, "ready")
    /\ UNCHANGED <<lockVars, migrationVars, target, stored, latest, memory, writerVars>>

\* No daemon may run, and none starts before the guard is left.
Migrate(p) ==
    /\ At(p, "new") /\ Legacy # {} /\ ~ marker
    /\ guard = NoOwner /\ ~ Running
    /\ guard' = p /\ copies' = Legacy
    /\ Goes(p, "migrating")
    /\ UNCHANGED <<lockVars, marker, target, stored, latest, memory, writerVars>>

\* A running daemon, the guard not got in time, or files that cannot be read.
MigrationFails(p) ==
    /\ \/ At(p, "new") /\ Legacy # {} /\ ~ marker
       \/ At(p, "migrating")
    /\ guard' = (IF guard = p THEN NoOwner ELSE guard)
    /\ copies' = (IF guard = p THEN {} ELSE copies)
    /\ Goes(p, "ended")
    /\ UNCHANGED <<lockVars, marker, target, stored, latest, memory, writerVars>>

\* link does not replace a file.
Copy(p, f) ==
    /\ At(p, "migrating") /\ f \in copies
    /\ stored' = [stored EXCEPT ![f] = IF @ = 0 THEN 1 ELSE @]
    /\ copies' = copies \ {f}
    /\ UNCHANGED <<lockVars, guard, marker, stage, target, latest, memory, writerVars>>

\* The marker is written with the first file.
MutantMarkEarly(p) ==
    /\ At(p, "migrating")
    /\ marker' = TRUE
    /\ IF copies = {} THEN guard' = NoOwner /\ Goes(p, "ready") ELSE UNCHANGED <<guard, stage>>
    /\ UNCHANGED <<lockVars, copies, target, stored, latest, memory, writerVars>>

Mark(p) ==
    /\ At(p, "migrating") /\ copies = {}
    /\ marker' = TRUE /\ guard' = NoOwner
    /\ Goes(p, "ready")
    /\ UNCHANGED <<lockVars, copies, target, stored, latest, memory, writerVars>>

----
(* runForeground: attach to the daemon there is, or become it. *)

\* daemonStatus and existingLaunch; a daemon with another policy is refused,
\* and one that closes meanwhile does not answer.
Attach(p) ==
    /\ stage[p] \in {"ready", "waiting"} /\ p \in alive
    /\ At(owner, "serving")
    /\ \/ Goes(p, "attached") /\ target' = [target EXCEPT ![p] = owner]
       \/ Goes(p, "ended") /\ UNCHANGED target
    /\ UNCHANGED <<lockVars, migrationVars, stored, latest, memory, writerVars>>

\* acquireLock, between a status that found no daemon and now.
Acquire(p) ==
    /\ At(p, "ready") /\ guard = NoOwner
    /\ Register!Acquire(p)
    /\ Goes(p, "starting")
    /\ UNCHANGED <<migrationVars, target, stored, latest, memory, writerVars>>

\* already_running or daemon_busy: waitForExisting.
Refused(p) ==
    /\ At(p, "ready") /\ (Running \/ guard # NoOwner)
    /\ Goes(p, "waiting")
    /\ UNCHANGED <<lockVars, migrationVars, target, stored, latest, memory, writerVars>>

\* The worker of a start in the background ends instead; its caller finds the
\* other daemon.
WorkerRefused(p) ==
    /\ At(p, "ready") /\ (Running \/ guard # NoOwner)
    /\ Goes(p, "ended")
    /\ UNCHANGED <<lockVars, migrationVars, target, stored, latest, memory, writerVars>>

\* After eight seconds.
WaitEnds(p) ==
    /\ At(p, "waiting")
    /\ Goes(p, "ended")
    /\ UNCHANGED <<lockVars, migrationVars, target, stored, latest, memory, writerVars>>

\* The watched instance does not own the lock any more, or is dead.
Watch(p) ==
    /\ At(p, "attached") /\ ~ (owner = target[p] /\ Running)
    /\ Goes(p, "ended")
    /\ target' = [target EXCEPT ![p] = NoOwner]
    /\ UNCHANGED <<lockVars, migrationVars, stored, latest, memory, writerVars>>

\* The user interrupts an attached process: the owner still is the instance.
Interrupt(p) ==
    /\ At(p, "attached") /\ owner = target[p] /\ Running
    /\ Goes(p, "asking")
    /\ UNCHANGED <<lockVars, migrationVars, target, stored, latest, memory, writerVars>>

\* stopDaemon: a process that stops the daemon it finds.
Find(p) ==
    /\ At(p, "new") /\ At(owner, "serving")
    /\ Goes(p, "asking")
    /\ target' = [target EXCEPT ![p] = owner]
    /\ UNCHANGED <<lockVars, migrationVars, stored, latest, memory, writerVars>>

\* Whoever listens at the socket closes.
MutantAsk(p) ==
    /\ At(p, "asking")
    /\ IF At(owner, "serving")
       THEN stage' = [stage EXCEPT ![p] = "ended", ![owner] = "closing"]
       ELSE Goes(p, "ended")
    /\ unsaved' = [q \in Procs |-> unsaved[q] /\ stage'[q] # "closing"]
    /\ target' = [target EXCEPT ![p] = NoOwner]
    /\ UNCHANGED <<lockVars, migrationVars, stored, latest, memory,
                   pending, writing, failures>>

\* The request reaches who listens at the socket now: another instance refuses.
Ask(p) ==
    /\ At(p, "asking")
    /\ IF At(owner, "serving") /\ owner = target[p]
       THEN stage' = [stage EXCEPT ![p] = "ended", ![owner] = "closing"]
       ELSE Goes(p, "ended")
    /\ unsaved' = [q \in Procs |-> unsaved[q] /\ stage'[q] # "closing"]
    /\ target' = [target EXCEPT ![p] = NoOwner]
    /\ UNCHANGED <<lockVars, migrationVars, stored, latest, memory,
                   pending, writing, failures>>

----
(* startServer. *)

\* Both parts are loaded by whoever owns the lock, or begin anew.
Load(p) ==
    /\ At(p, "starting")
    /\ memory' = [memory EXCEPT ![p] = [f \in Parts |-> IF stored[f] = 0 THEN 1 ELSE stored[f]]]
    /\ Goes(p, "opening")
    /\ UNCHANGED <<lockVars, migrationVars, target, stored, latest, writerVars>>

\* notify, unless the server closes: the journal goes to its writer, and a
\* serialization of the rest is due.
Notify(p) ==
    /\ pending' = [pending EXCEPT ![p][Journal] = memory'[p][Journal]]
    /\ unsaved' = [unsaved EXCEPT ![p] = TRUE]

\* The pipeline changes.
Change(p) ==
    /\ stage[p] \in {"opening", "serving", "closing"} /\ p \in alive
    /\ latest < MaxRevision
    /\ latest' = latest + 1
    /\ memory' = [memory EXCEPT ![p] = [f \in Parts |-> latest']]
    /\ IF stage[p] = "closing" THEN UNCHANGED <<pending, unsaved>> ELSE Notify(p)
    /\ UNCHANGED <<lockVars, migrationVars, stage, target, stored, writing, failures>>

\* The timer of modelFlush.
Serialize(p) ==
    /\ p \in alive /\ unsaved[p]
    /\ unsaved' = [unsaved EXCEPT ![p] = FALSE]
    /\ pending' = [pending EXCEPT ![p] = [f \in Parts |-> IF f = Journal THEN @[f] ELSE memory[p][f]]]
    /\ UNCHANGED <<lockVars, migrationVars, stage, target, stored, latest, memory, writing, failures>>

\* The socket is open, and the start notifies once.
Open(p) ==
    /\ At(p, "opening")
    /\ Goes(p, "serving")
    /\ UNCHANGED memory /\ Notify(p)
    /\ UNCHANGED <<lockVars, migrationVars, target, stored, latest, writing, failures>>

\* A port in use or a directory that is not safe: the start closes what it has.
StartFails(p) ==
    /\ stage[p] \in {"starting", "opening"} /\ p \in alive
    /\ Goes(p, IF stage[p] = "starting" THEN "flushing" ELSE "closing")
    /\ unsaved' = [unsaved EXCEPT ![p] = FALSE]
    /\ UNCHANGED <<lockVars, migrationVars, target, stored, latest, memory, pending, writing, failures>>

----
(* The writers: one write at a time of each part, of what was given last. *)

\* The timer, or the loop that has ended a write, takes what was given.
StartWrite(p, f) ==
    /\ p \in alive /\ pending[p][f] # 0 /\ writing[p][f] = 0
    /\ writing' = [writing EXCEPT ![p][f] = pending[p][f]]
    /\ pending' = [pending EXCEPT ![p][f] = 0]
    /\ UNCHANGED <<lockVars, migrationVars, stage, target, stored, latest, memory, unsaved, failures>>

\* rename puts the file in place in one step.
Rename(p, f) ==
    /\ p \in alive /\ writing[p][f] # 0
    /\ stored' = [stored EXCEPT ![f] = writing[p][f]]
    /\ writing' = [writing EXCEPT ![p][f] = 0]
    /\ UNCHANGED <<lockVars, migrationVars, stage, target, latest, memory, unsaved, pending, failures>>

\* A write that fails is counted and not repeated.
WriteFails(p, f) ==
    /\ p \in alive /\ writing[p][f] # 0
    /\ failures[p] < MaxFailures
    /\ failures' = [failures EXCEPT ![p] = @ + 1]
    /\ writing' = [writing EXCEPT ![p][f] = 0]
    /\ UNCHANGED <<lockVars, migrationVars, stage, target, stored, latest, memory, unsaved, pending>>

----
(* close. *)

\* A signal to the daemon, or the end of the process that runs it.
Signal(p) ==
    /\ At(p, "serving")
    /\ Goes(p, "closing")
    /\ unsaved' = [unsaved EXCEPT ![p] = FALSE]
    /\ UNCHANGED <<lockVars, migrationVars, target, stored, latest, memory, pending, writing, failures>>

\* The pipeline has ended: both writers are given its last state and closed.
Schedule(p) ==
    /\ At(p, "closing")
    /\ pending' = [pending EXCEPT ![p] = memory[p]]
    /\ Goes(p, "flushing")
    /\ UNCHANGED <<lockVars, migrationVars, target, stored, latest, memory, unsaved, writing, failures>>

\* The lock is released while a write is under way.
MutantReleaseEarly(p) ==
    /\ At(p, "flushing") /\ pending[p] = Nothing
    /\ Register!Leave(p)
    /\ Goes(p, "ended")
    /\ memory' = [memory EXCEPT ![p] = Nothing]
    /\ failures' = [failures EXCEPT ![p] = 0]
    /\ UNCHANGED <<migrationVars, target, stored, latest, unsaved, pending, writing>>

\* Both writers have ended: the lock is released.
Release(p) ==
    /\ At(p, "flushing") /\ pending[p] = Nothing /\ writing[p] = Nothing
    /\ Register!Leave(p)
    /\ Goes(p, "ended")
    /\ memory' = [memory EXCEPT ![p] = Nothing]
    /\ failures' = [failures EXCEPT ![p] = 0]
    /\ UNCHANGED <<migrationVars, target, stored, latest, unsaved, pending, writing>>

\* release has removed the record, or a starter that of a dead owner.
Forget ==
    /\ Register!Forget
    /\ owner # NoOwner
    /\ UNCHANGED <<migrationVars, stage, target, stored, latest, memory, writerVars>>

\* A process dies: what it has not put in place is lost.
Crash(p) ==
    /\ stage[p] \notin {"new", "ended"}
    /\ Register!Crash(p)
    /\ guard' = (IF guard = p THEN NoOwner ELSE guard)
    /\ copies' = (IF guard = p THEN {} ELSE copies)
    /\ pending' = [pending EXCEPT ![p] = Nothing]
    /\ writing' = [writing EXCEPT ![p] = Nothing]
    /\ unsaved' = [unsaved EXCEPT ![p] = FALSE]
    /\ failures' = [failures EXCEPT ![p] = 0]
    /\ memory' = [memory EXCEPT ![p] = Nothing]
    /\ target' = [target EXCEPT ![p] = NoOwner]
    /\ Goes(p, "ended")
    /\ UNCHANGED <<marker, stored, latest>>

----
Step(p) ==
    \/ Skip(p) \/ Migrate(p) \/ MigrationFails(p) \/ Mark(p)
    \/ Attach(p) \/ Acquire(p) \/ Refused(p) \/ WorkerRefused(p) \/ WaitEnds(p)
    \/ Watch(p) \/ Interrupt(p) \/ Find(p) \/ Ask(p)
    \/ Load(p) \/ Change(p) \/ Serialize(p) \/ Open(p) \/ StartFails(p)
    \/ Signal(p) \/ Schedule(p) \/ Release(p) \/ Crash(p)
    \/ \E f \in Parts : Copy(p, f) \/ StartWrite(p, f) \/ Rename(p, f) \/ WriteFails(p, f)

Next == Forget \/ \E p \in Procs : Step(p)

Spec == Init /\ [][Next]_vars

----
(***************************************************************************)
(* What is saved never goes back, neither to an earlier change nor to what  *)
(* an older version left: whatever dies, hands over or migrates, and        *)
(* whatever write is still under way.                                       *)
(***************************************************************************)
SavedNeverBack == \A f \in Parts : stored'[f] >= stored[f]

(***************************************************************************)
(* A daemon that has closed has saved all it knew, late changes included,   *)
(* before anybody else may load it; unless a write failed.                  *)
(***************************************************************************)
SavedAtRelease ==
    \A p \in leaving' \ leaving : failures[p] = 0 =>
        \A f \in Parts : memory[p][f] # 0 => stored[f] = memory[p][f]

(***************************************************************************)
(* What a daemon knew reaches the next one, and is never undone.            *)
(***************************************************************************)
SavesHold == [][SavedNeverBack /\ SavedAtRelease]_vars

(***************************************************************************)
(* A migration that is marked as complete has a file in the place of every  *)
(* one an older version left, whoever died on the way.                      *)
(***************************************************************************)
MigratedWhole == marker => \A f \in Legacy : stored[f] # 0

(***************************************************************************)
(* A stop request closes no other instance than the one its sender was      *)
(* attached to (manager.mjs:104), even if another one has taken its place.  *)
(***************************************************************************)
StopsItsInstance ==
    [][\A p, q \in Procs :
          stage[p] = "asking" /\ stage'[p] = "ended" /\ stage[q] = "serving" /\ stage'[q] = "closing" =>
              target[p] = q]_vars
====
