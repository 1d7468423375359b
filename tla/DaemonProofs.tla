---- MODULE DaemonProofs ----
(***************************************************************************)
(* Whoever starts, migrates, closes or dies: there is one daemon at a time, *)
(* what it saves is never older than what is there, and what it knew when   *)
(* it closed is there when the next one loads it. Behind that, what a daemon *)
(* serves: the log of its diagnostics, and the reads of the model.          *)
(***************************************************************************)
EXTENDS Daemon, DiagnosticLog, ModelAccess, FiniteSetTheorems, WellFoundedInduction, TLAPS

(***************************************************************************)
(* The inductive invariant.                                                 *)
(***************************************************************************)

\* The stages of a process that has the lock.
Owning == {"starting", "opening", "serving", "closing", "flushing"}

\* Who is past "new" and not "ended" lives; who has the lock is its owner, and has not left.
OneDaemon ==
    /\ \A p \in Procs : stage[p] # "ended" => p \in alive
    /\ \A p \in Procs : stage[p] \in Owning => owner = p /\ p \notin leaving

\* A migration has the guard, which is free while a daemon runs, and has put a file in the
\* place of every one that is not left to copy.
OneMigration ==
    /\ \A p \in Procs : stage[p] = "migrating" =>
        guard = p /\ \A f \in Legacy : f \in copies \/ stored[f] # 0
    /\ guard # NoOwner => owner \notin alive

\* A process that does not have the lock has nothing to write.
OthersHaveNothing ==
    \A p \in Procs : stage[p] \notin Owning =>
        memory[p] = Nothing /\ pending[p] = Nothing /\ writing[p] = Nothing

\* What is older is further on its way: memory, writer, temporary file, file.
LaterOf(p, f) ==
    /\ memory[p][f] <= latest
    /\ pending[p][f] <= memory[p][f] /\ writing[p][f] <= memory[p][f]
    /\ memory[p][f] # 0 => stored[f] <= memory[p][f]
    /\ writing[p][f] # 0 => stored[f] <= writing[p][f]
    /\ pending[p][f] # 0 => stored[f] <= pending[p][f] /\ writing[p][f] <= pending[p][f]

LaterIsNewer ==
    /\ latest >= 1 /\ \A f \in Parts : stored[f] <= latest
    /\ \A p \in Procs, f \in Parts : LaterOf(p, f)
    /\ \A p \in Procs : stage[p] \in {"opening", "serving", "closing"} =>
        \A f \in Parts : memory[p][f] # 0
    /\ \A p \in Procs : stage[p] = "starting" => \A f \in Parts : memory[p][f] = 0

\* What a daemon that closes knew is with the writer, in the temporary file or in place.
OnItsWay(p, f) ==
    \/ pending[p][f] = memory[p][f]
    \/ pending[p][f] = 0 /\ writing[p][f] = memory[p][f]
    \/ pending[p][f] = 0 /\ writing[p][f] = 0 /\ stored[f] = memory[p][f]

FlushesAll ==
    \A p \in Procs : stage[p] = "flushing" /\ failures[p] = 0 =>
        \A f \in Parts : memory[p][f] # 0 => OnItsWay(p, f)

DaemonInv ==
    /\ TypeOK /\ OneDaemon /\ OneMigration /\ OthersHaveNothing
    /\ LaterIsNewer /\ FlushesAll /\ MigratedWhole

\* A stop request ends its sender, and may make the owner close.
LEMMA AskEffect ==
  ASSUME TypeOK, NEW p \in Procs, Ask(p)
  PROVE  /\ p \in alive /\ stage[p] = "asking" /\ stage'[p] = "ended"
         /\ stage' \in [Procs -> Stages]
         /\ \A q \in Procs \ {p} : stage'[q] = stage[q] \/ (stage[q] = "serving" /\ stage'[q] = "closing")
         /\ target' \in [Procs -> Procs \union {NoOwner}] /\ unsaved' \in [Procs -> BOOLEAN]
         /\ UNCHANGED <<lockVars, migrationVars, stored, latest, memory, pending, writing, failures>>
<1>1. p \in alive /\ stage[p] = "asking"
  BY DEF Ask, At
<1>2. CASE At(owner, "serving") /\ owner = target[p]
  <2>1. owner \in Procs /\ stage[owner] = "serving"
    BY <1>2 DEF At, TypeOK
  <2>2. stage' = [stage EXCEPT ![p] = "ended", ![owner] = "closing"]
    BY <1>2 DEF Ask
  <2> QED
    BY <1>1, <2>1, <2>2 DEF Ask, TypeOK, Stages
<1>3. CASE ~ (At(owner, "serving") /\ owner = target[p])
  BY <1>1, <1>3 DEF Ask, Goes, TypeOK, Stages
<1> QED
  BY <1>2, <1>3

\* Who starts, waits, migrates or asks does not have the lock, and writes nothing but, when it
\* migrates, the files of an older version.
Aside(p) ==
    \/ Skip(p) \/ Attach(p) \/ Refused(p) \/ WorkerRefused(p) \/ WaitEnds(p)
    \/ Watch(p) \/ Interrupt(p) \/ Find(p) \/ Ask(p)
    \/ Migrate(p) \/ MigrationFails(p) \/ Mark(p)

LEMMA AsideEffect ==
  ASSUME TypeOK, NEW p \in Procs, Aside(p)
  PROVE  /\ p \in alive /\ stage[p] \notin Owning /\ stage'[p] \notin Owning
         /\ stage' \in [Procs -> Stages]
         /\ \A q \in Procs \ {p} : stage'[q] = stage[q] \/ (stage[q] = "serving" /\ stage'[q] = "closing")
         /\ UNCHANGED <<lockVars, stored, latest, memory, pending, writing, failures>>
<1>1. CASE Skip(p) \/ Refused(p) \/ WorkerRefused(p) \/ WaitEnds(p) \/ Watch(p) \/ Interrupt(p) \/ Find(p)
  BY <1>1 DEF Skip, Refused, WorkerRefused, WaitEnds, Watch, Interrupt, Find,
              At, Goes, TypeOK, Stages, Owning, lockVars, migrationVars, writerVars
<1>2. CASE Attach(p)
  BY <1>2 DEF Attach, At, Goes, TypeOK, Stages, Owning, lockVars, migrationVars, writerVars
<1>3. CASE Migrate(p) \/ MigrationFails(p) \/ Mark(p)
  BY <1>3 DEF Migrate, MigrationFails, Mark, At, Goes, TypeOK, Stages, Owning, lockVars, migrationVars,
     writerVars
<1>4. CASE Ask(p)
  BY <1>4, AskEffect DEF Owning
<1> QED
  BY <1>1, <1>2, <1>3, <1>4 DEF Aside

\* A field of one process and one part keeps the type of the whole.
LEMMA Updated ==
  ASSUME NEW g \in [Procs -> [Parts -> Revisions]], NEW p \in Procs, NEW f \in Parts, NEW v \in Revisions
  PROVE  [g EXCEPT ![p][f] = v] \in [Procs -> [Parts -> Revisions]]
OBVIOUS

\* Every variable keeps its type.
LEMMA TypesKept == DaemonInv /\ [Next]_vars => TypeOK'
<1> SUFFICES ASSUME DaemonInv, [Next]_vars PROVE TypeOK'
  OBVIOUS
<1>i. TypeOK
  BY DEF DaemonInv
<1>0. CASE UNCHANGED vars
  BY <1>0, <1>i DEF vars, lockVars, migrationVars, writerVars, TypeOK, Stages, Revisions, Nothing
<1>1. CASE Forget
  BY <1>1, <1>i, DaemonAssumption DEF Forget, Register!Forget, migrationVars, writerVars, TypeOK, Stages,
                                      Revisions, Nothing
<1>2. ASSUME NEW p \in Procs, Skip(p)
     PROVE  TypeOK'
  BY <1>2, <1>i, DaemonAssumption DEF Skip, At, Goes, lockVars, migrationVars, writerVars, TypeOK, Stages,
                                      Revisions, Nothing
<1>3. ASSUME NEW p \in Procs, Attach(p)
     PROVE  TypeOK'
  <2>1. owner \in Procs
    BY <1>3, <1>i DEF Attach, At, TypeOK
  <2>2. stage' \in [Procs -> Stages]
    BY <1>3, <1>i DEF Attach, Goes, TypeOK, Stages
  <2>3. target' \in [Procs -> Procs \union {NoOwner}]
    BY <1>3, <1>i, <2>1 DEF Attach, TypeOK
  <2> QED
    BY <1>3, <1>i, <2>2, <2>3 DEF Attach, TypeOK, lockVars, migrationVars, writerVars
<1>4. ASSUME NEW p \in Procs, Refused(p)
     PROVE  TypeOK'
  BY <1>4, <1>i, DaemonAssumption DEF Refused, Running, At, Goes, lockVars, migrationVars, writerVars,
                                      TypeOK, Stages, Revisions, Nothing
<1>5. ASSUME NEW p \in Procs, WorkerRefused(p)
     PROVE  TypeOK'
  BY <1>5, <1>i, DaemonAssumption DEF WorkerRefused, Running, At, Goes, lockVars, migrationVars, writerVars,
                                      TypeOK, Stages, Revisions, Nothing
<1>6. ASSUME NEW p \in Procs, WaitEnds(p)
     PROVE  TypeOK'
  BY <1>6, <1>i, DaemonAssumption DEF WaitEnds, At, Goes, lockVars, migrationVars, writerVars, TypeOK,
                                      Stages, Revisions, Nothing
<1>7. ASSUME NEW p \in Procs, Watch(p)
     PROVE  TypeOK'
  BY <1>7, <1>i, DaemonAssumption DEF Watch, Running, At, Goes, lockVars, migrationVars, writerVars, TypeOK,
                                      Stages, Revisions, Nothing
<1>8. ASSUME NEW p \in Procs, Interrupt(p)
     PROVE  TypeOK'
  BY <1>8, <1>i, DaemonAssumption DEF Interrupt, Running, At, Goes, lockVars, migrationVars, writerVars,
                                      TypeOK, Stages, Revisions, Nothing
<1>9. ASSUME NEW p \in Procs, Find(p)
     PROVE  TypeOK'
  BY <1>9, <1>i, DaemonAssumption DEF Find, At, Goes, lockVars, migrationVars, writerVars, TypeOK, Stages,
                                      Revisions, Nothing
<1>10. ASSUME NEW p \in Procs, Migrate(p)
     PROVE  TypeOK'
  BY <1>10, <1>i, DaemonAssumption DEF Migrate, Running, At, Goes, lockVars, writerVars, TypeOK, Stages,
                                       Revisions, Nothing
<1>11. ASSUME NEW p \in Procs, MigrationFails(p)
     PROVE  TypeOK'
  BY <1>11, <1>i, DaemonAssumption DEF MigrationFails, At, Goes, lockVars, writerVars, TypeOK, Stages,
                                       Revisions, Nothing
<1>12. ASSUME NEW p \in Procs, Mark(p)
     PROVE  TypeOK'
  BY <1>12, <1>i, DaemonAssumption DEF Mark, At, Goes, lockVars, writerVars, TypeOK, Stages, Revisions, Nothing
<1>13. ASSUME NEW p \in Procs, Ask(p)
     PROVE  TypeOK'
  BY <1>13, <1>i, AskEffect DEF lockVars, migrationVars, TypeOK, Stages, Revisions, Nothing
<1>14. ASSUME NEW p \in Procs, Acquire(p)
     PROVE  TypeOK'
  BY <1>14, <1>i, DaemonAssumption DEF Acquire, Register!Acquire, At, Goes, migrationVars, writerVars,
                                       TypeOK, Stages, Revisions, Nothing
<1>15. ASSUME NEW p \in Procs, Release(p)
     PROVE  TypeOK'
  BY <1>15, <1>i, DaemonAssumption DEF Release, Register!Leave, At, Goes, migrationVars, TypeOK, Stages,
                                       Revisions, Nothing
<1>16. ASSUME NEW p \in Procs, Crash(p)
     PROVE  TypeOK'
  BY <1>16, <1>i, DaemonAssumption DEF Crash, Register!Crash, Goes, TypeOK, Stages, Revisions, Nothing
<1>17. ASSUME NEW p \in Procs, Load(p)
     PROVE  TypeOK'
  BY <1>17, <1>i, DaemonAssumption DEF Load, At, Goes, lockVars, migrationVars, writerVars, TypeOK, Stages,
                                       Revisions, Nothing
<1>18. ASSUME NEW p \in Procs, Open(p)
     PROVE  TypeOK'
  BY <1>18, <1>i, DaemonAssumption DEF Open, Notify, At, Goes, lockVars, migrationVars, TypeOK, Stages,
                                       Revisions, Nothing
<1>19. ASSUME NEW p \in Procs, StartFails(p)
     PROVE  TypeOK'
  BY <1>19, <1>i, DaemonAssumption DEF StartFails, Goes, lockVars, migrationVars, TypeOK, Stages, Revisions,
                                       Nothing
<1>20. ASSUME NEW p \in Procs, Signal(p)
     PROVE  TypeOK'
  BY <1>20, <1>i, DaemonAssumption DEF Signal, At, Goes, lockVars, migrationVars, TypeOK, Stages, Revisions,
                                       Nothing
<1>21. ASSUME NEW p \in Procs, Schedule(p)
     PROVE  TypeOK'
  BY <1>21, <1>i, DaemonAssumption DEF Schedule, At, Goes, lockVars, migrationVars, TypeOK, Stages,
                                       Revisions, Nothing
<1>22. ASSUME NEW p \in Procs, Change(p)
     PROVE  TypeOK'
  <2>1. latest' \in Revisions
    BY <1>22, <1>i, DaemonAssumption DEF Change, TypeOK, Revisions
  <2>2. memory' \in [Procs -> [Parts -> Revisions]]
    BY <1>22, <1>i, <2>1 DEF Change, TypeOK
  <2>3. pending' \in [Procs -> [Parts -> Revisions]]
    <3>1. memory'[p][Journal] \in Revisions
      BY <2>2, DaemonAssumption
    <3>2. pending' = pending \/ pending' = [pending EXCEPT ![p][Journal] = memory'[p][Journal]]
      BY <1>22 DEF Change, Notify
    <3>3. Journal \in Parts /\ pending \in [Procs -> [Parts -> Revisions]]
      BY <1>i, DaemonAssumption DEF TypeOK
    <3>4. [pending EXCEPT ![p][Journal] = memory'[p][Journal]] \in [Procs -> [Parts -> Revisions]]
      BY <3>1, <3>3, Updated
    <3> QED
      BY <3>2, <3>3, <3>4
  <2>4. unsaved' \in [Procs -> BOOLEAN]
    BY <1>22, <1>i DEF Change, Notify, TypeOK
  <2> QED
    BY <1>22, <1>i, <2>1, <2>2, <2>3, <2>4 DEF Change, TypeOK, lockVars, migrationVars, Revisions
<1>23. ASSUME NEW p \in Procs, Serialize(p)
     PROVE  TypeOK'
  BY <1>23, <1>i, DaemonAssumption DEF Serialize, lockVars, migrationVars, TypeOK, Stages, Revisions, Nothing
<1>24. ASSUME NEW p \in Procs, NEW f \in Parts, Copy(p, f)
     PROVE  TypeOK'
  BY <1>24, <1>i, DaemonAssumption DEF Copy, At, lockVars, writerVars, TypeOK, Stages, Revisions, Nothing
<1>25. ASSUME NEW p \in Procs, NEW f \in Parts, StartWrite(p, f)
     PROVE  TypeOK'
  BY <1>25, <1>i, DaemonAssumption DEF StartWrite, lockVars, migrationVars, TypeOK, Stages, Revisions, Nothing
<1>26. ASSUME NEW p \in Procs, NEW f \in Parts, Rename(p, f)
     PROVE  TypeOK'
  BY <1>26, <1>i, DaemonAssumption DEF Rename, lockVars, migrationVars, TypeOK, Stages, Revisions, Nothing
<1>27. ASSUME NEW p \in Procs, NEW f \in Parts, WriteFails(p, f)
     PROVE  TypeOK'
  BY <1>27, <1>i, DaemonAssumption DEF WriteFails, lockVars, migrationVars, TypeOK, Stages, Revisions, Nothing
<1> QED
  BY <1>0, <1>1, <1>2, <1>3, <1>4, <1>5, <1>6, <1>7, <1>8, <1>9, <1>10, <1>11, <1>12, <1>13, <1>14, <1>15,
     <1>16, <1>17, <1>18, <1>19, <1>20, <1>21, <1>22, <1>23, <1>24, <1>25, <1>26, <1>27 DEF
     Next, Step, Aside

\* The lock is taken when there is no owner, and its owner keeps it until it has left or died.
LEMMA OneDaemonKept == DaemonInv /\ [Next]_vars => OneDaemon'
<1> SUFFICES ASSUME DaemonInv, [Next]_vars PROVE OneDaemon'
  OBVIOUS
<1>i. TypeOK /\ OneDaemon /\ OneMigration
  BY DEF DaemonInv
<1>0. CASE UNCHANGED vars
  BY <1>0, <1>i DEF vars, lockVars, migrationVars, writerVars, TypeOK, OneDaemon, OneMigration, Owning
<1>1. CASE Forget
  BY <1>1, <1>i, DaemonAssumption DEF Forget, Register!Forget, migrationVars, writerVars, TypeOK, OneDaemon,
                                      OneMigration, Owning
<1>2. ASSUME NEW p \in Procs, Aside(p)
     PROVE  OneDaemon'
  BY <1>2, <1>i, AsideEffect DEF lockVars, TypeOK, OneDaemon, OneMigration, Owning
<1>3. ASSUME NEW p \in Procs, Acquire(p)
     PROVE  OneDaemon'
  BY <1>3, <1>i, DaemonAssumption DEF Acquire, Register!Acquire, At, Goes, migrationVars, writerVars,
                                      TypeOK, OneDaemon, OneMigration, Owning
<1>4. ASSUME NEW p \in Procs, Release(p)
     PROVE  OneDaemon'
  BY <1>4, <1>i, DaemonAssumption DEF Release, Register!Leave, At, Goes, migrationVars, TypeOK, OneDaemon,
                                      OneMigration, Owning
<1>5. ASSUME NEW p \in Procs, Crash(p)
     PROVE  OneDaemon'
  BY <1>5, <1>i, DaemonAssumption DEF Crash, Register!Crash, Goes, TypeOK, OneDaemon, OneMigration, Owning
<1>6. ASSUME NEW p \in Procs, Load(p)
     PROVE  OneDaemon'
  BY <1>6, <1>i, DaemonAssumption DEF Load, At, Goes, lockVars, migrationVars, writerVars, TypeOK,
                                      OneDaemon, OneMigration, Owning
<1>7. ASSUME NEW p \in Procs, Open(p)
     PROVE  OneDaemon'
  BY <1>7, <1>i, DaemonAssumption DEF Open, Notify, At, Goes, lockVars, migrationVars, TypeOK, OneDaemon,
                                      OneMigration, Owning
<1>8. ASSUME NEW p \in Procs, StartFails(p)
     PROVE  OneDaemon'
  BY <1>8, <1>i, DaemonAssumption DEF StartFails, Goes, lockVars, migrationVars, TypeOK, OneDaemon,
                                      OneMigration, Owning
<1>9. ASSUME NEW p \in Procs, Signal(p)
     PROVE  OneDaemon'
  BY <1>9, <1>i, DaemonAssumption DEF Signal, At, Goes, lockVars, migrationVars, TypeOK, OneDaemon,
                                      OneMigration, Owning
<1>10. ASSUME NEW p \in Procs, Schedule(p)
     PROVE  OneDaemon'
  BY <1>10, <1>i, DaemonAssumption DEF Schedule, At, Goes, lockVars, migrationVars, TypeOK, OneDaemon,
                                       OneMigration, Owning
<1>11. ASSUME NEW p \in Procs, Change(p)
     PROVE  OneDaemon'
  BY <1>11, <1>i, DaemonAssumption DEF Change, Notify, lockVars, migrationVars, TypeOK, OneDaemon,
                                       OneMigration, Owning
<1>12. ASSUME NEW p \in Procs, Serialize(p)
     PROVE  OneDaemon'
  BY <1>12, <1>i, DaemonAssumption DEF Serialize, lockVars, migrationVars, TypeOK, OneDaemon, OneMigration,
                                       Owning
<1>13. ASSUME NEW p \in Procs, NEW f \in Parts, Copy(p, f)
     PROVE  OneDaemon'
  BY <1>13, <1>i, DaemonAssumption DEF Copy, At, lockVars, writerVars, TypeOK, OneDaemon, OneMigration, Owning
<1>14. ASSUME NEW p \in Procs, NEW f \in Parts, StartWrite(p, f)
     PROVE  OneDaemon'
  BY <1>14, <1>i, DaemonAssumption DEF StartWrite, lockVars, migrationVars, TypeOK, OneDaemon, OneMigration,
                                       Owning
<1>15. ASSUME NEW p \in Procs, NEW f \in Parts, Rename(p, f)
     PROVE  OneDaemon'
  BY <1>15, <1>i, DaemonAssumption DEF Rename, lockVars, migrationVars, TypeOK, OneDaemon, OneMigration, Owning
<1>16. ASSUME NEW p \in Procs, NEW f \in Parts, WriteFails(p, f)
     PROVE  OneDaemon'
  BY <1>16, <1>i, DaemonAssumption DEF WriteFails, lockVars, migrationVars, TypeOK, OneDaemon, OneMigration,
                                       Owning
<1> QED
  BY <1>0, <1>1, <1>2, <1>3, <1>4, <1>5, <1>6, <1>7, <1>8, <1>9, <1>10, <1>11, <1>12, <1>13, <1>14, <1>15,
     <1>16 DEF
     Next, Step, Aside

\* A migration begins while nobody runs, and nobody gets the lock before it has ended.
LEMMA OneMigrationKept == DaemonInv /\ [Next]_vars => OneMigration'
<1> SUFFICES ASSUME DaemonInv, [Next]_vars PROVE OneMigration'
  OBVIOUS
<1>i. TypeOK /\ OneDaemon /\ OneMigration
  BY DEF DaemonInv
<1>0. CASE UNCHANGED vars
  BY <1>0, <1>i DEF vars, lockVars, migrationVars, writerVars, TypeOK, OneDaemon, OneMigration, Owning
<1>1. CASE Forget
  BY <1>1, <1>i, DaemonAssumption DEF Forget, Register!Forget, migrationVars, writerVars, TypeOK, OneDaemon,
                                      OneMigration, Owning
<1>2. ASSUME NEW p \in Procs,
             \/ Skip(p) \/ Attach(p) \/ Refused(p) \/ WorkerRefused(p) \/ WaitEnds(p) \/ Watch(p)
             \/ Interrupt(p) \/ Find(p)
     PROVE  OneMigration'
  BY <1>2, <1>i, DaemonAssumption DEF Skip, Attach, Refused, WorkerRefused, WaitEnds, Watch, Interrupt,
                                      Find, Running, At, Goes, lockVars, migrationVars, writerVars, TypeOK,
                                      OneDaemon, OneMigration, Owning
<1>3. ASSUME NEW p \in Procs, Migrate(p) \/ MigrationFails(p) \/ Mark(p)
     PROVE  OneMigration'
  BY <1>3, <1>i, DaemonAssumption DEF Migrate, MigrationFails, Mark, Running, At, Goes, lockVars,
                                      writerVars, TypeOK, OneDaemon, OneMigration, Owning
<1>4. ASSUME NEW p \in Procs, Ask(p)
     PROVE  OneMigration'
  <2>1. UNCHANGED <<guard, copies, stored, owner, alive>>
    BY <1>4, <1>i, AskEffect DEF lockVars, migrationVars
  <2>2. \A q \in Procs : stage'[q] = "migrating" => stage[q] = "migrating"
    BY <1>4, <1>i, AskEffect
  <2> QED
    BY <1>i, <2>1, <2>2 DEF OneMigration
<1>5. ASSUME NEW p \in Procs, Acquire(p) \/ Release(p) \/ Crash(p)
     PROVE  OneMigration'
  BY <1>5, <1>i, DaemonAssumption DEF Acquire, Release, Crash, Register!Acquire, Register!Leave,
                                      Register!Crash, At, Goes, migrationVars, writerVars, TypeOK,
                                      OneDaemon, OneMigration, Owning
<1>6. ASSUME NEW p \in Procs, Load(p) \/ Open(p) \/ StartFails(p) \/ Signal(p) \/ Schedule(p)
     PROVE  OneMigration'
  BY <1>6, <1>i, DaemonAssumption DEF Load, Open, StartFails, Signal, Schedule, Notify, At, Goes, lockVars,
                                      migrationVars, writerVars, TypeOK, OneDaemon, OneMigration, Owning
<1>7. ASSUME NEW p \in Procs, Change(p) \/ Serialize(p)
     PROVE  OneMigration'
  BY <1>7, <1>i, DaemonAssumption DEF Change, Serialize, Notify, lockVars, migrationVars, TypeOK, OneDaemon,
                                      OneMigration, Owning
<1>8. ASSUME NEW p \in Procs, NEW f \in Parts, Copy(p, f)
     PROVE  OneMigration'
  BY <1>8, <1>i, DaemonAssumption DEF Copy, At, lockVars, writerVars, TypeOK, OneDaemon, OneMigration, Owning
<1>9. ASSUME NEW p \in Procs, NEW f \in Parts, StartWrite(p, f)
     PROVE  OneMigration'
  BY <1>9, <1>i, DaemonAssumption DEF StartWrite, lockVars, migrationVars, TypeOK, OneDaemon, OneMigration,
                                      Owning
<1>10. ASSUME NEW p \in Procs, NEW f \in Parts, Rename(p, f)
     PROVE  OneMigration'
  BY <1>10, <1>i, DaemonAssumption DEF Rename, lockVars, migrationVars, TypeOK, OneDaemon, OneMigration, Owning
<1>11. ASSUME NEW p \in Procs, NEW f \in Parts, WriteFails(p, f)
     PROVE  OneMigration'
  BY <1>11, <1>i, DaemonAssumption DEF WriteFails, lockVars, migrationVars, TypeOK, OneDaemon, OneMigration,
                                       Owning
<1> QED
  BY <1>0, <1>1, <1>2, <1>3, <1>4, <1>5, <1>6, <1>7, <1>8, <1>9, <1>10, <1>11 DEF Next, Step, Aside

\* A process has something in memory, and to write, only from taking the lock to its end.
LEMMA OthersKept == DaemonInv /\ [Next]_vars => OthersHaveNothing'
<1> SUFFICES ASSUME DaemonInv, [Next]_vars PROVE OthersHaveNothing'
  OBVIOUS
<1>i. TypeOK /\ OneDaemon /\ OthersHaveNothing
  BY DEF DaemonInv
<1>0. CASE UNCHANGED vars
  BY <1>0, <1>i DEF vars, lockVars, migrationVars, writerVars, TypeOK, OneDaemon, OthersHaveNothing,
     Owning, Nothing
<1>1. CASE Forget
  BY <1>1, <1>i, DaemonAssumption DEF Forget, Register!Forget, migrationVars, writerVars, TypeOK, OneDaemon,
                                      OthersHaveNothing, Owning, Nothing
<1>2. ASSUME NEW p \in Procs, Aside(p)
     PROVE  OthersHaveNothing'
  BY <1>2, <1>i, AsideEffect DEF lockVars, TypeOK, OneDaemon, OthersHaveNothing, Owning, Nothing
<1>3. ASSUME NEW p \in Procs, Acquire(p)
     PROVE  OthersHaveNothing'
  <2>1. /\ stage[p] = "ready" /\ UNCHANGED <<memory, pending, writing>>
        /\ \A q \in Procs \ {p} : stage'[q] = stage[q]
    BY <1>3, <1>i DEF Acquire, At, Goes, TypeOK, writerVars
  <2>2. stage'[p] = "starting"
    BY <1>3, <1>i DEF Acquire, Goes, TypeOK
  <2> QED
    BY <1>i, <2>1, <2>2 DEF OthersHaveNothing, Owning
<1>4. ASSUME NEW p \in Procs, Release(p)
     PROVE  OthersHaveNothing'
  BY <1>4, <1>i, DaemonAssumption DEF Release, Register!Leave, At, Goes, migrationVars, TypeOK, OneDaemon,
                                      OthersHaveNothing, Owning, Nothing
<1>5. ASSUME NEW p \in Procs, Crash(p)
     PROVE  OthersHaveNothing'
  BY <1>5, <1>i, DaemonAssumption DEF Crash, Register!Crash, Goes, TypeOK, OneDaemon, OthersHaveNothing,
                                      Owning, Nothing
<1>6. ASSUME NEW p \in Procs, Load(p)
     PROVE  OthersHaveNothing'
  BY <1>6, <1>i, DaemonAssumption DEF Load, At, Goes, lockVars, migrationVars, writerVars, TypeOK,
                                      OneDaemon, OthersHaveNothing, Owning, Nothing
<1>7. ASSUME NEW p \in Procs, Open(p)
     PROVE  OthersHaveNothing'
  <2>1. /\ stage[p] = "opening" /\ stage'[p] = "serving" /\ UNCHANGED <<memory, writing>>
        /\ \A q \in Procs \ {p} : stage'[q] = stage[q] /\ pending'[q] = pending[q]
    BY <1>7, <1>i DEF Open, Notify, At, Goes, TypeOK
  <2> QED
    BY <1>i, <2>1 DEF OthersHaveNothing, Owning
<1>8. ASSUME NEW p \in Procs, StartFails(p)
     PROVE  OthersHaveNothing'
  BY <1>8, <1>i, DaemonAssumption DEF StartFails, Goes, lockVars, migrationVars, TypeOK, OneDaemon,
                                      OthersHaveNothing, Owning, Nothing
<1>9. ASSUME NEW p \in Procs, Signal(p)
     PROVE  OthersHaveNothing'
  BY <1>9, <1>i, DaemonAssumption DEF Signal, At, Goes, lockVars, migrationVars, TypeOK, OneDaemon,
                                      OthersHaveNothing, Owning, Nothing
<1>10. ASSUME NEW p \in Procs, Schedule(p)
     PROVE  OthersHaveNothing'
  BY <1>10, <1>i, DaemonAssumption DEF Schedule, At, Goes, lockVars, migrationVars, TypeOK, OneDaemon,
                                       OthersHaveNothing, Owning, Nothing
<1>11. ASSUME NEW p \in Procs, Change(p)
     PROVE  OthersHaveNothing'
  BY <1>11, <1>i, DaemonAssumption DEF Change, Notify, lockVars, migrationVars, TypeOK, OneDaemon,
                                       OthersHaveNothing, Owning, Nothing
<1>12. ASSUME NEW p \in Procs, Serialize(p)
     PROVE  OthersHaveNothing'
  BY <1>12, <1>i, DaemonAssumption DEF Serialize, lockVars, migrationVars, TypeOK, OneDaemon,
                                       OthersHaveNothing, Owning, Nothing
<1>13. ASSUME NEW p \in Procs, NEW f \in Parts, Copy(p, f)
     PROVE  OthersHaveNothing'
  BY <1>13, <1>i, DaemonAssumption DEF Copy, At, lockVars, writerVars, TypeOK, OneDaemon, OthersHaveNothing,
                                       Owning, Nothing
<1>14. ASSUME NEW p \in Procs, NEW f \in Parts, StartWrite(p, f)
     PROVE  OthersHaveNothing'
  BY <1>14, <1>i, DaemonAssumption DEF StartWrite, lockVars, migrationVars, TypeOK, OneDaemon,
                                       OthersHaveNothing, Owning, Nothing
<1>15. ASSUME NEW p \in Procs, NEW f \in Parts, Rename(p, f)
     PROVE  OthersHaveNothing'
  BY <1>15, <1>i, DaemonAssumption DEF Rename, lockVars, migrationVars, TypeOK, OneDaemon,
                                       OthersHaveNothing, Owning, Nothing
<1>16. ASSUME NEW p \in Procs, NEW f \in Parts, WriteFails(p, f)
     PROVE  OthersHaveNothing'
  BY <1>16, <1>i, DaemonAssumption DEF WriteFails, lockVars, migrationVars, TypeOK, OneDaemon,
                                       OthersHaveNothing, Owning, Nothing
<1> QED
  BY <1>0, <1>1, <1>2, <1>3, <1>4, <1>5, <1>6, <1>7, <1>8, <1>9, <1>10, <1>11, <1>12, <1>13, <1>14, <1>15,
     <1>16 DEF
     Next, Step, Aside

\* Only a rename and the copy of a missing file change a file; a change of the pipeline is newer than all
\* that is written.
LEMMA LaterKept == DaemonInv /\ [Next]_vars => LaterIsNewer'
<1> SUFFICES ASSUME DaemonInv, [Next]_vars PROVE LaterIsNewer'
  OBVIOUS
<1>i. TypeOK /\ OneDaemon /\ OneMigration /\ OthersHaveNothing /\ LaterIsNewer
  BY DEF DaemonInv
<1>0. CASE UNCHANGED vars
  BY <1>0, <1>i DEF vars, lockVars, migrationVars, writerVars, LaterOf, TypeOK, OneDaemon, OneMigration,
     OthersHaveNothing, LaterIsNewer, Owning, Nothing, Revisions
<1>1. CASE Forget
  BY <1>1, <1>i, DaemonAssumption DEF Forget, Register!Forget, migrationVars, writerVars, LaterOf, TypeOK,
                                      OneDaemon, OneMigration, OthersHaveNothing, LaterIsNewer, Owning,
                                      Nothing, Revisions
<1>2. ASSUME NEW p \in Procs, Aside(p)
     PROVE  LaterIsNewer'
  <2>1. /\ UNCHANGED <<stored, latest, memory, pending, writing>>
        /\ \A q \in Procs :
             /\ stage'[q] = "starting" => stage[q] = "starting"
             /\ stage'[q] \in {"opening", "serving", "closing"} =>
                    stage[q] \in {"opening", "serving", "closing"}
    BY <1>2, <1>i, AsideEffect DEF Owning
  <2> QED
    BY <1>i, <2>1 DEF LaterIsNewer, LaterOf
<1>3. ASSUME NEW p \in Procs, Acquire(p)
     PROVE  LaterIsNewer'
  <2>1. memory[p] = Nothing
    BY <1>3, <1>i DEF Acquire, At, OthersHaveNothing, Owning
  <2>2. /\ UNCHANGED <<stored, latest, memory, pending, writing>>
        /\ stage' = [stage EXCEPT ![p] = "starting"]
    BY <1>3 DEF Acquire, Goes, writerVars
  <2> QED
    BY <1>i, <2>1, <2>2 DEF LaterIsNewer, LaterOf, Nothing, TypeOK
<1>4. ASSUME NEW p \in Procs, Release(p)
     PROVE  LaterIsNewer'
  BY <1>4, <1>i, DaemonAssumption DEF Release, Register!Leave, At, Goes, migrationVars, LaterOf, TypeOK,
                                      OneDaemon, OneMigration, OthersHaveNothing, LaterIsNewer, Owning,
                                      Nothing, Revisions
<1>5. ASSUME NEW p \in Procs, Crash(p)
     PROVE  LaterIsNewer'
  BY <1>5, <1>i, DaemonAssumption DEF Crash, Register!Crash, Goes, LaterOf, TypeOK, OneDaemon, OneMigration,
                                      OthersHaveNothing, LaterIsNewer, Owning, Nothing, Revisions
<1>6. ASSUME NEW p \in Procs, Load(p)
     PROVE  LaterIsNewer'
  BY <1>6, <1>i, DaemonAssumption DEF Load, At, Goes, lockVars, migrationVars, writerVars, LaterOf, TypeOK,
                                      OneDaemon, OneMigration, OthersHaveNothing, LaterIsNewer, Owning,
                                      Nothing, Revisions
<1>7. ASSUME NEW p \in Procs, Open(p)
     PROVE  LaterIsNewer'
  BY <1>7, <1>i, DaemonAssumption DEF Open, Notify, At, Goes, lockVars, migrationVars, LaterOf, TypeOK,
                                      OneDaemon, OneMigration, OthersHaveNothing, LaterIsNewer, Owning,
                                      Nothing, Revisions
<1>8. ASSUME NEW p \in Procs, StartFails(p)
     PROVE  LaterIsNewer'
  BY <1>8, <1>i, DaemonAssumption DEF StartFails, Goes, lockVars, migrationVars, LaterOf, TypeOK, OneDaemon,
                                      OneMigration, OthersHaveNothing, LaterIsNewer, Owning, Nothing,
                                      Revisions
<1>9. ASSUME NEW p \in Procs, Signal(p)
     PROVE  LaterIsNewer'
  BY <1>9, <1>i, DaemonAssumption DEF Signal, At, Goes, lockVars, migrationVars, LaterOf, TypeOK, OneDaemon,
                                      OneMigration, OthersHaveNothing, LaterIsNewer, Owning, Nothing,
                                      Revisions
<1>10. ASSUME NEW p \in Procs, Schedule(p)
     PROVE  LaterIsNewer'
  BY <1>10, <1>i, DaemonAssumption DEF Schedule, At, Goes, lockVars, migrationVars, LaterOf, TypeOK,
                                       OneDaemon, OneMigration, OthersHaveNothing, LaterIsNewer, Owning,
                                       Nothing, Revisions
<1>11. ASSUME NEW p \in Procs, Change(p)
     PROVE  LaterIsNewer'
  BY <1>11, <1>i, DaemonAssumption DEF Change, Notify, lockVars, migrationVars, LaterOf, TypeOK, OneDaemon,
                                       OneMigration, OthersHaveNothing, LaterIsNewer, Owning, Nothing,
                                       Revisions
<1>12. ASSUME NEW p \in Procs, Serialize(p)
     PROVE  LaterIsNewer'
  BY <1>12, <1>i, DaemonAssumption DEF Serialize, lockVars, migrationVars, LaterOf, TypeOK, OneDaemon,
                                       OneMigration, OthersHaveNothing, LaterIsNewer, Owning, Nothing,
                                       Revisions
<1>13. ASSUME NEW p \in Procs, NEW f \in Parts, Copy(p, f)
     PROVE  LaterIsNewer'
  BY <1>13, <1>i, DaemonAssumption DEF Copy, At, lockVars, writerVars, LaterOf, TypeOK, OneDaemon,
                                       OneMigration, OthersHaveNothing, LaterIsNewer, Owning, Nothing,
                                       Revisions
<1>14. ASSUME NEW p \in Procs, NEW f \in Parts, StartWrite(p, f)
     PROVE  LaterIsNewer'
  BY <1>14, <1>i, DaemonAssumption DEF StartWrite, lockVars, migrationVars, LaterOf, TypeOK, OneDaemon,
                                       OneMigration, OthersHaveNothing, LaterIsNewer, Owning, Nothing,
                                       Revisions
<1>15. ASSUME NEW p \in Procs, NEW f \in Parts, Rename(p, f)
     PROVE  LaterIsNewer'
  <2>1. stage[p] \in Owning
    BY <1>15, <1>i DEF Rename, OthersHaveNothing, Nothing
  <2>2. \A q \in Procs \ {p} : memory[q] = Nothing /\ pending[q] = Nothing /\ writing[q] = Nothing
    BY <1>i, <2>1 DEF OneDaemon, OthersHaveNothing
  <2>3. /\ writing[p][f] # 0 /\ stored' = [stored EXCEPT ![f] = writing[p][f]]
        /\ writing' = [writing EXCEPT ![p][f] = 0] /\ UNCHANGED <<stage, latest, memory, pending>>
    BY <1>15 DEF Rename
  <2>4. latest' >= 1 /\ \A g \in Parts : stored'[g] <= latest'
    BY <1>i, <2>3 DEF LaterIsNewer, LaterOf, TypeOK, Revisions
  <2>5. \A g \in Parts : LaterOf(p, g)'
    BY <1>i, <2>3 DEF LaterIsNewer, LaterOf, TypeOK, Revisions
  <2>6. \A q \in Procs \ {p}, g \in Parts : LaterOf(q, g)'
    BY <1>i, <2>2, <2>3 DEF LaterIsNewer, LaterOf, TypeOK, Revisions, Nothing
  <2> QED
    BY <1>i, <2>3, <2>4, <2>5, <2>6 DEF LaterIsNewer
<1>16. ASSUME NEW p \in Procs, NEW f \in Parts, WriteFails(p, f)
     PROVE  LaterIsNewer'
  BY <1>16, <1>i, DaemonAssumption DEF WriteFails, lockVars, migrationVars, LaterOf, TypeOK, OneDaemon,
                                       OneMigration, OthersHaveNothing, LaterIsNewer, Owning, Nothing,
                                       Revisions
<1> QED
  BY <1>0, <1>1, <1>2, <1>3, <1>4, <1>5, <1>6, <1>7, <1>8, <1>9, <1>10, <1>11, <1>12, <1>13, <1>14, <1>15,
     <1>16 DEF
     Next, Step, Aside

\* From the last schedule on, what is known only moves from the writer to its temporary file and into place.
LEMMA FlushesKept == DaemonInv /\ [Next]_vars => FlushesAll'
<1> SUFFICES ASSUME DaemonInv, [Next]_vars PROVE FlushesAll'
  OBVIOUS
<1>i. TypeOK /\ OneDaemon /\ OneMigration /\ OthersHaveNothing /\ LaterIsNewer /\ FlushesAll
  BY DEF DaemonInv
<1>0. CASE UNCHANGED vars
  BY <1>0, <1>i DEF vars, lockVars, migrationVars, writerVars, LaterOf, TypeOK, OneDaemon, OneMigration,
     OthersHaveNothing, LaterIsNewer, Owning, Nothing, Revisions, FlushesAll, OnItsWay
<1>1. CASE Forget
  BY <1>1, <1>i, DaemonAssumption DEF Forget, Register!Forget, migrationVars, writerVars, LaterOf, TypeOK,
                                      OneDaemon, OneMigration, OthersHaveNothing, LaterIsNewer, Owning,
                                      Nothing, Revisions, FlushesAll, OnItsWay
<1>2. ASSUME NEW p \in Procs, Aside(p)
     PROVE  FlushesAll'
  <2>1. /\ UNCHANGED <<stored, memory, pending, writing, failures>>
        /\ \A q \in Procs : stage'[q] = "flushing" => stage[q] = "flushing"
    BY <1>2, <1>i, AsideEffect DEF Owning
  <2> QED
    BY <1>i, <2>1 DEF FlushesAll, OnItsWay
<1>3. ASSUME NEW p \in Procs, Acquire(p)
     PROVE  FlushesAll'
  BY <1>3, <1>i, DaemonAssumption DEF Acquire, Register!Acquire, At, Goes, migrationVars, writerVars,
                                      LaterOf, TypeOK, OneDaemon, OneMigration, OthersHaveNothing,
                                      LaterIsNewer, Owning, Nothing, Revisions, FlushesAll, OnItsWay
<1>4. ASSUME NEW p \in Procs, Release(p)
     PROVE  FlushesAll'
  BY <1>4, <1>i, DaemonAssumption DEF Release, Register!Leave, At, Goes, migrationVars, LaterOf, TypeOK,
                                      OneDaemon, OneMigration, OthersHaveNothing, LaterIsNewer, Owning,
                                      Nothing, Revisions, FlushesAll, OnItsWay
<1>5. ASSUME NEW p \in Procs, Crash(p)
     PROVE  FlushesAll'
  BY <1>5, <1>i, DaemonAssumption DEF Crash, Register!Crash, Goes, LaterOf, TypeOK, OneDaemon, OneMigration,
                                      OthersHaveNothing, LaterIsNewer, Owning, Nothing, Revisions,
                                      FlushesAll, OnItsWay
<1>6. ASSUME NEW p \in Procs, Load(p)
     PROVE  FlushesAll'
  BY <1>6, <1>i, DaemonAssumption DEF Load, At, Goes, lockVars, migrationVars, writerVars, LaterOf, TypeOK,
                                      OneDaemon, OneMigration, OthersHaveNothing, LaterIsNewer, Owning,
                                      Nothing, Revisions, FlushesAll, OnItsWay
<1>7. ASSUME NEW p \in Procs, Open(p)
     PROVE  FlushesAll'
  BY <1>7, <1>i, DaemonAssumption DEF Open, Notify, At, Goes, lockVars, migrationVars, LaterOf, TypeOK,
                                      OneDaemon, OneMigration, OthersHaveNothing, LaterIsNewer, Owning,
                                      Nothing, Revisions, FlushesAll, OnItsWay
<1>8. ASSUME NEW p \in Procs, StartFails(p)
     PROVE  FlushesAll'
  BY <1>8, <1>i, DaemonAssumption DEF StartFails, Goes, lockVars, migrationVars, LaterOf, TypeOK, OneDaemon,
                                      OneMigration, OthersHaveNothing, LaterIsNewer, Owning, Nothing,
                                      Revisions, FlushesAll, OnItsWay
<1>9. ASSUME NEW p \in Procs, Signal(p)
     PROVE  FlushesAll'
  BY <1>9, <1>i, DaemonAssumption DEF Signal, At, Goes, lockVars, migrationVars, LaterOf, TypeOK, OneDaemon,
                                      OneMigration, OthersHaveNothing, LaterIsNewer, Owning, Nothing,
                                      Revisions, FlushesAll, OnItsWay
<1>10. ASSUME NEW p \in Procs, Schedule(p)
     PROVE  FlushesAll'
  BY <1>10, <1>i, DaemonAssumption DEF Schedule, At, Goes, lockVars, migrationVars, LaterOf, TypeOK,
                                       OneDaemon, OneMigration, OthersHaveNothing, LaterIsNewer, Owning,
                                       Nothing, Revisions, FlushesAll, OnItsWay
<1>11. ASSUME NEW p \in Procs, Change(p)
     PROVE  FlushesAll'
  BY <1>11, <1>i, DaemonAssumption DEF Change, Notify, lockVars, migrationVars, LaterOf, TypeOK, OneDaemon,
                                       OneMigration, OthersHaveNothing, LaterIsNewer, Owning, Nothing,
                                       Revisions, FlushesAll, OnItsWay
<1>12. ASSUME NEW p \in Procs, Serialize(p)
     PROVE  FlushesAll'
  BY <1>12, <1>i, DaemonAssumption DEF Serialize, lockVars, migrationVars, LaterOf, TypeOK, OneDaemon,
                                       OneMigration, OthersHaveNothing, LaterIsNewer, Owning, Nothing,
                                       Revisions, FlushesAll, OnItsWay
<1>13. ASSUME NEW p \in Procs, NEW f \in Parts, Copy(p, f)
     PROVE  FlushesAll'
  BY <1>13, <1>i, DaemonAssumption DEF Copy, At, lockVars, writerVars, LaterOf, TypeOK, OneDaemon,
                                       OneMigration, OthersHaveNothing, LaterIsNewer, Owning, Nothing,
                                       Revisions, FlushesAll, OnItsWay
<1>14. ASSUME NEW p \in Procs, NEW f \in Parts, StartWrite(p, f)
     PROVE  FlushesAll'
  BY <1>14, <1>i, DaemonAssumption DEF StartWrite, lockVars, migrationVars, LaterOf, TypeOK, OneDaemon,
                                       OneMigration, OthersHaveNothing, LaterIsNewer, Owning, Nothing,
                                       Revisions, FlushesAll, OnItsWay
<1>15. ASSUME NEW p \in Procs, NEW f \in Parts, Rename(p, f)
     PROVE  FlushesAll'
  BY <1>15, <1>i, DaemonAssumption DEF Rename, lockVars, migrationVars, LaterOf, TypeOK, OneDaemon,
                                       OneMigration, OthersHaveNothing, LaterIsNewer, Owning, Nothing,
                                       Revisions, FlushesAll, OnItsWay
<1>16. ASSUME NEW p \in Procs, NEW f \in Parts, WriteFails(p, f)
     PROVE  FlushesAll'
  BY <1>16, <1>i, DaemonAssumption DEF WriteFails, lockVars, migrationVars, LaterOf, TypeOK, OneDaemon,
                                       OneMigration, OthersHaveNothing, LaterIsNewer, Owning, Nothing,
                                       Revisions, FlushesAll, OnItsWay
<1> QED
  BY <1>0, <1>1, <1>2, <1>3, <1>4, <1>5, <1>6, <1>7, <1>8, <1>9, <1>10, <1>11, <1>12, <1>13, <1>14, <1>15,
     <1>16 DEF
     Next, Step, Aside

\* The marker is written when no file is left to copy, and no file goes away.
LEMMA MigratedKept == DaemonInv /\ [Next]_vars => MigratedWhole'
<1> SUFFICES ASSUME DaemonInv, [Next]_vars PROVE MigratedWhole'
  OBVIOUS
<1>i. TypeOK /\ OneMigration /\ MigratedWhole
  BY DEF DaemonInv
<1>0. CASE UNCHANGED vars
  BY <1>0, <1>i DEF vars, lockVars, migrationVars, writerVars, TypeOK, OneMigration, MigratedWhole, Revisions
<1>1. CASE Forget
  BY <1>1, <1>i, DaemonAssumption DEF Forget, Register!Forget, migrationVars, writerVars, TypeOK,
                                      OneMigration, MigratedWhole, Revisions
<1>2. ASSUME NEW p \in Procs,
             \/ Skip(p) \/ Attach(p) \/ Refused(p) \/ WorkerRefused(p) \/ WaitEnds(p) \/ Watch(p)
             \/ Interrupt(p) \/ Find(p)
     PROVE  MigratedWhole'
  BY <1>2, <1>i, DaemonAssumption DEF Skip, Attach, Refused, WorkerRefused, WaitEnds, Watch, Interrupt,
                                      Find, Running, At, Goes, lockVars, migrationVars, writerVars, TypeOK,
                                      OneMigration, MigratedWhole, Revisions
<1>3. ASSUME NEW p \in Procs, Migrate(p) \/ MigrationFails(p) \/ Mark(p)
     PROVE  MigratedWhole'
  BY <1>3, <1>i, DaemonAssumption DEF Migrate, MigrationFails, Mark, Running, At, Goes, lockVars,
                                      writerVars, TypeOK, OneMigration, MigratedWhole, Revisions
<1>4. ASSUME NEW p \in Procs, Ask(p)
     PROVE  MigratedWhole'
  BY <1>4, <1>i, AskEffect DEF migrationVars, TypeOK, OneMigration, MigratedWhole, Revisions
<1>5. ASSUME NEW p \in Procs, Acquire(p) \/ Release(p) \/ Crash(p)
     PROVE  MigratedWhole'
  BY <1>5, <1>i, DaemonAssumption DEF Acquire, Release, Crash, Register!Acquire, Register!Leave,
                                      Register!Crash, At, Goes, migrationVars, writerVars, TypeOK,
                                      OneMigration, MigratedWhole, Revisions
<1>6. ASSUME NEW p \in Procs, Load(p) \/ Open(p) \/ StartFails(p) \/ Signal(p) \/ Schedule(p)
     PROVE  MigratedWhole'
  BY <1>6, <1>i, DaemonAssumption DEF Load, Open, StartFails, Signal, Schedule, Notify, At, Goes, lockVars,
                                      migrationVars, writerVars, TypeOK, OneMigration, MigratedWhole,
                                      Revisions
<1>7. ASSUME NEW p \in Procs, Change(p) \/ Serialize(p)
     PROVE  MigratedWhole'
  BY <1>7, <1>i, DaemonAssumption DEF Change, Serialize, Notify, lockVars, migrationVars, TypeOK,
                                      OneMigration, MigratedWhole, Revisions
<1>8. ASSUME NEW p \in Procs, NEW f \in Parts, Copy(p, f)
     PROVE  MigratedWhole'
  BY <1>8, <1>i, DaemonAssumption DEF Copy, At, lockVars, writerVars, TypeOK, OneMigration, MigratedWhole,
                                      Revisions
<1>9. ASSUME NEW p \in Procs, NEW f \in Parts, StartWrite(p, f)
     PROVE  MigratedWhole'
  BY <1>9, <1>i, DaemonAssumption DEF StartWrite, lockVars, migrationVars, TypeOK, OneMigration,
                                      MigratedWhole, Revisions
<1>10. ASSUME NEW p \in Procs, NEW f \in Parts, Rename(p, f)
     PROVE  MigratedWhole'
  BY <1>10, <1>i, DaemonAssumption DEF Rename, lockVars, migrationVars, TypeOK, OneMigration, MigratedWhole,
                                       Revisions
<1>11. ASSUME NEW p \in Procs, NEW f \in Parts, WriteFails(p, f)
     PROVE  MigratedWhole'
  BY <1>11, <1>i, DaemonAssumption DEF WriteFails, lockVars, migrationVars, TypeOK, OneMigration,
                                       MigratedWhole, Revisions
<1> QED
  BY <1>0, <1>1, <1>2, <1>3, <1>4, <1>5, <1>6, <1>7, <1>8, <1>9, <1>10, <1>11 DEF Next, Step, Aside

LEMMA InitHolds == Init => DaemonInv
<1> SUFFICES ASSUME Init PROVE DaemonInv
  OBVIOUS
<1>1. Nothing \in [Parts -> Revisions] /\ 1 \in Revisions
  BY DaemonAssumption DEF Nothing, Revisions
<1>2. TypeOK
  <2>1. /\ unsaved \in [Procs -> BOOLEAN] /\ failures \in [Procs -> 0..MaxFailures]
        /\ stage \in [Procs -> Stages] /\ target \in [Procs -> Procs \union {NoOwner}]
    BY DaemonAssumption DEF Init, Stages
  <2>2. /\ memory \in [Procs -> [Parts -> Revisions]] /\ pending \in [Procs -> [Parts -> Revisions]]
        /\ writing \in [Procs -> [Parts -> Revisions]] /\ stored \in [Parts -> Revisions]
    BY <1>1 DEF Init
  <2> QED
    BY <1>1, <2>1, <2>2 DEF Init, Register!Init, TypeOK
<1>3. OneDaemon /\ OneMigration /\ OthersHaveNothing /\ FlushesAll /\ MigratedWhole
  BY DaemonAssumption DEF Init, Register!Init, OneDaemon, OneMigration, OthersHaveNothing, FlushesAll,
     MigratedWhole, Owning
<1>4. LaterIsNewer
  BY DEF Init, LaterIsNewer, LaterOf, Nothing
<1> QED
  BY <1>2, <1>3, <1>4 DEF DaemonInv

LEMMA NextHolds == DaemonInv /\ [Next]_vars => DaemonInv'
BY TypesKept, OneDaemonKept, OneMigrationKept, OthersKept, LaterKept, FlushesKept, MigratedKept DEF DaemonInv

(***************************************************************************)
(* The inductive invariant of the daemons of a project (manager.mjs,        *)
(* migration.mjs, persistence.mjs, server.mjs): one of them owns the lock,  *)
(* others have nothing to write, and what is older is further on its way.   *)
(***************************************************************************)
THEOREM DaemonCorrect == Spec => []DaemonInv
<1>1. Init => DaemonInv
  BY InitHolds
<1>2. DaemonInv /\ [Next]_vars => DaemonInv'
  BY NextHolds
<1> QED
  BY <1>1, <1>2, PTL DEF Spec

(***************************************************************************)
(* A migration that is marked as complete has left no file of an older      *)
(* version behind (migration.mjs), whoever died on the way.                 *)
(***************************************************************************)
THEOREM MigrationsAreWhole == Spec => []MigratedWhole
<1>1. DaemonInv => MigratedWhole
  BY DEF DaemonInv
<1> QED
  BY <1>1, DaemonCorrect, PTL

(***************************************************************************)
(* What is saved.                                                           *)
(***************************************************************************)

\* What the steps that touch no file do.
LEMMA FilesStay ==
  ASSUME DaemonInv, [Next]_vars, ~ \E p \in Procs, f \in Parts : Copy(p, f) \/ Rename(p, f)
  PROVE  stored' = stored
<1>1. CASE UNCHANGED vars
  BY <1>1 DEF vars
<1>2. CASE Forget
  BY <1>2 DEF Forget
<1>3. ASSUME NEW p \in Procs, Aside(p) PROVE stored' = stored
  BY <1>3, AsideEffect DEF DaemonInv
<1>4. ASSUME NEW p \in Procs,
             \/ Acquire(p) \/ Load(p) \/ Change(p) \/ Serialize(p) \/ Open(p) \/ StartFails(p)
             \/ Signal(p) \/ Schedule(p) \/ Release(p) \/ Crash(p)
      PROVE  stored' = stored
  BY <1>4 DEF Acquire, Load, Change, Serialize, Open, StartFails, Signal, Schedule, Release, Crash
<1>5. ASSUME NEW p \in Procs, NEW f \in Parts, StartWrite(p, f) \/ WriteFails(p, f) PROVE stored' = stored
  BY <1>5 DEF StartWrite, WriteFails
<1> QED
  BY <1>1, <1>2, <1>3, <1>4, <1>5 DEF Next, Step, Aside

LEMMA NeverOlder == DaemonInv /\ [Next]_vars => SavedNeverBack
<1> SUFFICES ASSUME DaemonInv, [Next]_vars PROVE SavedNeverBack
  OBVIOUS
<1>1. CASE ~ \E p \in Procs, f \in Parts : Copy(p, f) \/ Rename(p, f)
  BY <1>1, FilesStay DEF SavedNeverBack, DaemonInv, TypeOK, Revisions
<1>2. ASSUME NEW p \in Procs, NEW f \in Parts, Copy(p, f) PROVE SavedNeverBack
  BY <1>2 DEF Copy, SavedNeverBack, DaemonInv, TypeOK, Revisions
<1>3. ASSUME NEW p \in Procs, NEW f \in Parts, Rename(p, f) PROVE SavedNeverBack
  BY <1>3 DEF Rename, SavedNeverBack, DaemonInv, TypeOK, Revisions, LaterIsNewer, LaterOf
<1> QED
  BY <1>1, <1>2, <1>3

\* Only a release leaves.
LEMMA WhoLeaves ==
  ASSUME DaemonInv, [Next]_vars, NEW p \in leaving' \ leaving
  PROVE  p \in Procs /\ Release(p)
<1>1. CASE UNCHANGED vars
  BY <1>1 DEF vars, lockVars
<1>2. CASE Forget
  BY <1>2 DEF Forget, Register!Forget
<1>3. ASSUME NEW q \in Procs, Aside(q) PROVE FALSE
  BY <1>3, AsideEffect DEF DaemonInv, lockVars
<1>4. ASSUME NEW q \in Procs,
             \/ Acquire(q) \/ Load(q) \/ Change(q) \/ Serialize(q) \/ Open(q) \/ StartFails(q)
             \/ Signal(q) \/ Schedule(q) \/ Crash(q)
      PROVE  FALSE
  BY <1>4 DEF Acquire, Load, Change, Serialize, Open, StartFails, Signal, Schedule, Crash,
              Register!Acquire, Register!Crash, lockVars
<1>5. ASSUME NEW q \in Procs, NEW f \in Parts, Copy(q, f) \/ StartWrite(q, f) \/ Rename(q, f) \/ WriteFails(q, f)
      PROVE  FALSE
  BY <1>5 DEF Copy, StartWrite, Rename, WriteFails, lockVars
<1>6. ASSUME NEW q \in Procs, Release(q) PROVE p = q
  BY <1>6 DEF Release, Register!Leave
<1> QED
  BY <1>1, <1>2, <1>3, <1>4, <1>5, <1>6 DEF Next, Step, Aside

LEMMA NothingUnsaved == DaemonInv /\ [Next]_vars => SavedAtRelease
<1> SUFFICES ASSUME DaemonInv, [Next]_vars,
                    NEW p \in leaving' \ leaving, failures[p] = 0,
                    NEW f \in Parts, memory[p][f] # 0
             PROVE  stored[f] = memory[p][f]
  BY DEF SavedAtRelease
<1>1. p \in Procs /\ Release(p)
  BY WhoLeaves
<1>2. stage[p] = "flushing" /\ pending[p][f] = 0 /\ writing[p][f] = 0
  BY <1>1 DEF Release, At, Nothing
<1>3. OnItsWay(p, f)
  BY <1>1, <1>2 DEF DaemonInv, FlushesAll
<1> QED
  BY <1>2, <1>3 DEF OnItsWay

(***************************************************************************)
(* What is saved never goes back, and a daemon that closes has saved all it *)
(* knew before anybody else may load it, unless a write failed              *)
(* (persistence.mjs, model-persistence.mjs, close of server.mjs).           *)
(***************************************************************************)
THEOREM SavesAreKept == Spec => SavesHold
<1>1. DaemonInv /\ [Next]_vars => [SavedNeverBack /\ SavedAtRelease]_vars
  BY NeverOlder, NothingUnsaved
<1> QED
  BY <1>1, DaemonCorrect, PTL DEF Spec, SavesHold

(***************************************************************************)
(* A stop request closes the instance its sender was attached to, and no    *)
(* other (manager.mjs:104).                                                 *)
(***************************************************************************)
THEOREM StopsReachTheirInstance == Spec => StopsItsInstance
<1> DEFINE Stop ==
      \A p, q \in Procs :
          stage[p] = "asking" /\ stage'[p] = "ended" /\ stage[q] = "serving" /\ stage'[q] = "closing" =>
              target[p] = q
<1>1. DaemonInv /\ [Next]_vars => Stop
  <2> SUFFICES ASSUME DaemonInv, [Next]_vars, NEW p \in Procs, NEW q \in Procs,
                      stage[p] = "asking", stage'[p] = "ended", stage[q] = "serving", stage'[q] = "closing"
               PROVE  target[p] = q
    OBVIOUS
  <2>1. TypeOK
    BY DEF DaemonInv
  <2>2. CASE Ask(p)
    BY <2>1, <2>2 DEF Ask, At, Goes, TypeOK
  \* Any other step moves one process, and no process but the two may have moved.
  <2>3. ASSUME NEW r \in Procs, Step(r), ~ Ask(r)
        PROVE  \A x \in Procs \ {r} : stage'[x] = stage[x]
    <3>1. CASE Aside(r)
      BY <2>1, <2>3, <3>1 DEF Aside, Skip, Refused, WorkerRefused, WaitEnds, Watch, Interrupt, Find, Attach,
                              Migrate, MigrationFails, Mark, Goes, TypeOK
    <3>2. CASE \/ Acquire(r) \/ Load(r) \/ Change(r) \/ Serialize(r) \/ Open(r) \/ StartFails(r)
               \/ Signal(r) \/ Schedule(r) \/ Release(r) \/ Crash(r)
      BY <2>1, <3>2 DEF Acquire, Load, Change, Serialize, Open, StartFails, Signal, Schedule, Release,
     Crash, Goes, TypeOK
    <3>3. CASE \E f \in Parts : Copy(r, f) \/ StartWrite(r, f) \/ Rename(r, f) \/ WriteFails(r, f)
      BY <3>3 DEF Copy, StartWrite, Rename, WriteFails
    <3> QED
      BY <2>3, <3>1, <3>2, <3>3 DEF Step, Aside
  <2>4. ASSUME NEW r \in Procs, Ask(r), r # p PROVE stage'[p] # "ended"
    BY <2>1, <2>4, AskEffect
  <2>5. CASE Forget \/ UNCHANGED vars
    BY <2>5 DEF Forget, vars
  <2> QED
    BY <2>2, <2>3, <2>4, <2>5 DEF Next
<1>2. DaemonInv /\ [Next]_vars => [Stop]_vars
  BY <1>1
<1> QED
  BY <1>2, DaemonCorrect, PTL DEF Spec, StopsItsInstance

(***************************************************************************)
(* The daemons use the lock as OwnerRegister allows: each step is one of    *)
(* the register, or does not touch it.                                      *)
(***************************************************************************)
THEOREM LockIsUsedAsPromised == Spec => Register!Spec
<1>1. Init => Register!Init
  BY DEF Init
<1>2. DaemonInv /\ [Next]_vars => [Register!Next]_(Register!registerVars)
  <2> SUFFICES ASSUME DaemonInv, [Next]_vars PROVE Register!Next \/ UNCHANGED <<owner, alive, leaving>>
    BY DEF Register!registerVars
  <2>1. CASE UNCHANGED vars
    BY <2>1 DEF vars, lockVars
  <2>2. CASE Forget
    BY <2>2 DEF Forget, Register!Next
  <2>3. ASSUME NEW p \in Procs, Aside(p) PROVE UNCHANGED <<owner, alive, leaving>>
    BY <2>3, AsideEffect DEF DaemonInv, lockVars
  <2>4. ASSUME NEW p \in Procs, Acquire(p) \/ Release(p) \/ Crash(p) PROVE Register!Next
    BY <2>4 DEF Acquire, Release, Crash, Register!Next
  <2>5. ASSUME NEW p \in Procs,
               \/ Load(p) \/ Change(p) \/ Serialize(p) \/ Open(p) \/ StartFails(p) \/ Signal(p) \/ Schedule(p)
        PROVE  UNCHANGED <<owner, alive, leaving>>
    BY <2>5 DEF Load, Change, Serialize, Open, StartFails, Signal, Schedule, lockVars
  <2>6. ASSUME NEW p \in Procs, NEW f \in Parts, Copy(p, f) \/ StartWrite(p, f) \/ Rename(p, f) \/ WriteFails(p, f)
        PROVE  UNCHANGED <<owner, alive, leaving>>
    BY <2>6 DEF Copy, StartWrite, Rename, WriteFails, lockVars
  <2> QED
    BY <2>1, <2>2, <2>3, <2>4, <2>5, <2>6 DEF Next, Step, Aside
<1> QED
  BY <1>1, <1>2, DaemonCorrect, PTL DEF Spec, Register!Spec

(***************************************************************************)
(* The log of diagnostics (diagnostics.mjs). The invariant, and lemmas.     *)
(***************************************************************************)

\* Only the last line of a file may be torn.
TornAtEnd(lines) == \A i \in DOMAIN lines : lines[i] = Torn => i = Len(lines)

\* What is in one sequence has lower numbers than what is in the other.
Before(s, t) == \A x \in ToSet(s), y \in ToSet(t) : x < y

\* A file is as an append leaves it; one that is appended to has no torn line.
LinesHold == TornAtEnd(backup) /\ TornAtEnd(current) /\ (step = "cut" => ~ IsTorn(current))

\* Four sequences that grow, each below the next.
InOrder4(b, c, d, e) ==
    /\ Increasing(b) /\ Increasing(c) /\ Increasing(d) /\ Increasing(e)
    /\ Before(b, c) /\ Before(b, d) /\ Before(b, e) /\ Before(c, d) /\ Before(c, e) /\ Before(d, e)

\* The lines of the backup, the file, the batch and the queue follow one another, none above
\* the number given last.
OrderHolds ==
    /\ InOrder4(Whole(backup), Whole(current), batch, queued)
    /\ Increasing(ring)
    /\ \A x \in ToSet(backup) \union ToSet(current) \union ToSet(batch) \union ToSet(queued) \union ToSet(ring) :
          x <= lastSeq

\* What waits and what is kept is within its limit, and a batch that is appended has its room.
RoomHolds ==
    /\ Len(batch) + Len(queued) <= MaxPending
    /\ Len(backup) <= MaxFile /\ Len(current) <= MaxFile /\ Len(ring) <= MaxRing
    /\ step \in {"opened", "cut"} => Len(current) + Len(batch) <= MaxFile

\* There is a batch while a step of its append is due, nothing waits without a timer or a drain,
\* and what was counted as written is in a file or was overwritten by a rotation.
NothingLeft ==
    /\ batch = <<>> <=> step = "none"
    /\ ~ Alive => queued = <<>> /\ batch = <<>>
    /\ queued # <<>> => timer \/ running
    /\ written \subseteq ToSet(current) \union ToSet(backup) \union overwritten

\* The invariant.
LogInvariant == LogTypeOK /\ LinesHold /\ OrderHolds /\ RoomHolds /\ NothingLeft

\* A set of natural numbers has a least one: what replaces an induction over a sequence.
LEMMA LeastOf ==
    ASSUME NEW S, S \subseteq Nat, S # {}
    PROVE  \E n \in S : \A m \in S : n <= m
<1>1. IsWellFoundedOn(OpToRel(<, Nat), Nat)
  BY NatLessThanWellFounded
<1>2. PICK n \in S : \A m \in S : ~ (<<m, n>> \in OpToRel(<, Nat))
  BY <1>1, WFMin
<1>3. \A m \in S : ~ (m < n)
  BY <1>2 DEF OpToRel
<1> QED
  BY <1>3

\* The start of a sequence.
LEMMA StartIs ==
    ASSUME NEW N, NEW s \in Seq(N), NEW n \in 0..Len(s)
    PROVE  /\ SubSeq(s, 1, n) \in Seq(N) /\ Len(SubSeq(s, 1, n)) = n
           /\ \A i \in 1..n : SubSeq(s, 1, n)[i] = s[i]
  OBVIOUS

\* A start that ends one line later.
LEMMA OneIs ==
    ASSUME NEW s \in Seq(Nat), NEW n \in 1..Len(s)
    PROVE  SubSeq(s, 1, n) = Append(SubSeq(s, 1, n - 1), s[n])
  OBVIOUS

\* The last of a sequence that is put behind another.
LEMMA LastOfJoined ==
    ASSUME NEW s \in Seq(Nat), NEW t \in Seq(Nat), Len(t) > 0
    PROVE  s \o t # <<>> /\ (s \o t)[Len(s \o t)] = t[Len(t)]
  OBVIOUS

\* How long two sequences are together.
LEMMA JoinedLen == \A s, t \in Seq(Nat) : Len(s \o t) = Len(s) + Len(t)
  OBVIOUS

\* Putting one line behind two sequences puts it behind the second.
LEMMA PutBehind ==
    ASSUME NEW s \in Seq(Nat), NEW t \in Seq(Nat), NEW x \in Nat
    PROVE  Append(s \o t, x) = s \o Append(t, x)
<1> DEFINE u == Append(s \o t, x)  v == s \o Append(t, x)  n == Len(s) + Len(t) + 1
<1>1. /\ u \in Seq(Nat) /\ v \in Seq(Nat) /\ Len(u) = n /\ Len(v) = n /\ n \in Nat
      /\ \A i \in 1..n : u[i] = v[i]
  OBVIOUS
<1> HIDE DEF u, v, n
<1>2. u = v
  <2>1. u = [i \in 1..n |-> u[i]] /\ v = [i \in 1..n |-> v[i]]
    BY <1>1
  <2> QED
    BY <1>1, <2>1
<1> QED
  BY <1>2 DEF u, v

\* What a sequence holds is of its set.
LEMMA MembersAre == ASSUME NEW N, NEW s \in Seq(N) PROVE ToSet(s) \subseteq N /\ <<>> \in Seq(N)
  BY DEF ToSet

\* What two sequences hold together.
LEMMA JoinedIs ==
    ASSUME NEW N, NEW s \in Seq(N), NEW t \in Seq(N)
    PROVE  s \o t \in Seq(N) /\ ToSet(s \o t) = ToSet(s) \union ToSet(t)
<1>1. s \o t \in Seq(N) /\ Len(s \o t) = Len(s) + Len(t)
  OBVIOUS
<1>2. \A i \in 1..Len(s) + Len(t) : (s \o t)[i] = IF i <= Len(s) THEN s[i] ELSE t[i - Len(s)]
  OBVIOUS
<1>3. ASSUME NEW x \in ToSet(s \o t) PROVE x \in ToSet(s) \union ToSet(t)
  <2>1. PICK i \in 1..Len(s) + Len(t) : (s \o t)[i] = x
    BY <1>1 DEF ToSet
  <2>2. CASE i <= Len(s)
    BY <1>2, <2>1, <2>2 DEF ToSet
  <2>3. CASE i > Len(s)
    <3>1. i - Len(s) \in DOMAIN t /\ t[i - Len(s)] = x
      BY <1>2, <2>1, <2>3
    <3> QED
      BY <3>1 DEF ToSet
  <2> QED
    BY <2>1, <2>2, <2>3
<1>4. ASSUME NEW x \in ToSet(s) PROVE x \in ToSet(s \o t)
  <2>1. PICK i \in 1..Len(s) : s[i] = x
    BY DEF ToSet
  <2>2. i \in DOMAIN (s \o t) /\ (s \o t)[i] = x
    BY <1>1, <1>2, <2>1
  <2> QED
    BY <2>2 DEF ToSet
<1>5. ASSUME NEW x \in ToSet(t) PROVE x \in ToSet(s \o t)
  <2>1. PICK i \in 1..Len(t) : t[i] = x
    BY DEF ToSet
  <2>2. i + Len(s) \in DOMAIN (s \o t) /\ (s \o t)[i + Len(s)] = x
    BY <1>1, <1>2, <2>1
  <2> QED
    BY <2>2 DEF ToSet
<1> QED
  BY <1>1, <1>3, <1>4, <1>5

\* Two growing sequences, one before the other, grow together.
LEMMA JoinedGrows ==
    ASSUME NEW s \in Seq(Nat), NEW t \in Seq(Nat), Increasing(s), Increasing(t), Before(s, t)
    PROVE  Increasing(s \o t)
<1>1. Len(s \o t) = Len(s) + Len(t) /\ s \o t \in Seq(Nat)
  OBVIOUS
<1>2. \A i \in 1..Len(s) + Len(t) : (s \o t)[i] = IF i <= Len(s) THEN s[i] ELSE t[i - Len(s)]
  OBVIOUS
<1>3. ASSUME NEW i \in DOMAIN (s \o t), NEW j \in DOMAIN (s \o t), i < j
      PROVE  (s \o t)[i] < (s \o t)[j]
  <2>0. i \in 1..Len(s) + Len(t) /\ j \in 1..Len(s) + Len(t)
    BY <1>1
  <2>1. CASE j <= Len(s)
    BY <1>2, <1>3, <2>0, <2>1 DEF Increasing
  <2>2. CASE i <= Len(s) /\ j > Len(s)
    <3>1. s[i] \in ToSet(s)
      BY <2>0, <2>2 DEF ToSet
    <3>2. j - Len(s) \in DOMAIN t
      BY <2>0, <2>2
    <3>3. t[j - Len(s)] \in ToSet(t)
      BY <3>2 DEF ToSet
    <3> QED
      BY <1>2, <2>0, <2>2, <3>1, <3>3 DEF Before
  <2>3. CASE i > Len(s)
    <3>1. i - Len(s) \in DOMAIN t /\ j - Len(s) \in DOMAIN t /\ i - Len(s) < j - Len(s)
      BY <1>3, <2>0, <2>3
    <3> QED
      BY <1>2, <1>3, <2>0, <2>3, <3>1 DEF Increasing
  <2> QED
    BY <2>0, <2>1, <2>2, <2>3
<1> QED
  BY <1>3 DEF Increasing

\* A part of a sequence holds what that holds, and grows when that does.
LEMMA PartIs ==
    ASSUME NEW N, NEW s \in Seq(N), NEW i \in 1..Len(s) + 1, NEW n \in 0..Len(s)
    PROVE  LET p == SubSeq(s, i, n) IN
           /\ p \in Seq(N) /\ ToSet(p) \subseteq ToSet(s) /\ Len(p) = (IF i <= n THEN n - i + 1 ELSE 0)
           /\ Increasing(s) => Increasing(p)
<1> DEFINE p == SubSeq(s, i, n)
<1>1. p \in Seq(N) /\ Len(p) = (IF i <= n THEN n - i + 1 ELSE 0)
  OBVIOUS
<1>2. \A k \in 1..Len(p) : p[k] = s[i + k - 1] /\ i + k - 1 \in 1..Len(s)
  BY <1>1
<1>3. DOMAIN p = 1..Len(p) /\ DOMAIN s = 1..Len(s)
  BY <1>1
<1> HIDE DEF p
<1>4. ToSet(p) \subseteq ToSet(s)
  BY <1>2, <1>3 DEF ToSet
<1>5. ASSUME Increasing(s), NEW k \in DOMAIN p, NEW l \in DOMAIN p, k < l PROVE p[k] < p[l]
  <2>1. i + k - 1 < i + l - 1
    BY <1>1, <1>3, <1>5
  <2> QED
    BY <1>2, <1>3, <1>5, <2>1 DEF Increasing
<1>6. Increasing(s) => Increasing(p)
  BY <1>5 DEF Increasing
<1> QED
  BY <1>1, <1>4, <1>6 DEF p

\* The lines that readLines returns: those of the file but a torn one.
LEMMA WholeIs ==
    ASSUME NEW lines \in Seq(0..MaxSeq), TornAtEnd(lines), MaxSeq \in Nat
    PROVE  /\ Whole(lines) \in Seq(1..MaxSeq) /\ ToSet(Whole(lines)) = ToSet(lines) \ {Torn}
           /\ Len(Whole(lines)) <= Len(lines)
           /\ ~ IsTorn(lines) => Whole(lines) = lines
<1>1. CASE IsTorn(lines)
  <2> DEFINE n == Len(lines)  w == Whole(lines)
  <2>1. w = SubSeq(lines, 1, n - 1) /\ n \in Nat /\ n > 0 /\ lines[n] = Torn
    BY <1>1 DEF IsTorn, Whole, Front, Last
  <2>2. /\ w \in Seq(0..MaxSeq) /\ Len(w) = n - 1
        /\ \A i \in 1..(n - 1) : w[i] = lines[i]
    <3>1. n - 1 \in 0..Len(lines)
      BY <2>1
    <3> QED
      BY <2>1, <3>1, StartIs
  <2>3. \A i \in 1..(n - 1) : lines[i] # Torn /\ lines[i] \in 0..MaxSeq
    BY <2>1 DEF TornAtEnd
  <2>4. w \in [1..(n - 1) -> 1..MaxSeq]
    <3>1. \A i \in 1..(n - 1) : w[i] \in 1..MaxSeq
      BY <2>2, <2>3 DEF Torn
    <3> DEFINE m == n - 1
    <3>2. m \in Nat /\ w \in Seq(0..MaxSeq) /\ Len(w) = m
      BY <2>1, <2>2
    <3> HIDE DEF w, m
    <3>3. w = [i \in 1..m |-> w[i]]
      BY <3>2
    <3> USE DEF m
    <3> HIDE DEF n
    <3> QED
      BY <3>1, <3>3
  <2>5. w \in Seq(1..MaxSeq)
    <3>1. n - 1 \in Nat
      BY <2>1
    <3> HIDE DEF w, n
    <3> QED
      BY <2>4, <3>1
  <2>6. DOMAIN w = 1..(n - 1) /\ DOMAIN lines = 1..n
    BY <2>1, <2>4
  <2>7. ToSet(w) = ToSet(lines) \ {Torn}
    <3> HIDE DEF n, w
    <3>1. \A i \in DOMAIN lines : i \in 1..(n - 1) \/ i = n
      BY <2>1, <2>6
    <3>2. \A i \in 1..(n - 1) : i \in DOMAIN lines
      BY <2>1, <2>6
    <3> QED
      BY <2>1, <2>2, <2>3, <2>6, <3>1, <3>2 DEF ToSet
  <2> QED
    BY <1>1, <2>1, <2>2, <2>5, <2>7
<1>2. CASE ~ IsTorn(lines)
  <2> DEFINE n == Len(lines)
  <2>1. Whole(lines) = lines /\ n \in Nat /\ DOMAIN lines = 1..n
    BY <1>2 DEF Whole
  <2>2. \A i \in 1..n : lines[i] # Torn
    BY <1>2, <2>1 DEF TornAtEnd, IsTorn, Last
  <2>3. lines \in [1..n -> 1..MaxSeq]
    BY <2>1, <2>2 DEF Torn
  <2>4. lines \in Seq(1..MaxSeq)
    BY <2>1, <2>3
  <2> QED
    BY <2>1, <2>2, <2>4 DEF ToSet
<1> QED
  BY <1>1, <1>2

\* What the ring keeps: the last lines, at most as many as fit.
LEMMA KeptIs ==
    ASSUME NEW N, NEW records \in Seq(N), MaxRing \in Nat
    PROVE  /\ Kept(records) \in Seq(N) /\ Len(Kept(records)) <= MaxRing
           /\ ToSet(Kept(records)) \subseteq ToSet(records)
           /\ Increasing(records) => Increasing(Kept(records))
<1> DEFINE i == IF Len(records) > MaxRing THEN Len(records) - MaxRing + 1 ELSE 1
<1>1. Len(records) \in Nat /\ i \in 1..Len(records) + 1 /\ Kept(records) = SubSeq(records, i, Len(records))
  BY DEF Kept
<1> HIDE DEF i
<1>2. /\ Kept(records) \in Seq(N) /\ ToSet(Kept(records)) \subseteq ToSet(records)
      /\ Len(Kept(records)) = (IF i <= Len(records) THEN Len(records) - i + 1 ELSE 0)
      /\ Increasing(records) => Increasing(Kept(records))
  BY <1>1, PartIs
<1> QED
  BY <1>1, <1>2 DEF i

\* A line with a number above all of them is put behind the others.
LEMMA OneMore ==
    ASSUME NEW s \in Seq(Nat), NEW x \in Nat, Increasing(s), \A y \in ToSet(s) : y < x
    PROVE  Increasing(Append(s, x)) /\ ToSet(Append(s, x)) = ToSet(s) \union {x}
<1> DEFINE t == <<x>>
<1>1. t \in Seq(Nat) /\ Append(s, x) = s \o t /\ ToSet(t) = {x} /\ Increasing(t)
  BY DEF ToSet, Increasing
<1> HIDE DEF t
<1>2. Before(s, t)
  BY <1>1 DEF Before
<1> QED
  BY <1>1, <1>2, JoinedIs, JoinedGrows

\* load() takes every line of a file whose numbers grow and lie above what it has.
LEMMA LoadedIs ==
    ASSUME NEW records \in Seq(Nat), NEW lines \in Seq(Nat),
           Increasing(lines), Before(records, lines), \A x \in ToSet(lines) : x > 0
    PROVE  Loaded(records, lines) = records \o lines
<1> DEFINE N == Len(lines)
<1> DEFINE Taking(f, n) == IF n = 0 THEN records
                         ELSE IF lines[n] > Highest(f[n - 1]) THEN Append(f[n - 1], lines[n]) ELSE f[n - 1]
<1> DEFINE taken == CHOOSE f : f = [n \in 0..N |-> Taking(f, n)]
<1> DEFINE upTo == [n \in 0..N |-> records \o SubSeq(lines, 1, n)]
<1>0. N \in Nat /\ DOMAIN lines = 1..N /\ \A i \in 1..N : lines[i] \in Nat
  OBVIOUS
<1>1. ASSUME NEW n \in 1..N
      PROVE  LET before == records \o SubSeq(lines, 1, n - 1) IN
             lines[n] > Highest(before) /\ Append(before, lines[n]) = records \o SubSeq(lines, 1, n)
  <2> DEFINE part == SubSeq(lines, 1, n - 1)  before == records \o part
  <2>1. n - 1 \in 0..N /\ part \in Seq(Nat) /\ Len(part) = n - 1 /\ \A i \in 1..(n - 1) : part[i] = lines[i]
    BY <1>0
  <2>2. before \in Seq(Nat) /\ Len(before) = Len(records) + (n - 1)
    BY <2>1
  <2>3. lines[n] \in ToSet(lines)
    BY <1>0 DEF ToSet
  <2>4. lines[n] > Highest(before)
    <3>1. CASE n = 1
      <4>1. part = <<>> /\ before = records
        BY <2>1, <3>1
      <4>2. CASE records = <<>>
        BY <2>3, <4>1, <4>2 DEF Highest
      <4>3. CASE records # <<>>
        <5>1. Highest(before) = records[Len(records)] /\ Len(records) \in DOMAIN records
          BY <4>1, <4>3 DEF Highest, Last
        <5>2. records[Len(records)] \in ToSet(records)
          BY <5>1 DEF ToSet
        <5>3. records[Len(records)] < lines[n]
          BY <2>3, <5>2 DEF Before
        <5> QED
          BY <1>0, <5>1, <5>3
      <4> QED
        BY <4>2, <4>3
    <3>2. CASE n # 1
      <4>1. before # <<>> /\ before[Len(before)] = lines[n - 1]
        <5>1. Len(part) > 0 /\ part[Len(part)] = lines[n - 1]
          BY <1>0, <2>1, <3>2
        <5> HIDE DEF part
        <5> QED
          BY <2>1, <5>1, LastOfJoined
      <4>2. lines[n - 1] < lines[n]
        <5>1. n - 1 \in DOMAIN lines /\ n \in DOMAIN lines /\ n - 1 < n
          BY <1>0, <3>2
        <5> QED
          BY <5>1 DEF Increasing
      <4> HIDE DEF before
      <4> QED
        BY <1>0, <3>2, <4>1, <4>2 DEF Highest, Last
    <3> QED
      BY <3>1, <3>2
  <2>5. SubSeq(lines, 1, n) = Append(part, lines[n])
    BY <1>0, OneIs
  <2>6. Append(before, lines[n]) = records \o Append(part, lines[n])
    <3> HIDE DEF part
    <3> QED
      BY <1>0, <2>1, PutBehind
  <2> QED
    BY <2>4, <2>5, <2>6
<1>2. upTo = [n \in 0..N |-> Taking(upTo, n)]
  <2>1. ASSUME NEW n \in 0..N PROVE upTo[n] = Taking(upTo, n)
    <3>1. CASE n = 0
      <4>1. SubSeq(lines, 1, 0) = <<>>
        OBVIOUS
      <4> QED
        BY <3>1, <4>1
    <3>2. CASE n # 0
      <4>1. n \in 1..N /\ n - 1 \in 0..N /\ upTo[n - 1] = records \o SubSeq(lines, 1, n - 1)
        BY <1>0, <3>2
      <4> QED
        BY <1>1, <3>2, <4>1
    <3> QED
      BY <3>1, <3>2
  <2> HIDE DEF Taking
  <2> QED
    BY <2>1
<1>3. taken = [n \in 0..N |-> Taking(taken, n)]
  <2> HIDE DEF Taking, upTo
  <2> QED
    BY <1>2
<1>4. Loaded(records, lines) = taken[N]
  BY DEF Loaded
<1> HIDE DEF taken, upTo
<1>5. \A n \in 0..N : taken[n] = records \o SubSeq(lines, 1, n)
  <2> DEFINE Bad == {n \in 0..N : taken[n] # records \o SubSeq(lines, 1, n)}
  <2> SUFFICES ASSUME Bad # {} PROVE FALSE
    OBVIOUS
  <2>1. PICK n \in Bad : \A m \in Bad : n <= m
    BY <1>0, LeastOf, Bad \subseteq Nat
  <2>2. taken[n] = Taking(taken, n) /\ n \in 0..N
    <3> HIDE DEF Taking
    <3> QED
      BY <1>3, <2>1
  <2>3. CASE n = 0
    <3>1. SubSeq(lines, 1, 0) = <<>> /\ taken[n] = records
      BY <2>2, <2>3
    <3> QED
      BY <2>1, <2>3, <3>1
  <2>4. CASE n # 0
    <3>1. n \in 1..N /\ n - 1 \in 0..N /\ n - 1 \notin Bad
      <4>1. n \in 1..N /\ n - 1 \in 0..N /\ ~ (n <= n - 1)
        BY <1>0, <2>2, <2>4
      <4> HIDE DEF Bad
      <4> QED
        BY <2>1, <4>1
    <3>2. taken[n - 1] = records \o SubSeq(lines, 1, n - 1)
      BY <3>1
    <3> QED
      BY <1>1, <2>1, <2>2, <2>4, <3>1, <3>2
  <2> QED
    BY <2>3, <2>4
<1>6. SubSeq(lines, 1, N) = lines /\ N \in 0..N
  BY <1>0
<1> HIDE DEF N
<1> QED
  BY <1>4, <1>5, <1>6

\* The empty sequence.
LEMMA EmptyIs == <<>> \in Seq(Nat) /\ Increasing(<<>>) /\ ToSet(<<>>) = {} /\ Len(<<>>) = 0
  BY DEF Increasing, ToSet

\* A file with no torn line is read as it is.
LEMMA SoundIs ==
    ASSUME NEW s \in Seq(1..MaxSeq), MaxSeq \in Nat
    PROVE  /\ s \in Seq(0..MaxSeq) /\ s \in Seq(Nat)
           /\ ~ IsTorn(s) /\ TornAtEnd(s) /\ Whole(s) = s
<1>1. Len(s) \in Nat /\ DOMAIN s = 1..Len(s) /\ \A i \in 1..Len(s) : s[i] \in 1..MaxSeq
  OBVIOUS
<1>2. s \in [1..Len(s) -> 0..MaxSeq]
  BY <1>1
<1>3. s \in Seq(0..MaxSeq)
  BY <1>1, <1>2
<1>4. s \in Seq(Nat)
  BY <1>1
<1>5. ~ IsTorn(s)
  <2> SUFFICES ASSUME IsTorn(s) PROVE FALSE
    OBVIOUS
  <2>1. Len(s) \in 1..Len(s) /\ s[Len(s)] = 0
    BY <1>1 DEF IsTorn, Last, Torn
  <2> QED
    BY <1>1, <2>1
<1> QED
  BY <1>1, <1>3, <1>4, <1>5 DEF TornAtEnd, Torn, Whole

\* A file with a torn line behind it is read as it was.
LEMMA TornIs ==
    ASSUME NEW s \in Seq(1..MaxSeq), MaxSeq \in Nat
    PROVE  /\ Append(s, Torn) \in Seq(0..MaxSeq) /\ TornAtEnd(Append(s, Torn)) /\ Whole(Append(s, Torn)) = s
           /\ ToSet(Append(s, Torn)) = ToSet(s) \union {Torn} /\ Len(Append(s, Torn)) = Len(s) + 1
<1> DEFINE r == Append(s, Torn)
<1>0. s \in Seq(0..MaxSeq) /\ Torn \in 0..MaxSeq
  BY SoundIs DEF Torn
<1>1. /\ r \in Seq(0..MaxSeq) /\ Len(r) = Len(s) + 1 /\ DOMAIN r = 1..(Len(s) + 1) /\ Len(s) \in Nat
      /\ \A i \in 1..Len(s) : r[i] = s[i] /\ s[i] # 0
      /\ r[Len(s) + 1] = 0
  BY <1>0 DEF Torn
<1>2. SubSeq(r, 1, Len(s)) = s
  BY <1>0
<1> HIDE DEF r
<1>3. TornAtEnd(r)
  BY <1>1 DEF TornAtEnd, Torn
<1>4. Whole(r) = s
  <2>1. IsTorn(r) /\ Len(r) - 1 = Len(s)
    BY <1>1 DEF IsTorn, Last, Torn
  <2> QED
    BY <1>2, <2>1 DEF Whole, Front
<1>5. ToSet(r) = ToSet(s) \union {Torn}
  <2>1. DOMAIN s = 1..Len(s) /\ \A i \in 1..(Len(s) + 1) : i \in 1..Len(s) \/ i = Len(s) + 1
    BY <1>1
  <2>2. \A i \in 1..Len(s) : i \in 1..(Len(s) + 1)
    BY <1>1
  <2>3. Len(s) + 1 \in 1..(Len(s) + 1)
    BY <1>1
  <2> QED
    BY <1>1, <2>1, <2>2, <2>3 DEF ToSet, Torn
<1> QED
  BY <1>1, <1>3, <1>4, <1>5 DEF r

\* The sequences the invariant is about, with their types.
LEMMA LinesAre ==
    ASSUME LogInvariant
    PROVE  /\ MaxSeq \in Nat /\ MaxRing \in Nat /\ MaxFile \in Nat /\ MaxPending \in Nat /\ MaxPending <= MaxFile
           /\ Whole(backup) \in Seq(1..MaxSeq) /\ Whole(current) \in Seq(1..MaxSeq)
           /\ batch \in Seq(1..MaxSeq) /\ queued \in Seq(1..MaxSeq) /\ ring \in Seq(1..MaxSeq)
           /\ Whole(backup) \in Seq(Nat) /\ Whole(current) \in Seq(Nat)
           /\ batch \in Seq(Nat) /\ queued \in Seq(Nat) /\ ring \in Seq(Nat)
           /\ backup \in Seq(0..MaxSeq) /\ current \in Seq(0..MaxSeq)
           /\ ToSet(Whole(backup)) = ToSet(backup) \ {Torn}
           /\ ToSet(Whole(current)) = ToSet(current) \ {Torn}
           /\ lastSeq \in 0..MaxSeq
<1>1. MaxSeq \in Nat /\ MaxRing \in Nat /\ MaxFile \in Nat /\ MaxPending \in Nat /\ MaxPending <= MaxFile
  BY LogAssumption
<1>2. /\ backup \in Seq(0..MaxSeq) /\ current \in Seq(0..MaxSeq) /\ lastSeq \in 0..MaxSeq
      /\ batch \in Seq(1..MaxSeq) /\ queued \in Seq(1..MaxSeq) /\ ring \in Seq(1..MaxSeq)
  BY DEF LogInvariant, LogTypeOK
<1>3. TornAtEnd(backup) /\ TornAtEnd(current)
  BY DEF LogInvariant, LinesHold
<1>4. /\ Whole(backup) \in Seq(1..MaxSeq) /\ ToSet(Whole(backup)) = ToSet(backup) \ {Torn}
      /\ Whole(current) \in Seq(1..MaxSeq) /\ ToSet(Whole(current)) = ToSet(current) \ {Torn}
  BY <1>1, <1>2, <1>3, WholeIs
<1> QED
  BY <1>1, <1>2, <1>4, SoundIs

\* Putting nothing behind a sequence.
LEMMA NothingJoined == ASSUME NEW s \in Seq(Nat) PROVE s \o SubSeq(s, 1, 0) = s /\ s \o <<>> = s
  OBVIOUS

\* r is the file with a part of the batch behind it, the last line of which may be torn.
LogReached(r) ==
    /\ r \in Seq(0..MaxSeq) /\ TornAtEnd(r) /\ Len(r) <= MaxFile
    /\ \E n \in 0..Len(batch) : Whole(r) = Whole(current) \o SubSeq(batch, 1, n)
    /\ ToSet(current) \subseteq ToSet(r)
    /\ ToSet(r) \subseteq ToSet(current) \union ToSet(batch) \union {Torn}

\* Wherever an append stops, the file has its lines, a start of the batch and at most a torn line.
LEMMA ReachedIs ==
    ASSUME LogInvariant, NEW r \in Reached
    PROVE  LogReached(r)
<1> DEFINE c == Whole(current)  d == batch
<1>1. /\ MaxSeq \in Nat /\ MaxFile \in Nat /\ c \in Seq(1..MaxSeq) /\ d \in Seq(1..MaxSeq) /\ d \in Seq(Nat)
      /\ c \in Seq(Nat) /\ current \in Seq(0..MaxSeq) /\ Len(d) \in Nat
  BY LinesAre
<1>2. /\ TornAtEnd(current) /\ Len(current) <= MaxFile /\ (step = "cut" => ~ IsTorn(current))
      /\ step = "cut" => Len(current) + Len(d) <= MaxFile
  BY DEF LogInvariant, LinesHold, RoomHolds
<1>3. CASE step # "cut"
  <2>1. r = current
    BY <1>3 DEF Reached
  <2>2. SubSeq(d, 1, 0) = <<>> /\ 0 \in 0..Len(d)
    BY <1>1
  <2>3. Whole(r) = c \o SubSeq(d, 1, 0)
    BY <1>1, <2>1, <2>2, NothingJoined
  <2> QED
    BY <1>1, <1>2, <2>1, <2>2, <2>3 DEF LogReached
<1>4. CASE step = "cut"
  <2>1. ~ IsTorn(current) /\ c = current
    BY <1>1, <1>2, <1>4 DEF Whole
  <2>2. PICK p \in Partial : r = current \o p
    BY <1>4, <2>1 DEF Reached, Behind
  <2>3. ASSUME NEW n \in 0..Len(d)
        PROVE  LET s == c \o SubSeq(d, 1, n) IN
               /\ s \in Seq(1..MaxSeq) /\ Len(s) = Len(c) + n
               /\ ToSet(c) \subseteq ToSet(s) /\ ToSet(s) \subseteq ToSet(c) \union ToSet(d)
    <3> DEFINE q == SubSeq(d, 1, n)
    <3>1. q \in Seq(1..MaxSeq) /\ Len(q) = n
      BY <1>1, StartIs
    <3>2. ToSet(q) \subseteq ToSet(d)
      <4>1. 1 \in 1..Len(d) + 1
        BY <1>1
      <4> QED
        BY <1>1, <4>1, PartIs
    <3> HIDE DEF q, c
    <3>4. c \o q \in Seq(1..MaxSeq) /\ ToSet(c \o q) = ToSet(c) \union ToSet(q)
      BY <1>1, <3>1, JoinedIs
    <3>5. Len(c \o q) = Len(c) + Len(q)
      <4>1. q \in Seq(Nat)
        BY <1>1, <3>1, SoundIs
      <4> QED
        BY <1>1, <4>1, JoinedLen
    <3>3. c \o q \in Seq(1..MaxSeq) /\ ToSet(c \o q) = ToSet(c) \union ToSet(q) /\ Len(c \o q) = Len(c) + Len(q)
      BY <3>4, <3>5
    <3> QED
      BY <3>1, <3>2, <3>3 DEF q
  <2>4. ASSUME NEW n \in 0..Len(d), r = c \o SubSeq(d, 1, n) PROVE LogReached(r)
    <3> DEFINE s == c \o SubSeq(d, 1, n)
    <3>1. s \in Seq(1..MaxSeq) /\ Len(s) = Len(c) + n /\ ToSet(c) \subseteq ToSet(s) /\ ToSet(s) \subseteq ToSet(c) \union ToSet(d)
      BY <2>3
    <3>2. s \in Seq(0..MaxSeq) /\ TornAtEnd(s) /\ Whole(s) = s
      BY <1>1, <3>1, SoundIs
    <3>3. Len(s) <= MaxFile
      BY <1>1, <1>2, <1>4, <2>1, <3>1
    <3>4. \E k \in 0..Len(d) : s = c \o SubSeq(d, 1, k)
      OBVIOUS
    <3> HIDE DEF s
    <3> QED
      BY <2>1, <2>4, <3>1, <3>2, <3>3, <3>4 DEF LogReached, s
  <2>5. ASSUME NEW n \in 0..(Len(d) - 1), r = c \o (SubSeq(d, 1, n) \o <<Torn>>) PROVE LogReached(r)
    <3> DEFINE s == c \o SubSeq(d, 1, n)
    <3>0. n \in 0..Len(d) /\ n < Len(d)
      BY <1>1
    <3>1. s \in Seq(1..MaxSeq) /\ Len(s) = Len(c) + n /\ ToSet(c) \subseteq ToSet(s) /\ ToSet(s) \subseteq ToSet(c) \union ToSet(d)
      BY <2>3, <3>0
    <3>2. r = Append(s, Torn)
      <4> DEFINE q == SubSeq(d, 1, n)
      <4>1. q \in Seq(Nat) /\ Torn \in Nat
        BY <1>1, <3>0, StartIs DEF Torn
      <4>2. r = c \o (q \o <<Torn>>)
        BY <2>5
      <4>3. Append(c \o q, Torn) = c \o Append(q, Torn)
        <5> HIDE DEF q, c
        <5> QED
          BY <1>1, <4>1, PutBehind
      <4>4. q \o <<Torn>> = Append(q, Torn)
        <5> HIDE DEF q
        <5> QED
          BY <4>1
      <4> QED
        BY <4>2, <4>3, <4>4
    <3>3. /\ r \in Seq(0..MaxSeq) /\ TornAtEnd(r) /\ Whole(r) = s
          /\ ToSet(r) = ToSet(s) \union {Torn} /\ Len(r) = Len(s) + 1
      BY <1>1, <3>1, <3>2, TornIs
    <3>4. Len(r) <= MaxFile
      BY <1>1, <1>2, <1>4, <2>1, <3>0, <3>1, <3>3
    <3>5. \E k \in 0..Len(d) : Whole(r) = c \o SubSeq(d, 1, k)
      BY <3>0, <3>3
    <3> HIDE DEF s
    <3> QED
      BY <2>1, <3>1, <3>3, <3>4, <3>5 DEF LogReached
  <2>6. p = d \/ \E n \in 0..(Len(d) - 1) : p = SubSeq(d, 1, n) \/ p = SubSeq(d, 1, n) \o <<Torn>>
    <3>1. CASE p = batch
      BY <3>1
    <3>2. CASE p # batch
      <4> DEFINE parts == {{SubSeq(batch, 1, n), SubSeq(batch, 1, n) \o <<Torn>>} : n \in 0..(Len(batch) - 1)}
      <4>1. p \in UNION parts
        <5>1. Partial = {batch} \union UNION parts
          BY Zenon DEF Partial
        <5> HIDE DEF parts
        <5> QED
          BY Zenon, <2>2, <3>2, <5>1
      <4>2. PICK part \in parts : p \in part
        <5> HIDE DEF parts
        <5> QED
          BY <4>1
      <4>3. PICK n \in 0..(Len(batch) - 1) : part = {SubSeq(batch, 1, n), SubSeq(batch, 1, n) \o <<Torn>>}
        BY Zenon, <4>2
      <4> QED
        BY <4>2, <4>3
    <3> QED
      BY <3>1, <3>2
  <2>7. CASE p = d
    <3>1. Len(d) \in 0..Len(d) /\ SubSeq(d, 1, Len(d)) = d
      BY <1>1
    <3>2. r = c \o SubSeq(d, 1, Len(d))
      BY <2>1, <2>2, <2>7, <3>1
    <3> QED
      BY <2>4, <3>1, <3>2
  <2>8. CASE \E n \in 0..(Len(d) - 1) : p = SubSeq(d, 1, n) \/ p = SubSeq(d, 1, n) \o <<Torn>>
    <3>1. PICK n \in 0..(Len(d) - 1) : p = SubSeq(d, 1, n) \/ p = SubSeq(d, 1, n) \o <<Torn>>
      BY <2>8
    <3>2. n \in 0..Len(d)
      BY <1>1
    <3>3. r = c \o SubSeq(d, 1, n) \/ r = c \o (SubSeq(d, 1, n) \o <<Torn>>)
      BY <2>1, <2>2, <3>1
    <3> QED
      BY <2>4, <2>5, <3>1, <3>2, <3>3
  <2> QED
    BY <2>6, <2>7, <2>8
<1> QED
  BY <1>3, <1>4

-----------------------------------------------------------------------------
(* The steps. *)

\* A log starts as the invariant says.
LEMMA LogStarts == LogInit => LogInvariant
<1> SUFFICES ASSUME LogInit PROVE LogInvariant
  OBVIOUS
<1>1. MaxSeq \in Nat /\ MaxRing \in Nat /\ MaxFile \in Nat /\ MaxPending \in Nat /\ MaxFaults \in Nat
  BY LogAssumption
<1>2. /\ current = <<>> /\ backup = <<>> /\ lastSeq = 0 /\ ring = <<>> /\ queued = <<>> /\ batch = <<>>
      /\ timer = FALSE /\ running = FALSE /\ state = "up" /\ step = "none" /\ written = {}
      /\ overwritten = {} /\ faults = MaxFaults
  BY DEF LogInit
<1>3. /\ <<>> \in Seq(0..MaxSeq) /\ <<>> \in Seq(1..MaxSeq) /\ Len(<<>>) = 0 /\ ToSet(<<>>) = {}
      /\ Increasing(<<>>) /\ Whole(<<>>) = <<>> /\ TornAtEnd(<<>>) /\ ~ IsTorn(<<>>)
  BY EmptyIs DEF Whole, IsTorn, TornAtEnd
<1>4. LogTypeOK
  <2>1. lastSeq \in 0..MaxSeq /\ faults \in 0..MaxFaults
    BY <1>1, <1>2
  <2> QED
    BY <1>2, <1>3, <2>1 DEF LogTypeOK
<1>5. OrderHolds
  BY <1>1, <1>2, <1>3 DEF OrderHolds, InOrder4, Before
<1>6. LinesHold /\ RoomHolds /\ NothingLeft
  BY <1>1, <1>2, <1>3 DEF LinesHold, RoomHolds, NothingLeft, Alive
<1> QED
  BY <1>4, <1>5, <1>6 DEF LogInvariant

\* A batch, or a part of it, has joined the file, and those who wait are kept or gone.
LEMMA AppendsKeep ==
    ASSUME LogInvariant, LogReached(current'), batch' = <<>>, step' = "none",
           queued' = queued \/ queued' = <<>>, ring' = ring \/ ring' = <<>>, UNCHANGED <<backup, lastSeq>>
    PROVE  LinesHold' /\ OrderHolds' /\ RoomHolds'
<1> DEFINE b == Whole(backup)  c == Whole(current)  d == batch  e == queued
<1>1. /\ MaxSeq \in Nat /\ MaxFile \in Nat /\ MaxPending \in Nat /\ MaxRing \in Nat
      /\ b \in Seq(Nat) /\ c \in Seq(Nat) /\ d \in Seq(Nat) /\ e \in Seq(Nat) /\ lastSeq \in 0..MaxSeq
      /\ backup \in Seq(0..MaxSeq) /\ batch \in Seq(1..MaxSeq) /\ queued \in Seq(1..MaxSeq) /\ ring \in Seq(1..MaxSeq)
  BY LinesAre
<1>2. LinesHold /\ RoomHolds /\ InOrder4(b, c, d, e) /\ Increasing(ring)
  BY DEF LogInvariant, OrderHolds
<1>3. PICK n \in 0..Len(d) : Whole(current') = c \o SubSeq(d, 1, n)
  BY DEF LogReached
<1> DEFINE q == SubSeq(d, 1, n)
<1>4. q \in Seq(Nat) /\ ToSet(q) \subseteq ToSet(d) /\ Increasing(q)
  <2>1. 1 \in 1..Len(d) + 1 /\ Len(d) \in Nat
    BY <1>1
  <2> QED
    BY <1>1, <1>2, <2>1, PartIs DEF InOrder4
<1> HIDE DEF q
<1>5. Increasing(c \o q) /\ ToSet(c \o q) = ToSet(c) \union ToSet(q)
  <2>1. Increasing(c) /\ Before(c, q)
    BY <1>2, <1>4 DEF InOrder4, Before
  <2> HIDE DEF c
  <2> QED
    BY <1>1, <1>4, <2>1, JoinedIs, JoinedGrows
<1>6. Whole(current)' = c \o q /\ Whole(backup)' = b /\ batch' = <<>> /\ (queued' = e \/ queued' = <<>>)
  BY <1>3 DEF q, Whole, IsTorn
<1>7. InOrder4(Whole(backup), Whole(current), batch, queued)'
  <2>1. InOrder4(b, c \o q, <<>>, e)
    <3> HIDE DEF b, c, d, e
    <3> QED
      BY <1>2, <1>4, <1>5, EmptyIs DEF InOrder4, Before
  <2>2. InOrder4(b, c \o q, <<>>, <<>>)
    <3> HIDE DEF b, c, d, e
    <3> QED
      BY <2>1, EmptyIs DEF InOrder4, Before
  <2> DEFINE y == Whole(current)'  x == Whole(backup)'  z == batch'  u == queued'
  <2>3. InOrder4(x, y, z, u)
    BY <1>6, <2>1, <2>2
  <2>4. InOrder4(Whole(backup), Whole(current), batch, queued)' <=> InOrder4(x, y, z, u)
    BY DEF InOrder4, Increasing, Before
  <2> QED
    BY <2>3, <2>4
<1>8. LogReached(current') => ToSet(current') \subseteq ToSet(current) \union ToSet(batch) \union {Torn} /\ TornAtEnd(current') /\ Len(current') <= MaxFile
  BY DEF LogReached
<1>9. \A x \in ToSet(backup') \union ToSet(current') \union ToSet(batch') \union ToSet(queued') \union ToSet(ring') :
          x <= lastSeq'
  <2>1. \A x \in ToSet(backup) \union ToSet(current) \union ToSet(batch) \union ToSet(queued) \union ToSet(ring) :
            x <= lastSeq
    BY DEF LogInvariant, OrderHolds
  <2>2. Torn <= lastSeq
    BY <1>1 DEF Torn
  <2> QED
    BY <1>8, <2>1, <2>2, EmptyIs
<1>10. OrderHolds'
  <2>1. Increasing(ring)'
    BY <1>2, EmptyIs DEF Increasing
  <2> QED
    BY <1>7, <1>9, <2>1 DEF OrderHolds, ToSet
<1>11. LinesHold'
  BY <1>2, <1>8 DEF LinesHold, TornAtEnd
<1>12. RoomHolds'
  <2>1. Len(queued') \in Nat /\ Len(queued') <= MaxPending /\ Len(batch') = 0 /\ Len(ring') <= MaxRing
    <3>1. Len(batch) \in Nat /\ Len(queued) \in Nat /\ Len(batch) + Len(queued) <= MaxPending /\ Len(ring) <= MaxRing
      BY <1>1, <1>2 DEF RoomHolds
    <3> QED
      BY <1>1, <3>1, EmptyIs
  <2> QED
    BY <1>2, <1>8, <2>1 DEF RoomHolds
<1> QED
  BY <1>10, <1>11, <1>12

\* The type invariant, part by part.
LEMMA LogTypes ==
    LogTypeOK <=>
    /\ current \in Seq(0..MaxSeq) /\ backup \in Seq(0..MaxSeq) /\ lastSeq \in 0..MaxSeq
    /\ ring \in Seq(1..MaxSeq) /\ queued \in Seq(1..MaxSeq) /\ batch \in Seq(1..MaxSeq)
    /\ timer \in BOOLEAN /\ running \in BOOLEAN /\ state \in {"up", "closing", "closed", "dead"}
    /\ step \in {"none", "taken", "opened", "cut"} /\ written \subseteq 1..MaxSeq
    /\ overwritten \subseteq 1..MaxSeq /\ faults \in 0..MaxFaults
  BY DEF LogTypeOK

\* A fault is one of those that are left.
LEMMA LogFaults == ASSUME LogTypeOK, LogFails PROVE faults' \in 0..MaxFaults
<1>1. faults \in 0..MaxFaults /\ MaxFaults \in Nat /\ faults > 0 /\ faults' = faults - 1
  BY LogTypes, LogAssumption DEF LogFails
<1> QED
  BY <1>1

\* The files and what is known of them stay as they are.
LEMMA FilesSame ==
    ASSUME LogInvariant, UNCHANGED <<current, backup, lastSeq, ring, queued, batch, step>>
    PROVE  LinesHold' /\ OrderHolds' /\ RoomHolds'
  BY DEF LogInvariant, LinesHold, OrderHolds, RoomHolds, InOrder4, Before, Increasing, TornAtEnd, Whole,
         IsTorn, ToSet

LEMMA DrainKeeps == ASSUME LogInvariant, Drain PROVE LogInvariant'
<1>1. /\ timer' = FALSE /\ running' = TRUE /\ state = "up"
      /\ UNCHANGED <<current, backup, lastSeq, ring, queued, batch, state, step, written, overwritten, faults>>
  BY DEF Drain
<1>2. LinesHold' /\ OrderHolds' /\ RoomHolds'
  BY <1>1, FilesSame
<1>3. LogTypeOK'
  BY <1>1 DEF LogInvariant, LogTypeOK
<1>4. NothingLeft'
  BY <1>1 DEF LogInvariant, NothingLeft, Alive
<1> QED
  BY <1>2, <1>3, <1>4 DEF LogInvariant

LEMMA CloseLogKeeps == ASSUME LogInvariant, CloseLog PROVE LogInvariant'
<1>1. /\ timer' = FALSE /\ running' = TRUE /\ state' = "closing"
      /\ UNCHANGED <<current, backup, lastSeq, ring, queued, batch, step, written, overwritten, faults>>
  BY DEF CloseLog
<1>2. LinesHold' /\ OrderHolds' /\ RoomHolds'
  BY <1>1, FilesSame
<1>3. LogTypeOK'
  BY <1>1 DEF LogInvariant, LogTypeOK
<1>4. NothingLeft'
  BY <1>1 DEF LogInvariant, NothingLeft, Alive
<1> QED
  BY <1>2, <1>3, <1>4 DEF LogInvariant

LEMMA DrainedKeeps == ASSUME LogInvariant, Drained PROVE LogInvariant'
<1>1. /\ running' = FALSE /\ batch = <<>> /\ queued = <<>>
      /\ state' = (IF state = "closing" THEN "closed" ELSE state)
      /\ UNCHANGED <<current, backup, lastSeq, ring, queued, batch, timer, step, written, overwritten, faults>>
  BY DEF Drained
<1>2. LinesHold' /\ OrderHolds' /\ RoomHolds'
  BY <1>1, FilesSame
<1>3. LogTypeOK'
  BY <1>1 DEF LogInvariant, LogTypeOK
<1>4. NothingLeft'
  BY <1>1 DEF LogInvariant, NothingLeft, Alive
<1> QED
  BY <1>2, <1>3, <1>4 DEF LogInvariant

LEMMA RecordKeeps == ASSUME LogInvariant, Record PROVE LogInvariant'
<1> DEFINE b == Whole(backup)  c == Whole(current)  d == batch  e == queued  x == lastSeq + 1
<1>1. /\ state = "up" /\ lastSeq < MaxSeq /\ lastSeq' = x /\ ring' = Kept(Append(ring, x))
      /\ \/ HasRoom /\ queued' = Append(queued, x) /\ timer' = (timer \/ ~ running)
         \/ UNCHANGED <<queued, timer>>
      /\ UNCHANGED <<current, backup, batch, running, state, step, written, overwritten, faults>>
  BY DEF Record
<1>2. /\ MaxSeq \in Nat /\ MaxFile \in Nat /\ MaxPending \in Nat /\ MaxRing \in Nat
      /\ b \in Seq(Nat) /\ c \in Seq(Nat) /\ d \in Seq(Nat) /\ e \in Seq(Nat) /\ ring \in Seq(Nat)
      /\ batch \in Seq(1..MaxSeq) /\ queued \in Seq(1..MaxSeq) /\ ring \in Seq(1..MaxSeq) /\ lastSeq \in 0..MaxSeq
      /\ ToSet(b) \subseteq ToSet(backup) /\ ToSet(c) \subseteq ToSet(current)
  BY LinesAre
<1>3. /\ LinesHold /\ RoomHolds /\ NothingLeft /\ LogTypeOK /\ InOrder4(b, c, d, e) /\ Increasing(ring)
      /\ \A y \in ToSet(backup) \union ToSet(current) \union ToSet(batch) \union ToSet(queued) \union ToSet(ring) :
            y <= lastSeq
  BY DEF LogInvariant, OrderHolds
<1>4. /\ x \in Nat /\ x \in 1..MaxSeq /\ lastSeq < x /\ backup \in Seq(0..MaxSeq) /\ current \in Seq(0..MaxSeq)
      /\ \A y \in ToSet(backup) \union ToSet(current) \union ToSet(batch) \union ToSet(queued) \union ToSet(ring) :
            y \in Nat => y < x /\ y <= x
  <2>1. x \in Nat /\ x \in 1..MaxSeq /\ lastSeq < x /\ backup \in Seq(0..MaxSeq) /\ current \in Seq(0..MaxSeq)
    BY <1>1, <1>2, LinesAre
  <2>2. \A y \in Nat : y <= lastSeq => y < x /\ y <= x
    BY <2>1, <1>2
  <2> HIDE DEF x
  <2> QED
    BY <1>3, <2>1, <2>2
<1>5. /\ ToSet(backup) \subseteq Nat /\ ToSet(current) \subseteq Nat /\ ToSet(d) \subseteq Nat
      /\ ToSet(e) \subseteq Nat /\ ToSet(ring) \subseteq Nat
  <2>1. \A s \in Seq(Nat) : ToSet(s) \subseteq Nat
    BY DEF ToSet
  <2>2. \A s \in Seq(0..MaxSeq) : s \in Seq(Nat)
    BY <1>2
  <2> QED
    BY <1>2, <1>4, <2>1, <2>2
<1> HIDE DEF x
<1>6. /\ Increasing(Append(e, x)) /\ ToSet(Append(e, x)) = ToSet(e) \union {x}
      /\ Append(e, x) \in Seq(1..MaxSeq) /\ Len(Append(e, x)) = Len(e) + 1
  <2>1. \A y \in ToSet(e) : y < x
    BY <1>4, <1>5
  <2>2. Increasing(e)
    BY <1>3 DEF InOrder4
  <2> QED
    BY <1>2, <1>4, <2>1, <2>2, OneMore
<1>7. /\ ring' \in Seq(1..MaxSeq) /\ Len(ring') <= MaxRing /\ Increasing(ring')
      /\ ToSet(ring') \subseteq ToSet(ring) \union {x}
  <2> DEFINE r == Append(ring, x)
  <2>1. r \in Seq(1..MaxSeq)
    BY <1>2, <1>4
  <2>2. \A y \in ToSet(ring) : y < x
    BY <1>4, <1>5
  <2>3. Increasing(r) /\ ToSet(r) = ToSet(ring) \union {x}
    BY <1>2, <1>3, <1>4, <2>2, OneMore
  <2> HIDE DEF r
  <2>4. Kept(r) \in Seq(1..MaxSeq) /\ Len(Kept(r)) <= MaxRing /\ ToSet(Kept(r)) \subseteq ToSet(r) /\ Increasing(Kept(r))
    BY <1>2, <2>1, <2>3, KeptIs
  <2>5. ring' = Kept(r)
    BY <1>1 DEF r
  <2> QED
    BY <2>3, <2>4, <2>5
<1>8. queued' \in Seq(1..MaxSeq) /\ ToSet(queued') \subseteq ToSet(e) \union {x} /\ InOrder4(b, c, d, queued')
  <2>1. CASE UNCHANGED <<queued, timer>>
    BY <1>2, <1>3, <2>1
  <2>2. CASE queued' = Append(queued, x)
    <3>1. InOrder4(b, c, d, Append(e, x))
      <4>1. /\ \A y \in ToSet(b) : y < x
            /\ \A y \in ToSet(c) : y < x
            /\ \A y \in ToSet(d) : y < x
        BY <1>2, <1>4, <1>5
      <4> HIDE DEF b, c, d, e
      <4> QED
        BY <1>3, <1>6, <4>1 DEF InOrder4, Before
    <3> QED
      BY <1>6, <2>2, <3>1
  <2> QED
    BY <1>1, <2>1, <2>2
<1>9. OrderHolds'
  <2>1. InOrder4(Whole(backup), Whole(current), batch, queued)'
    <3> DEFINE u == queued'
    <3>1. InOrder4(Whole(backup), Whole(current), batch, queued)' <=> InOrder4(Whole(backup), Whole(current), batch, u)
      BY <1>1 DEF InOrder4, Increasing, Before, Whole, IsTorn, ToSet
    <3> QED
      BY <1>8, <3>1
  <2>2. Increasing(ring)'
    BY <1>7 DEF Increasing
  <2>3. \A y \in ToSet(backup') \union ToSet(current') \union ToSet(batch') \union ToSet(queued') \union ToSet(ring') :
            y <= lastSeq'
    BY <1>1, <1>4, <1>5, <1>7, <1>8
  <2> QED
    BY <2>1, <2>2, <2>3 DEF OrderHolds, ToSet
<1>10. LinesHold'
  BY <1>1, <1>3 DEF LinesHold, TornAtEnd, IsTorn
<1>11. RoomHolds'
  <2>1. Len(queued') \in Nat /\ Len(batch) \in Nat /\ Len(batch) + Len(queued') <= MaxPending
    <3>1. Len(queued) \in Nat /\ Len(batch) \in Nat /\ Len(batch) + Len(queued) <= MaxPending
      BY <1>2, <1>3 DEF RoomHolds
    <3>2. HasRoom => Len(queued) + 1 + Len(batch) <= MaxPending
      BY <1>2, <3>1 DEF HasRoom
    <3> QED
      BY <1>1, <1>2, <1>6, <3>1, <3>2
  <2> QED
    BY <1>1, <1>3, <1>7, <2>1 DEF RoomHolds
<1>12. LogTypeOK'
  <2>1. lastSeq' \in 0..MaxSeq
    BY <1>1, <1>4
  <2>2. timer \in BOOLEAN
    BY <1>3 DEF LogTypeOK
  <2>3. timer' \in BOOLEAN
    BY Zenon, <1>1, <2>2
  <2> QED
    BY <1>1, <1>3, <1>7, <1>8, <2>1, <2>3 DEF LogTypeOK
<1>13. NothingLeft'
  BY <1>1, <1>3 DEF NothingLeft, Alive, ToSet
<1> QED
  BY <1>9, <1>10, <1>11, <1>12, <1>13 DEF LogInvariant

LEMMA TakeBatchKeeps == ASSUME LogInvariant, TakeBatch PROVE LogInvariant'
<1> DEFINE b == Whole(backup)  c == Whole(current)  d == batch  e == queued
<1>1. /\ Alive /\ running /\ batch = <<>> /\ queued # <<>> /\ batch' = queued /\ queued' = <<>> /\ step' = "taken"
      /\ UNCHANGED <<current, backup, lastSeq, ring, timer, running, state, written, overwritten, faults>>
  BY DEF TakeBatch
<1>2. /\ batch \in Seq(1..MaxSeq) /\ queued \in Seq(1..MaxSeq) /\ b \in Seq(Nat) /\ c \in Seq(Nat)
  BY LinesAre
<1>3. /\ LinesHold /\ RoomHolds /\ NothingLeft /\ LogTypeOK /\ InOrder4(b, c, d, e) /\ Increasing(ring)
      /\ \A y \in ToSet(backup) \union ToSet(current) \union ToSet(batch) \union ToSet(queued) \union ToSet(ring) :
            y <= lastSeq
  BY DEF LogInvariant, OrderHolds
<1>4. InOrder4(b, c, e, <<>>)
  <2> HIDE DEF b, c, d, e
  <2> QED
    BY <1>3, EmptyIs DEF InOrder4, Before
<1>5. OrderHolds'
  <2> DEFINE u == queued'  v == batch'
  <2>1. InOrder4(b, c, v, u)
    BY <1>1, <1>4
  <2>2. InOrder4(Whole(backup), Whole(current), batch, queued)' <=> InOrder4(b, c, v, u)
    BY <1>1 DEF InOrder4, Increasing, Before, Whole, IsTorn, ToSet
  <2>3. \A y \in ToSet(backup') \union ToSet(current') \union ToSet(batch') \union ToSet(queued') \union ToSet(ring') :
            y <= lastSeq'
    BY <1>1, <1>3, EmptyIs
  <2> QED
    BY <1>1, <1>3, <2>1, <2>2, <2>3 DEF OrderHolds, ToSet, Increasing
<1>6. LinesHold'
  BY <1>1, <1>3 DEF LinesHold, TornAtEnd, IsTorn
<1>7. RoomHolds'
  BY <1>1, <1>3, <1>2, EmptyIs DEF RoomHolds
<1>8. LogTypeOK'
  BY <1>1, <1>3, <1>2 DEF LogTypeOK
<1>9. NothingLeft'
  BY <1>1, <1>3 DEF NothingLeft, Alive, ToSet
<1> QED
  BY <1>5, <1>6, <1>7, <1>8, <1>9 DEF LogInvariant

LEMMA OpenedKeeps == ASSUME LogInvariant, Opened PROVE LogInvariant'
<1> DEFINE b == Whole(backup)  c == Whole(current)  d == batch  e == queued
<1>1. /\ Alive /\ step = "taken" /\ step' = "opened"
      /\ \/ /\ Full /\ backup' = current /\ current' = <<>>
            /\ overwritten' = overwritten \union ToSet(Whole(backup))
         \/ ~ Full /\ UNCHANGED <<backup, current, overwritten>>
      /\ UNCHANGED <<lastSeq, ring, queued, batch, timer, running, state, written, faults>>
  BY DEF Opened
<1>2. /\ MaxSeq \in Nat /\ MaxFile \in Nat /\ MaxPending \in Nat /\ MaxPending <= MaxFile
      /\ batch \in Seq(1..MaxSeq) /\ queued \in Seq(1..MaxSeq) /\ b \in Seq(Nat) /\ c \in Seq(Nat)
      /\ current \in Seq(0..MaxSeq) /\ backup \in Seq(0..MaxSeq) /\ b \in Seq(1..MaxSeq)
      /\ ToSet(b) = ToSet(backup) \ {Torn}
  BY LinesAre
<1>3. /\ LinesHold /\ RoomHolds /\ NothingLeft /\ LogTypeOK /\ InOrder4(b, c, d, e) /\ Increasing(ring)
      /\ \A y \in ToSet(backup) \union ToSet(current) \union ToSet(batch) \union ToSet(queued) \union ToSet(ring) :
            y <= lastSeq
  BY DEF LogInvariant, OrderHolds
<1>4. /\ <<>> \in Seq(0..MaxSeq) /\ Len(<<>>) = 0 /\ ToSet(<<>>) = {} /\ Increasing(<<>>) /\ Whole(<<>>) = <<>>
      /\ TornAtEnd(<<>>) /\ ~ IsTorn(<<>>)
  BY EmptyIs DEF Whole, IsTorn, TornAtEnd
<1>5. InOrder4(c, <<>>, d, e)
  <2> HIDE DEF b, c, d, e
  <2> QED
    BY <1>3, <1>4 DEF InOrder4, Before
<1> DEFINE x == backup'  y == current'
<1>6. /\ InOrder4(Whole(x), Whole(y), d, e) /\ TornAtEnd(x) /\ TornAtEnd(y)
      /\ x \in Seq(0..MaxSeq) /\ y \in Seq(0..MaxSeq) /\ Len(x) <= MaxFile /\ Len(y) <= MaxFile
      /\ Len(y) + Len(batch) <= MaxFile /\ ToSet(x) \subseteq ToSet(backup) \union ToSet(current)
      /\ ToSet(y) \subseteq ToSet(backup) \union ToSet(current)
  <2>0. Len(batch) \in Nat /\ Len(batch) <= MaxPending /\ Len(current) \in Nat /\ Len(backup) <= MaxFile /\ Len(current) <= MaxFile
    BY <1>2, <1>3 DEF RoomHolds
  <2>1. CASE Full /\ backup' = current /\ current' = <<>>
    BY <1>2, <1>3, <1>4, <1>5, <2>0, <2>1 DEF LinesHold
  <2>2. CASE ~ Full /\ UNCHANGED <<backup, current, overwritten>>
    <3>1. Len(current) + Len(batch) <= MaxFile
      BY <1>2, <2>0, <2>2, <1>4 DEF Full
    <3> QED
      BY <1>2, <1>3, <2>0, <2>2, <3>1 DEF LinesHold
  <2> QED
    BY <1>1, <2>1, <2>2
<1>7. OrderHolds'
  <2>2. InOrder4(Whole(backup), Whole(current), batch, queued)' <=> InOrder4(Whole(x), Whole(y), d, e)
    BY <1>1 DEF InOrder4, Increasing, Before, Whole, IsTorn, ToSet
  <2>3. \A k \in ToSet(backup') \union ToSet(current') \union ToSet(batch') \union ToSet(queued') \union ToSet(ring') :
            k <= lastSeq'
    BY <1>1, <1>3, <1>6
  <2> QED
    BY <1>1, <1>3, <1>6, <2>2, <2>3 DEF OrderHolds, ToSet, Increasing
<1>8. LinesHold'
  BY <1>1, <1>6 DEF LinesHold, TornAtEnd, IsTorn
<1>9. RoomHolds'
  BY <1>1, <1>3, <1>6 DEF RoomHolds
<1>10. LogTypeOK'
  <2>1. overwritten' \subseteq 1..MaxSeq
    <3>1. ToSet(b) \subseteq 1..MaxSeq
      BY <1>2 DEF ToSet
    <3> QED
      BY <1>1, <1>3, <3>1 DEF LogTypeOK
  <2> QED
    BY <1>1, <1>3, <1>6, <2>1 DEF LogTypeOK
<1>11. NothingLeft'
  <2>1. written' \subseteq ToSet(current') \union ToSet(backup') \union overwritten'
    <3>1. written \subseteq ToSet(current) \union ToSet(backup) \union overwritten /\ Torn \notin written
      BY <1>3 DEF NothingLeft, LogTypeOK, Torn
    <3> QED
      BY <1>1, <1>2, <3>1
  <2> QED
    BY <1>1, <1>3, <2>1 DEF NothingLeft, Alive, ToSet
<1> QED
  BY <1>7, <1>8, <1>9, <1>10, <1>11 DEF LogInvariant

LEMMA CutKeeps == ASSUME LogInvariant, Cut PROVE LogInvariant'
<1> DEFINE c == Whole(current)
<1>1. /\ Alive /\ step = "opened" /\ step' = "cut" /\ current' = c
      /\ UNCHANGED <<backup, lastSeq, ring, queued, batch, timer, running, state, written, overwritten, faults>>
  BY DEF Cut, Repaired, Whole
<1>2. /\ MaxSeq \in Nat /\ MaxFile \in Nat /\ c \in Seq(1..MaxSeq) /\ current \in Seq(0..MaxSeq)
      /\ batch \in Seq(1..MaxSeq) /\ ToSet(c) = ToSet(current) \ {Torn}
  BY LinesAre
<1>3. LinesHold /\ RoomHolds /\ NothingLeft /\ LogTypeOK /\ OrderHolds
  BY DEF LogInvariant
<1>4. c \in Seq(0..MaxSeq) /\ ~ IsTorn(c) /\ TornAtEnd(c) /\ Whole(c) = c /\ Len(c) <= Len(current) /\ Len(c) \in Nat
  <2>1. TornAtEnd(current)
    BY <1>3 DEF LinesHold
  <2>2. Len(c) <= Len(current)
    BY <1>2, <2>1, WholeIs
  <2>3. Len(c) \in Nat
    BY <1>2
  <2> QED
    BY <1>2, <2>2, <2>3, SoundIs
<1> DEFINE y == current'
<1>5. y = c /\ Whole(y) = c
  BY <1>1, <1>4
<1>6. OrderHolds'
  <2>1. InOrder4(Whole(backup), Whole(current), batch, queued)' <=> InOrder4(Whole(backup), Whole(y), batch, queued)
    BY <1>1 DEF InOrder4, Increasing, Before, Whole, IsTorn, ToSet
  <2>2. \A k \in ToSet(backup') \union ToSet(current') \union ToSet(batch') \union ToSet(queued') \union ToSet(ring') :
            k <= lastSeq'
    BY <1>1, <1>2, <1>3 DEF OrderHolds
  <2>3. InOrder4(Whole(backup), Whole(y), batch, queued) /\ Increasing(ring)'
    BY <1>1, <1>3, <1>5 DEF OrderHolds, Increasing
  <2> QED
    BY <2>1, <2>2, <2>3 DEF OrderHolds, ToSet
<1>7. LinesHold'
  <2>1. TornAtEnd(y) /\ ~ IsTorn(y)
    BY <1>4, <1>5
  <2> QED
    BY <1>1, <1>3, <2>1 DEF LinesHold, TornAtEnd, IsTorn
<1>8. RoomHolds'
  <2>1. Len(batch) \in Nat /\ Len(current) \in Nat
    BY <1>2
  <2>2. Len(c) <= MaxFile /\ Len(c) + Len(batch) <= MaxFile
    BY <1>1, <1>2, <1>3, <1>4, <2>1 DEF RoomHolds
  <2> QED
    BY <1>1, <1>3, <2>2 DEF RoomHolds
<1>9. LogTypeOK'
  BY <1>1, <1>3, <1>4 DEF LogTypeOK
<1>10. NothingLeft'
  <2>1. Torn \notin written
    BY <1>3 DEF LogTypeOK, Torn
  <2>2. written' \subseteq ToSet(current') \union ToSet(backup') \union overwritten'
    BY <1>1, <1>2, <1>3, <2>1 DEF NothingLeft
  <2> QED
    BY <1>1, <1>3, <2>2 DEF NothingLeft, Alive, ToSet
<1> QED
  BY <1>6, <1>7, <1>8, <1>9, <1>10 DEF LogInvariant

LEMMA AppendedKeeps == ASSUME LogInvariant, Appended PROVE LogInvariant'
<1>1. /\ Alive /\ step = "cut" /\ current' = Behind(current, batch) /\ batch' = <<>> /\ step' = "none"
      /\ written' = written \union ToSet(batch)
      /\ UNCHANGED <<backup, lastSeq, ring, queued, timer, running, state, overwritten, faults>>
  BY DEF Appended
<1>2. LogReached(current')
  <2>1. current' \in Reached
    BY <1>1 DEF Reached, Partial
  <2> DEFINE r == current'
  <2>2. LogReached(r)
    BY <2>1, ReachedIs
  <2> QED
    BY <2>2
<1>3. LinesHold' /\ OrderHolds' /\ RoomHolds'
  BY <1>1, <1>2, AppendsKeep
<1>4. batch \in Seq(1..MaxSeq) /\ batch \in Seq(Nat) /\ current \in Seq(0..MaxSeq) /\ ~ IsTorn(current)
  BY <1>1, LinesAre DEF LogInvariant, LinesHold
<1>5. ToSet(current') = ToSet(current) \union ToSet(batch)
  <2>1. batch \in Seq(0..MaxSeq)
    BY <1>4, SoundIs, LinesAre
  <2>2. current' = current \o batch
    BY <1>1, <1>4 DEF Behind
  <2>3. ToSet(current \o batch) = ToSet(current) \union ToSet(batch)
    BY <1>4, <2>1, JoinedIs
  <2> QED
    BY <2>2, <2>3
<1>6. LogTypeOK /\ NothingLeft
  BY DEF LogInvariant
<1>7. LogTypeOK'
  <2>1. ToSet(batch) \subseteq 1..MaxSeq /\ <<>> \in Seq(1..MaxSeq)
    BY <1>4, MembersAre
  <2>2. current' \in Seq(0..MaxSeq)
    BY <1>2 DEF LogReached
  <2> QED
    BY <1>1, <1>6, <2>1, <2>2 DEF LogTypeOK
<1>8. NothingLeft'
  <2>1. written' \subseteq ToSet(current') \union ToSet(backup') \union overwritten'
    BY <1>1, <1>5, <1>6 DEF NothingLeft
  <2> QED
    BY <1>1, <1>6, <2>1 DEF NothingLeft, Alive, ToSet
<1> QED
  BY <1>3, <1>7, <1>8 DEF LogInvariant

LEMMA AppendFailsKeeps == ASSUME LogInvariant, AppendFails PROVE LogInvariant'
<1>1. /\ Alive /\ LogFails /\ current' \in Reached /\ batch' = <<>> /\ step' = "none"
      /\ UNCHANGED <<backup, lastSeq, ring, queued, timer, running, state, written, overwritten>>
  BY DEF AppendFails
<1>2. LogReached(current')
  <2> DEFINE r == current'
  <2>1. LogReached(r)
    BY <1>1, ReachedIs
  <2> QED
    BY <2>1
<1>3. LinesHold' /\ OrderHolds' /\ RoomHolds'
  BY <1>1, <1>2, AppendsKeep
<1>4. LogTypeOK /\ NothingLeft
  BY DEF LogInvariant
<1>5. LogTypeOK'
  <2>1. <<>> \in Seq(1..MaxSeq) /\ current' \in Seq(0..MaxSeq) /\ faults' \in 0..MaxFaults
    BY <1>1, <1>2, <1>4, LogFaults DEF LogReached
  <2> QED
    BY <1>1, <1>4, <2>1 DEF LogTypeOK
<1>6. NothingLeft'
  <2>1. ToSet(current) \subseteq ToSet(current')
    BY <1>2 DEF LogReached
  <2>2. written' \subseteq ToSet(current') \union ToSet(backup') \union overwritten'
    BY <1>1, <1>4, <2>1 DEF NothingLeft
  <2> QED
    BY <1>1, <1>4, <2>2 DEF NothingLeft, Alive, ToSet
<1> QED
  BY <1>3, <1>5, <1>6 DEF LogInvariant

LEMMA DiesKeeps == ASSUME LogInvariant, Dies PROVE LogInvariant'
<1>1. /\ Alive /\ LogFails /\ state' = "dead" /\ current' \in Reached /\ queued' = <<>> /\ batch' = <<>>
      /\ ring' = <<>> /\ timer' = FALSE /\ running' = FALSE /\ step' = "none"
      /\ UNCHANGED <<backup, lastSeq, written, overwritten>>
  BY DEF Dies
<1>2. LogReached(current')
  <2> DEFINE r == current'
  <2>1. LogReached(r)
    BY <1>1, ReachedIs
  <2> QED
    BY <2>1
<1>3. LinesHold' /\ OrderHolds' /\ RoomHolds'
  BY <1>1, <1>2, AppendsKeep
<1>4. LogTypeOK /\ NothingLeft
  BY DEF LogInvariant
<1>5. LogTypeOK'
  <2>1. <<>> \in Seq(1..MaxSeq) /\ current' \in Seq(0..MaxSeq) /\ faults' \in 0..MaxFaults
    BY <1>1, <1>2, <1>4, LogFaults DEF LogReached
  <2> QED
    BY <1>1, <1>4, <2>1 DEF LogTypeOK
<1>6. NothingLeft'
  <2>1. ToSet(current) \subseteq ToSet(current')
    BY <1>2 DEF LogReached
  <2>2. written' \subseteq ToSet(current') \union ToSet(backup') \union overwritten'
    BY <1>1, <1>4, <2>1 DEF NothingLeft
  <2> QED
    BY <1>1, <2>2 DEF NothingLeft, Alive
<1> QED
  BY <1>3, <1>5, <1>6 DEF LogInvariant

\* What is loaded is all that was written, in its order.
LEMMA AllIsLoaded ==
    ASSUME LogInvariant
    PROVE  LET records == Loaded(Loaded(<<>>, Whole(backup)), Whole(current)) IN
           /\ records \in Seq(1..MaxSeq) /\ Increasing(records)
           /\ ToSet(records) = (ToSet(backup) \union ToSet(current)) \ {Torn}
<1> DEFINE b == Whole(backup)  c == Whole(current)
<1>1. /\ MaxSeq \in Nat /\ b \in Seq(Nat) /\ c \in Seq(Nat) /\ b \in Seq(1..MaxSeq) /\ c \in Seq(1..MaxSeq)
      /\ ToSet(b) = ToSet(backup) \ {Torn} /\ ToSet(c) = ToSet(current) \ {Torn}
  BY LinesAre
<1>2. Increasing(b) /\ Increasing(c) /\ Before(b, c)
  BY DEF LogInvariant, OrderHolds, InOrder4
<1>3. ToSet(b) \subseteq 1..MaxSeq /\ ToSet(c) \subseteq 1..MaxSeq
  BY <1>1 DEF ToSet
<1> HIDE DEF b, c
<1>4. Loaded(<<>>, b) = b
  <2>1. Before(<<>>, b) /\ \A x \in ToSet(b) : x > 0
    BY <1>3, <1>1, EmptyIs DEF Before
  <2>2. Loaded(<<>>, b) = <<>> \o b
    BY <1>1, <1>2, <2>1, EmptyIs, LoadedIs
  <2>3. <<>> \o b = b
    BY <1>1
  <2> QED
    BY <2>2, <2>3
<1>5. Loaded(b, c) = b \o c
  <2>1. \A x \in ToSet(c) : x > 0
    BY <1>3, <1>1
  <2> QED
    BY <1>1, <1>2, <2>1, LoadedIs
<1>6. b \o c \in Seq(1..MaxSeq) /\ ToSet(b \o c) = ToSet(b) \union ToSet(c) /\ Increasing(b \o c)
  BY <1>1, <1>2, JoinedIs, JoinedGrows
<1>7. Loaded(Loaded(<<>>, b), c) = b \o c
  BY <1>4, <1>5
<1>8. /\ Loaded(Loaded(<<>>, b), c) \in Seq(1..MaxSeq) /\ Increasing(Loaded(Loaded(<<>>, b), c))
      /\ ToSet(Loaded(Loaded(<<>>, b), c)) = (ToSet(backup) \union ToSet(current)) \ {Torn}
  BY <1>1, <1>6, <1>7
<1> QED
  BY <1>8 DEF b, c

\* The highest number of growing lines: the last one.
LEMMA HighestIs ==
    ASSUME NEW s \in Seq(1..MaxSeq), MaxSeq \in Nat, Increasing(s)
    PROVE  Highest(s) \in 0..MaxSeq /\ \A x \in ToSet(s) : x <= Highest(s)
<1> DEFINE n == Len(s)
<1>1. n \in Nat /\ DOMAIN s = 1..n /\ \A i \in 1..n : s[i] \in 1..MaxSeq
  OBVIOUS
<1>2. CASE s = <<>>
  BY <1>2, EmptyIs DEF Highest
<1>3. CASE s # <<>>
  <2>1. n \in 1..n /\ Highest(s) = s[n]
    BY <1>1, <1>3 DEF Highest, Last
  <2> HIDE DEF n
  <2>2. \A i \in 1..n : i < n \/ i = n
    BY <1>1
  <2>3. \A i \in 1..n : s[i] <= s[n]
    BY <1>1, <2>1, <2>2 DEF Increasing
  <2> QED
    BY <1>1, <2>1, <2>3 DEF ToSet
<1> QED
  BY <1>2, <1>3

LEMMA RestartKeeps == ASSUME LogInvariant, Restart PROVE LogInvariant'
<1> DEFINE records == Loaded(Loaded(<<>>, Whole(backup)), Whole(current))
<1>1. /\ state \in {"closed", "dead"} /\ state' = "up" /\ ring' = Kept(records) /\ lastSeq' = Highest(records)
      /\ UNCHANGED <<current, backup, queued, batch, timer, running, step, written, overwritten, faults>>
  BY DEF Restart
<1>2. /\ records \in Seq(1..MaxSeq) /\ Increasing(records)
      /\ ToSet(records) = (ToSet(backup) \union ToSet(current)) \ {Torn}
  BY AllIsLoaded
<1> HIDE DEF records
<1>3. MaxSeq \in Nat /\ MaxRing \in Nat
  BY LinesAre
<1>4. Highest(records) \in 0..MaxSeq /\ \A x \in ToSet(records) : x <= Highest(records)
  BY <1>2, <1>3, HighestIs
<1>5. /\ Kept(records) \in Seq(1..MaxSeq) /\ Len(Kept(records)) <= MaxRing /\ Increasing(Kept(records))
      /\ ToSet(Kept(records)) \subseteq ToSet(records)
  BY <1>2, <1>3, KeptIs
<1>6. LinesHold /\ RoomHolds /\ NothingLeft /\ LogTypeOK /\ OrderHolds
  BY DEF LogInvariant
<1>7. queued = <<>> /\ batch = <<>>
  BY <1>1, <1>6 DEF NothingLeft, Alive
<1>8. OrderHolds'
  <2>1. InOrder4(Whole(backup), Whole(current), batch, queued)'
    BY <1>1, <1>6 DEF OrderHolds, InOrder4, Increasing, Before, Whole, IsTorn, ToSet
  <2>2. Increasing(ring)'
    BY <1>1, <1>5 DEF Increasing
  <2>3. Torn <= Highest(records)
    BY <1>3, <1>4 DEF Torn
  <2>4. \A x \in ToSet(backup') \union ToSet(current') \union ToSet(batch') \union ToSet(queued') \union ToSet(ring') :
            x <= lastSeq'
    BY <1>1, <1>2, <1>4, <1>5, <1>7, <2>3, EmptyIs
  <2> QED
    BY <2>1, <2>2, <2>4 DEF OrderHolds, ToSet
<1>9. LinesHold'
  BY <1>1, <1>6 DEF LinesHold, TornAtEnd, IsTorn
<1>10. RoomHolds'
  BY <1>1, <1>5, <1>6 DEF RoomHolds
<1>11. LogTypeOK'
  BY <1>1, <1>4, <1>5, <1>6 DEF LogTypeOK
<1>12. NothingLeft'
  BY <1>1, <1>6, <1>7 DEF NothingLeft, Alive, ToSet
<1> QED
  BY <1>8, <1>9, <1>10, <1>11, <1>12 DEF LogInvariant

LEMMA LogStutters == ASSUME LogInvariant, UNCHANGED logVars PROVE LogInvariant'
<1>1. UNCHANGED <<current, backup, lastSeq, ring, queued, batch, timer, running, state, step, written,
                  overwritten, faults>>
  BY DEF logVars
<1>2. LinesHold' /\ OrderHolds' /\ RoomHolds'
  BY <1>1, FilesSame
<1>3. LogTypeOK' /\ NothingLeft'
  BY <1>1 DEF LogInvariant, LogTypeOK, NothingLeft, Alive, ToSet
<1> QED
  BY <1>2, <1>3 DEF LogInvariant

\* Every step keeps the invariant.
LEMMA LogGoesOn == LogInvariant /\ [LogNext]_logVars => LogInvariant'
  BY RecordKeeps, DrainKeeps, CloseLogKeeps, TakeBatchKeeps, OpenedKeeps, CutKeeps, AppendedKeeps,
     AppendFailsKeeps, DrainedKeeps, DiesKeeps, RestartKeeps, LogStutters DEF LogNext

(***************************************************************************)
(* The invariant of the log: the lines of the two files, of the batch that  *)
(* is appended and of those that wait follow one another in their numbers,  *)
(* only the last line of a file may be torn, and what was written is there. *)
(***************************************************************************)
THEOREM LogCorrect == LogSpec => []LogInvariant
<1>1. LogInit => LogInvariant
  BY LogStarts
<1>2. LogInvariant /\ [LogNext]_logVars => LogInvariant'
  BY LogGoesOn
<1> QED
  BY <1>1, <1>2, PTL DEF LogSpec

(***************************************************************************)
(* A record that was counted as written is read again by every daemon that  *)
(* comes, in its order and once, until a rotation overwrites its file,      *)
(* wherever an append or a daemon stops; and close() leaves none behind     *)
(* (runtime/daemon/diagnostics.mjs).                                        *)
(***************************************************************************)
THEOREM LogIsKept == LogSpec => []LogHolds
<1>1. LogInvariant => LogHolds
  <2> SUFFICES ASSUME LogInvariant PROVE LogHolds
    OBVIOUS
  <2>1. LinesHold /\ RoomHolds /\ NothingLeft /\ OrderHolds
    BY DEF LogInvariant
  <2>2. Increasing(Whole(backup) \o Whole(current))
    BY <2>1, LinesAre, JoinedGrows DEF OrderHolds, InOrder4
  <2>3. Increasing(ring)
    BY <2>1 DEF OrderHolds
  <2>4. \A i \in DOMAIN current : current[i] = Torn => i = Len(current)
    BY <2>1 DEF LinesHold, TornAtEnd
  <2>5. state = "closed" => queued = <<>> /\ batch = <<>>
    BY <2>1 DEF NothingLeft, Alive
  <2> QED
    BY <2>1, <2>2, <2>3, <2>4, <2>5 DEF LogHolds, NothingLeft, RoomHolds
<1> QED
  BY <1>1, LogCorrect, PTL

(***************************************************************************)
(* Reads of the model (model-api.mjs). The invariant, and lemmas.           *)
(***************************************************************************)

\* What a reader has been given is the start of what was listed for it.
PagesHold ==
    /\ read.seal \subseteq Records
    /\ \E n \in 0..Len(Listed(read.seal, read.kind)) :
          /\ read.given = SubSeq(Listed(read.seal, read.kind), 1, n)
          /\ read.done => n = Len(Listed(read.seal, read.kind))

\* The types that matter, without the bounds of a run.
Grants == [Holders -> [state : {"none", "asked", "live", "gone"}, expires : Nat]]

Models == [revision : Nat, held : SUBSET Records, hidden : SUBSET Records]

IsClient(c) == c = [id |-> c.id, to |-> c.to, position |-> c.position]

\* The invariant.
AccessInvariant ==
    /\ clock \in Nat /\ grants \in Grants /\ model \in Models
    /\ IsFiniteSet(clients) /\ \A c \in clients : IsClient(c)
    /\ Bounded
    /\ PagesHold

\* The start of a sequence, and how it goes on.
LEMMA PrefixIs ==
    ASSUME NEW N, NEW rows \in Seq(N), NEW n \in 0..Len(rows)
    PROVE  /\ Len(SubSeq(rows, 1, n)) = n /\ IsPrefix(SubSeq(rows, 1, n), rows)
           /\ SubSeq(rows, 1, Len(rows)) = rows
<1>1. SubSeq(rows, 1, n) \in Seq(N) /\ Len(SubSeq(rows, 1, n)) = n /\ n <= Len(rows)
  OBVIOUS
<1>2. SubSeq(SubSeq(rows, 1, n), 1, n) = SubSeq(rows, 1, n)
  OBVIOUS
<1>3. SubSeq(rows, 1, Len(rows)) = rows
  OBVIOUS
<1> QED
  BY <1>1, <1>2, <1>3 DEF IsPrefix

\* The next page goes on where the one before it ended.
LEMMA PrefixGoesOn ==
    ASSUME NEW N, NEW rows \in Seq(N), NEW n \in 0..Len(rows), NEW m \in n..Len(rows)
    PROVE  SubSeq(rows, 1, n) \o SubSeq(rows, n + 1, m) = SubSeq(rows, 1, m)
<1> DEFINE u == SubSeq(rows, 1, n) \o SubSeq(rows, n + 1, m)  v == SubSeq(rows, 1, m)
<1>1. n \in Nat /\ m \in Nat /\ n <= m /\ m <= Len(rows)
  OBVIOUS
<1>2. /\ u \in Seq(N) /\ v \in Seq(N) /\ Len(u) = m /\ Len(v) = m
      /\ \A i \in 1..m : u[i] = rows[i] /\ v[i] = rows[i]
  BY <1>1
<1> HIDE DEF u, v
<1>3. u = v
  <2>1. u = [i \in 1..m |-> u[i]] /\ v = [i \in 1..m |-> v[i]]
    BY <1>1, <1>2
  <2> QED
    BY <1>2, <2>1
<1> QED
  BY <1>3 DEF u, v

\* The lower one of two numbers.
LEMMA LowerIs ==
    ASSUME NEW a \in Nat, NEW b \in Nat
    PROVE  Min({a, b}) = IF a <= b THEN a ELSE b
<1>1. \E x \in {a, b} : \A y \in {a, b} : x <= y
  <2>1. a <= b \/ b <= a
    OBVIOUS
  <2> QED
    BY <2>1
<1>2. Min({a, b}) \in {a, b} /\ \A y \in {a, b} : Min({a, b}) <= y
  BY <1>1 DEF Min
<1> QED
  BY <1>2

\* What is listed is a sequence.
LEMMA ListedIs ==
    ASSUME NEW seal \in SUBSET Records, NEW kind
    PROVE  \E N : Listed(seal, kind) \in Seq(N) /\ Len(Listed(seal, kind)) \in Nat
<1> DEFINE rows == {r \in seal : r[1] = kind}  n == Cardinality(rows)  l == Listed(seal, kind)
<1>1. IsFiniteSet(rows)
  <2>1. IsFiniteSet(Records) /\ rows \in SUBSET Records
    BY AccessAssumption
  <2> HIDE DEF rows
  <2> QED
    BY <2>1, FS_Subset
<1>2. n \in Nat
  BY <1>1, FS_CardinalityType
<1>3. l = [i \in 1..n |-> l[i]]
  BY DEF Listed
<1> DEFINE N == {l[i] : i \in 1..n}
<1>4. l \in Seq(N) /\ Len(l) = n
  <2> HIDE DEF n, l
  <2>1. \A i \in 1..n : l[i] \in N
    OBVIOUS
  <2>2. l \in [1..n -> N]
    <3> HIDE DEF N
    <3> QED
      BY <1>3, <2>1
  <2> HIDE DEF N
  <2> QED
    BY <1>2, <2>2
<1> QED
  BY <1>2, <1>4

\* A snapshot shows no more than is listed.
LEMMA SnapshotFits ==
    ASSUME NEW seal \in SUBSET Records, NEW kind, NEW limit
    PROVE  snapshotCount(seal, kind, limit) \in 0..Len(Listed(seal, kind))
<1> DEFINE n == Len(Listed(seal, kind))  T == {i \in 1..n : Rank(seal, kind, i) <= limit}
<1>1. n \in Nat
  BY ListedIs
<1> HIDE DEF n
<1>2. IsFiniteSet(1..n) /\ Cardinality(1..n) = n
  BY <1>1, FS_Interval
<1>3. T \in SUBSET (1..n)
  OBVIOUS
<1> HIDE DEF T
<1>4. IsFiniteSet(T) /\ Cardinality(T) <= n /\ Cardinality(T) \in Nat
  BY <1>2, <1>3, FS_Subset, FS_CardinalityType
<1> QED
  BY <1>1, <1>4 DEF snapshotCount, T, n

\* Those who have a grant, in any map of grants.
LiveIn(g) == {h \in Holders : g[h].state = "live"}

\* A grant that is removed keeps the time at which it expires.
LEMMA GoneIs ==
    ASSUME NEW g \in [state : {"none", "asked", "live", "gone"}, expires : Nat], NEW st
    PROVE  [g EXCEPT !.state = st] = [state |-> st, expires |-> g.expires]
  OBVIOUS

\* Removing grants leaves the others as they are.
LEMMA RemovedIs ==
    ASSUME grants \in Grants, NEW gone
    PROVE  /\ Removed(gone) \in Grants
           /\ \A h \in Holders : Removed(gone)[h].expires = grants[h].expires
           /\ LiveIn(Removed(gone)) = Live \ gone
<1>1. \A h \in Holders : /\ grants[h].state \in {"none", "asked", "live", "gone"} /\ grants[h].expires \in Nat
                         /\ grants[h] = [state |-> grants[h].state, expires |-> grants[h].expires]
  BY DEF Grants
<1>2. \A h \in Holders : Removed(gone)[h] = IF h \in gone THEN [grants[h] EXCEPT !.state = "gone"] ELSE grants[h]
  BY DEF Removed
<1>3. \A h \in Holders : [grants[h] EXCEPT !.state = "gone"] = [state |-> "gone", expires |-> grants[h].expires]
  <2>1. \A h \in Holders : grants[h] \in [state : {"none", "asked", "live", "gone"}, expires : Nat]
    BY DEF Grants
  <2> QED
    BY <2>1, GoneIs
<1>4. \A h \in Holders : Removed(gone)[h] =
         [state |-> IF h \in gone THEN "gone" ELSE grants[h].state, expires |-> grants[h].expires]
  BY <1>1, <1>2, <1>3
<1>5. Removed(gone) \in Grants
  <2>1. Removed(gone) = [h \in Holders |-> Removed(gone)[h]]
    BY DEF Removed
  <2> QED
    BY <1>1, <1>4, <2>1 DEF Grants
<1>6. ASSUME NEW h \in Holders
      PROVE  /\ Removed(gone)[h].expires = grants[h].expires
             /\ Removed(gone)[h].state = (IF h \in gone THEN "gone" ELSE grants[h].state)
  <2> DEFINE st == IF h \in gone THEN "gone" ELSE grants[h].state  expires == grants[h].expires
             r == Removed(gone)[h]
  <2>1. r = [state |-> st, expires |-> expires]
    BY <1>4
  <2> HIDE DEF st, expires, r
  <2>2. r.state = st /\ r.expires = expires
    BY <2>1
  <2> QED
    BY <2>2 DEF st, expires, r
<1>7. \A h \in Holders : Removed(gone)[h].state = "live" <=> h \notin gone /\ grants[h].state = "live"
  BY <1>6
<1>8. LiveIn(Removed(gone)) = Live \ gone
  BY <1>7 DEF LiveIn, Live
<1> QED
  BY <1>5, <1>6, <1>8

\* Time does not go back.
LEMMA LaterIs == ASSUME clock \in Nat, clock' \in Later PROVE clock' \in Nat /\ clock <= clock'
<1>1. clock' \in clock..clock \/ clock' \in clock..(clock + 1)
  BY DEF Later
<1> QED
  BY <1>1

\* What has not expired expires later; what has expired stays so.
LEMMA ExpiredIs ==
    ASSUME grants \in Grants, NEW now \in Nat
    PROVE  /\ Expired(now) \subseteq Live
           /\ \A h \in Live \ Expired(now) : grants[h].expires > now
           /\ \A then \in Nat : now <= then => Expired(now) \subseteq Expired(then)
<1>1. \A h \in Live : h \in Holders /\ grants[h].expires \in Nat
  BY DEF Live, Grants
<1>2. \A h \in Live, then \in Nat : grants[h].expires <= now /\ now <= then => grants[h].expires <= then
  BY <1>1
<1>3. \A h \in Live : ~ (grants[h].expires <= now) => grants[h].expires > now
  BY <1>1
<1> QED
  BY <1>2, <1>3 DEF Expired

\* The live grants can be counted.
LEMMA LiveFinite == IsFiniteSet(Live) /\ Cardinality(Live) \in Nat
<1>1. Live \in SUBSET Holders /\ IsFiniteSet(Holders)
  BY AccessAssumption DEF Live
<1> QED
  BY <1>1, FS_Subset, FS_CardinalityType

\* What is taken from a set within a limit stays within it.
LEMMA SmallerStays ==
    ASSUME NEW S, IsFiniteSet(S), NEW T \in SUBSET S, NEW n \in Nat, Cardinality(S) <= n
    PROVE  IsFiniteSet(T) /\ Cardinality(T) <= n
<1>1. IsFiniteSet(T) /\ Cardinality(T) <= Cardinality(S) /\ Cardinality(T) \in Nat /\ Cardinality(S) \in Nat
  BY FS_Subset, FS_CardinalityType
<1> QED
  BY <1>1

\* Everything but who may read is as it was.
LEMMA GrantsGo ==
    ASSUME AccessInvariant, NEW gone, grants' = Removed(gone), NEW staying \in SUBSET clients,
           clients' = staying, \A c \in staying : c.to \notin gone, closed' = closed \/ (clients' = {} /\ LiveIn(Removed(gone)) = {})
    PROVE  grants' \in Grants /\ IsFiniteSet(clients') /\ (\A c \in clients' : IsClient(c)) /\ Bounded'
<1>1. /\ grants \in Grants /\ IsFiniteSet(clients) /\ (\A c \in clients : IsClient(c))
      /\ Cardinality(Live) <= MaxGrants /\ Cardinality(clients) <= MaxStreams
      /\ (\A c \in clients : c.to \in Live \union {Viewer}) /\ (closed => Live = {} /\ clients = {})
      /\ MaxGrants \in Nat /\ MaxStreams \in Nat
  BY AccessAssumption DEF AccessInvariant, Bounded
<1>2. grants' \in Grants /\ Live' = Live \ gone
  <2>1. Live' = LiveIn(Removed(gone))
    BY DEF Live, LiveIn
  <2> QED
    BY <1>1, <2>1, RemovedIs
<1>3. IsFiniteSet(clients') /\ Cardinality(clients') <= MaxStreams
  BY <1>1, SmallerStays
<1>4. Cardinality(Live') <= MaxGrants
  <2>1. Live \ gone \in SUBSET Live
    OBVIOUS
  <2>2. Cardinality(Live \ gone) <= MaxGrants
    BY <1>1, <2>1, LiveFinite, SmallerStays
  <2> QED
    BY <1>2, <2>2
<1>5. \A c \in clients' : c.to \in Live' \union {Viewer}
  BY <1>1, <1>2
<1>6. closed' => Live' = {} /\ clients' = {}
  <2>1. Live' = LiveIn(Removed(gone))
    BY DEF Live, LiveIn
  <2> QED
    BY <1>1, <1>2, <2>1
<1> QED
  BY <1>1, <1>2, <1>3, <1>4, <1>5, <1>6 DEF Bounded

\* ... when the grants and the streams that go with them are removed.
LEMMA RemovingKeeps ==
    ASSUME AccessInvariant, NEW gone, removeGrants(gone), closed' = closed
    PROVE  grants' \in Grants /\ IsFiniteSet(clients') /\ (\A c \in clients' : IsClient(c)) /\ Bounded'
<1> DEFINE staying == Staying(gone)
<1>1. /\ grants' = Removed(gone) /\ clients' = staying
      /\ staying \in SUBSET clients /\ \A c \in staying : c.to \notin gone
  BY DEF removeGrants, Staying
<1> HIDE DEF staying
<1>2. closed' = closed \/ (clients' = {} /\ LiveIn(Removed(gone)) = {})
  OBVIOUS
<1> QED
  BY <1>1, <1>2, GrantsGo

\* The API starts as the invariant says.
LEMMA AccessStarts == AccessInit => AccessInvariant
<1> SUFFICES ASSUME AccessInit PROVE AccessInvariant
  OBVIOUS
<1>1. /\ clock = 0 /\ model = [revision |-> 0, held |-> Records, hidden |-> {}]
      /\ grants = [h \in Holders |-> [state |-> "none", expires |-> 0]]
      /\ clients = {} /\ closed = FALSE /\ read = NoRead
  BY DEF AccessInit
<1>2. Live = {}
  BY <1>1 DEF Live
<1>3. Bounded
  <2>1. MaxGrants \in Nat /\ MaxStreams \in Nat
    BY AccessAssumption
  <2> QED
    BY <1>1, <1>2, <2>1, FS_EmptySet DEF Bounded
<1>4. PagesHold
  <2>1. read.seal = {} /\ read.given = <<>> /\ read.kind = 1
    BY <1>1 DEF NoRead
  <2> DEFINE l == Listed({}, 1)
  <2>2. l = <<>> /\ Len(l) = 0 /\ SubSeq(l, 1, 0) = <<>>
    <3>1. {r \in {} : r[1] = 1} = {} /\ Cardinality({}) = 0
      BY FS_EmptySet
    <3>2. l = [i \in 1..0 |-> l[i]]
      BY <3>1 DEF Listed
    <3> HIDE DEF l
    <3>3. l = <<>>
      BY <3>2
    <3> QED
      BY <3>3
  <2> QED
    BY <2>1, <2>2 DEF PagesHold
<1> QED
  BY <1>1, <1>3, <1>4, FS_EmptySet DEF AccessInvariant, Grants, Models

\* What is answered is the start of what is listed.
LEMMA AnsweredIs ==
    ASSUME AccessInvariant, NEW reader, NEW kind, NEW n \in 0..Len(Listed(Disclosed(reader), kind)),
           Answered(reader, kind, SubSeq(Listed(Disclosed(reader), kind), 1, n))
    PROVE  PagesHold' /\ read'.by = reader
<1> DEFINE seal == Disclosed(reader)  l == Listed(seal, kind)  g == SubSeq(l, 1, n)  y == read'
<1>1. seal \subseteq Records
  BY DEF Disclosed, AccessInvariant, Models
<1>2. /\ y.by = reader /\ y.seal = seal /\ y.kind = kind /\ y.given = g
      /\ y.done = (Len(g) = Len(l))
  BY DEF Answered
<1>3. Len(g) = n
  BY <1>1, ListedIs, PrefixIs
<1> HIDE DEF seal, g
<1>4. Listed(y.seal, y.kind) = l
  BY <1>2
<1>5. y.seal \subseteq Records /\ y.given = SubSeq(l, 1, n) /\ (y.done => n = Len(l))
  BY <1>1, <1>2, <1>3 DEF g
<1>6. \E k \in 0..Len(Listed(y.seal, y.kind)) :
          /\ y.given = SubSeq(Listed(y.seal, y.kind), 1, k)
          /\ y.done => k = Len(Listed(y.seal, y.kind))
  <2>1. n \in 0..Len(l)
    BY DEF seal
  <2> HIDE DEF y, l
  <2> QED
    BY <1>4, <1>5, <2>1
<1>7. PagesHold' <=> /\ y.seal \subseteq Records
                     /\ \E k \in 0..Len(Listed(y.seal, y.kind)) :
                           /\ y.given = SubSeq(Listed(y.seal, y.kind), 1, k)
                           /\ y.done => k = Len(Listed(y.seal, y.kind))
  BY DEF PagesHold
<1> QED
  BY <1>2, <1>5, <1>6, <1>7

\* The invariant from its parts.
LEMMA AccessParts ==
    ASSUME clock' \in Nat, model' \in Models, PagesHold',
           grants' \in Grants, IsFiniteSet(clients'), \A c \in clients' : IsClient(c), Bounded'
    PROVE  AccessInvariant'
  BY DEF AccessInvariant, IsClient

\* What the invariant says, part by part.
LEMMA AccessHas ==
    ASSUME AccessInvariant
    PROVE  /\ clock \in Nat /\ model \in Models /\ PagesHold
           /\ grants \in Grants /\ IsFiniteSet(clients) /\ (\A c \in clients : IsClient(c)) /\ Bounded
  BY DEF AccessInvariant

\* A read that nobody goes on with stays what it was.
LEMMA PagesSame == ASSUME PagesHold, UNCHANGED read PROVE PagesHold'
  BY DEF PagesHold

\* Who may read stays as it was.
LEMMA ReadersSame ==
    ASSUME AccessInvariant, UNCHANGED <<grants, clients, closed>>
    PROVE  grants' \in Grants /\ IsFiniteSet(clients') /\ (\A c \in clients' : IsClient(c)) /\ Bounded'
  BY AccessHas DEF Bounded, Live

LEMMA TickKeeps == ASSUME AccessInvariant, Tick PROVE AccessInvariant' /\ OnlyTheGranted
<1>1. clock' = clock + 1 /\ UNCHANGED <<model, grants, clients, sequence, flushing, closed, read>>
  BY DEF Tick
<1>2. clock' \in Nat /\ model' \in Models
  BY <1>1, AccessHas
<1> QED
  BY <1>1, <1>2, AccessHas, PagesSame, ReadersSame, AccessParts DEF OnlyTheGranted, Served

LEMMA ModelChangesKeeps == ASSUME AccessInvariant, ModelChanges PROVE AccessInvariant' /\ OnlyTheGranted
<1>1. UNCHANGED <<clock, grants, clients, sequence, flushing, closed, read>>
  BY DEF ModelChanges
<1>2. PICK record \in model.held \ model.hidden :
        \/ model' = [model EXCEPT !.held = @ \ {record}, !.revision = @ + 1]
        \/ model' = [model EXCEPT !.hidden = @ \union {record}]
  BY DEF ModelChanges
<1>3. model' \in Models
  <2>1. model \in Models /\ record \in Records /\ model.revision + 1 \in Nat
    BY <1>2, AccessHas DEF Models
  <2>2. CASE model' = [model EXCEPT !.hidden = @ \union {record}]
    BY <2>1, <2>2 DEF Models
  <2>3. CASE model' = [model EXCEPT !.held = @ \ {record}, !.revision = @ + 1]
    <3> DEFINE v == [model EXCEPT !.held = @ \ {record}]
    <3>1. v \in Models /\ v.revision = model.revision
      BY <2>1 DEF Models
    <3>2. model' = [v EXCEPT !.revision = model.revision + 1]
      BY <2>3, <2>1 DEF Models
    <3> HIDE DEF v
    <3> QED
      BY <2>1, <3>1, <3>2 DEF Models
  <2> QED
    BY <1>2, <2>2, <2>3
<1> QED
  BY <1>1, <1>3, AccessHas, PagesSame, ReadersSame, AccessParts DEF OnlyTheGranted, Served

LEMMA NotifyKeeps == ASSUME AccessInvariant, notify PROVE AccessInvariant' /\ OnlyTheGranted
<1>1. UNCHANGED <<clock, model, grants, clients, closed, read>>
  BY DEF notify
<1> QED
  BY <1>1, AccessHas, PagesSame, ReadersSame, AccessParts DEF OnlyTheGranted, Served

LEMMA ExpireKeeps == ASSUME AccessInvariant, Expire PROVE AccessInvariant' /\ OnlyTheGranted
<1> DEFINE gone == Expired(clock)
<1>1. /\ grants' = Removed(gone) /\ clients' = Staying(gone)
      /\ UNCHANGED <<clock, model, sequence, flushing, closed, read>>
  BY DEF Expire, sweep, removeGrants
<1>2. removeGrants(gone) /\ closed' = closed
  BY <1>1 DEF removeGrants
<1>3. grants' \in Grants /\ IsFiniteSet(clients') /\ (\A c \in clients' : IsClient(c)) /\ Bounded'
  BY <1>2, RemovingKeeps
<1>4. clients' \subseteq clients
  BY <1>1 DEF Staying
<1> QED
  BY <1>1, <1>3, <1>4, AccessHas, PagesSame, AccessParts DEF OnlyTheGranted, Served

LEMMA RevokeKeeps ==
    ASSUME AccessInvariant, NEW h \in Holders, Revoke(h) PROVE AccessInvariant' /\ OnlyTheGranted
<1>1. /\ grants' = Removed({h}) /\ clients' = Staying({h})
      /\ UNCHANGED <<clock, model, sequence, flushing, closed, read>>
  BY DEF Revoke, removeGrants
<1>2. removeGrants({h}) /\ closed' = closed
  BY <1>1 DEF removeGrants
<1>3. grants' \in Grants /\ IsFiniteSet(clients') /\ (\A c \in clients' : IsClient(c)) /\ Bounded'
  BY <1>2, RemovingKeeps
<1>4. clients' \subseteq clients
  BY <1>1 DEF Staying
<1> QED
  BY <1>1, <1>3, <1>4, AccessHas, PagesSame, AccessParts DEF OnlyTheGranted, Served

LEMMA CloseAccessKeeps == ASSUME AccessInvariant, close PROVE AccessInvariant' /\ OnlyTheGranted
<1>1. /\ grants' = Removed(Live) /\ clients' = {} /\ closed' = TRUE
      /\ UNCHANGED <<clock, model, sequence, read>>
  BY DEF close
<1>2. LiveIn(Removed(Live)) = {}
  <2>1. LiveIn(Removed(Live)) = Live \ Live
    BY AccessHas, RemovedIs
  <2> QED
    BY <2>1
<1>3. grants' \in Grants /\ IsFiniteSet(clients') /\ (\A c \in clients' : IsClient(c)) /\ Bounded'
  BY <1>1, <1>2, GrantsGo
<1> QED
  BY <1>1, <1>3, AccessHas, PagesSame, AccessParts DEF OnlyTheGranted, Served

LEMMA LeavesKeeps == ASSUME AccessInvariant, Leaves PROVE AccessInvariant' /\ OnlyTheGranted
<1>1. PICK c \in clients : clients' = clients \ {c}
  BY DEF Leaves
<1>2. UNCHANGED <<clock, model, grants, sequence, flushing, closed, read>>
  BY DEF Leaves
<1>3. grants' \in Grants /\ IsFiniteSet(clients') /\ (\A d \in clients' : IsClient(d)) /\ Bounded'
  <2>1. MaxStreams \in Nat /\ clients \ {c} \in SUBSET clients
    BY AccessAssumption
  <2>2. IsFiniteSet(clients') /\ Cardinality(clients') <= MaxStreams
    BY <1>1, <2>1, AccessHas, SmallerStays DEF Bounded
  <2> QED
    BY <1>1, <1>2, <2>2, AccessHas DEF Bounded, Live
<1> QED
  BY <1>1, <1>2, <1>3, AccessHas, PagesSame, AccessParts DEF OnlyTheGranted, Served

LEMMA AskGrantKeeps ==
    ASSUME AccessInvariant, NEW h \in Holders, AskGrant(h) PROVE AccessInvariant' /\ OnlyTheGranted
<1>1. /\ grants[h].state = "none" /\ grants' = [grants EXCEPT ![h].state = "asked"]
      /\ UNCHANGED <<clock, model, clients, sequence, flushing, closed, read>>
  BY DEF AskGrant
<1>2. grants \in Grants
  BY AccessHas
<1>3. grants' \in Grants /\ Live' = Live
  <2> DEFINE g == [grants[h] EXCEPT !.state = "asked"]
  <2>1. g = [state |-> "asked", expires |-> grants[h].expires]
    BY <1>2, GoneIs DEF Grants
  <2>2. grants' = [grants EXCEPT ![h] = g]
    BY <1>1
  <2>3. g \in [state : {"none", "asked", "live", "gone"}, expires : Nat] /\ g.state = "asked"
    BY <1>2, <2>1 DEF Grants
  <2> HIDE DEF g
  <2>4. grants' \in Grants
    BY <1>2, <2>2, <2>3 DEF Grants
  <2>5. \A k \in Holders : grants'[k] = IF k = h THEN g ELSE grants[k]
    BY <1>2, <2>2 DEF Grants
  <2> QED
    BY <1>1, <2>3, <2>4, <2>5 DEF Live
<1>4. IsFiniteSet(clients') /\ (\A d \in clients' : IsClient(d)) /\ Bounded'
  BY <1>1, <1>3, AccessHas DEF Bounded
<1> QED
  BY <1>1, <1>3, <1>4, AccessHas, PagesSame, AccessParts DEF OnlyTheGranted, Served

LEMMA MakeGrantKeeps ==
    ASSUME AccessInvariant, NEW h \in Holders, MakeGrant(h) PROVE AccessInvariant' /\ OnlyTheGranted
<1> DEFINE gone == Expired(clock)
<1>0. grants[h].state = "asked" /\ UNCHANGED <<clock, model, sequence, flushing, closed, read>>
  BY DEF MakeGrant
<1>00. grants \in Grants /\ clock \in Nat /\ GrantTtl \in Nat /\ MaxGrants \in Nat
  BY AccessHas, AccessAssumption
<1>1. CASE /\ ~ closed /\ Cardinality(Live \ gone) < MaxGrants
           /\ grants' = [Removed(gone) EXCEPT ![h] = [state |-> "live", expires |-> clock + GrantTtl]]
           /\ clients' = Staying(gone)
  <2> DEFINE g == [state |-> "live", expires |-> clock + GrantTtl]  m == Removed(gone)
  <2>1. m \in Grants /\ LiveIn(m) = Live \ gone
    BY <1>00, RemovedIs
  <2>2. g \in [state : {"none", "asked", "live", "gone"}, expires : Nat] /\ g.state = "live"
    BY <1>00
  <2>3. grants' = [m EXCEPT ![h] = g]
    BY <1>1
  <2> HIDE DEF g, m
  <2>4. grants' \in Grants /\ \A k \in Holders : grants'[k] = IF k = h THEN g ELSE m[k]
    BY <2>1, <2>2, <2>3 DEF Grants
  <2>5. Live' = (Live \ gone) \union {h}
    <3>1. Live' = LiveIn(m) \union {h}
      BY <2>2, <2>4 DEF Live, LiveIn
    <3> QED
      BY <2>1, <3>1
  <2>6. Cardinality(Live') <= MaxGrants
    <3>1. Live \ gone \in SUBSET Live
      OBVIOUS
    <3>2. IsFiniteSet(Live \ gone) /\ Cardinality(Live \ gone) \in Nat
      BY <3>1, LiveFinite, FS_Subset, FS_CardinalityType
    <3> DEFINE n == Cardinality(Live \ gone)
    <3>3. Cardinality(Live') = n \/ Cardinality(Live') = n + 1
      BY <2>5, <3>2, FS_AddElement
    <3>4. n \in Nat /\ n < MaxGrants
      BY <1>1, <3>2
    <3> HIDE DEF n
    <3> QED
      BY <1>00, <3>3, <3>4
  <2>7. Staying(gone) \in SUBSET clients /\ \A c \in Staying(gone) : c.to \notin gone
    BY DEF Staying
  <2>8. IsFiniteSet(clients') /\ Cardinality(clients') <= MaxStreams
    BY <1>1, <2>7, AccessHas, AccessAssumption, SmallerStays DEF Bounded
  <2>9. Bounded'
    BY <1>0, <1>1, <2>5, <2>6, <2>7, <2>8, AccessHas DEF Bounded
  <2>10. \A c \in clients' : IsClient(c)
    BY <1>1, <2>7, AccessHas
  <2>11. OnlyTheGranted
    BY <1>0, <1>1, <2>7 DEF OnlyTheGranted, Served
  <2> QED
    BY <1>0, <2>4, <2>8, <2>9, <2>10, <2>11, AccessHas, PagesSame, AccessParts
<1>2. CASE removeGrants({h} \union gone)
  <2>1. /\ grants' = Removed({h} \union gone) /\ clients' = Staying({h} \union gone)
        /\ Staying({h} \union gone) \subseteq clients
        /\ \A c \in Staying({h} \union gone) : c.to \notin {h} \union gone
    BY <1>2 DEF removeGrants, Staying
  <2>2. grants' \in Grants /\ IsFiniteSet(clients') /\ (\A c \in clients' : IsClient(c)) /\ Bounded'
    BY <1>0, <1>2, RemovingKeeps
  <2> QED
    BY <1>0, <2>1, <2>2, AccessHas, PagesSame, AccessParts DEF OnlyTheGranted, Served
<1> QED
  BY <1>1, <1>2 DEF MakeGrant

LEMMA FlushKeeps == ASSUME AccessInvariant, Flush PROVE AccessInvariant' /\ OnlyTheGranted
<1> DEFINE gone == Expired(clock')
           kept == {c \in clients : c.to = Viewer \/ grants[c.to].expires > clock'}
           Sent(c) == [c EXCEPT !.position = sequence]
<1>1. /\ clock' \in Later /\ grants' = Removed(gone) /\ clients' = {Sent(c) : c \in kept}
      /\ UNCHANGED <<model, sequence, closed, read>>
  BY DEF Flush
<1>2. clock' \in Nat /\ grants \in Grants /\ MaxStreams \in Nat
  BY <1>1, AccessHas, LaterIs, AccessAssumption
<1>3. kept \in SUBSET clients /\ \A c \in kept : IsClient(c) /\ (c.to = Viewer \/ grants[c.to].expires > clock')
  BY AccessHas
<1>4. \A c \in kept : c.to # Viewer => c.to \in Live \ gone
  <2>1. \A c \in kept : c.to # Viewer => c.to \in Live
    BY <1>3, AccessHas DEF Bounded
  <2>2. \A h \in Live : grants[h].expires \in Nat
    BY <1>2 DEF Grants, Live
  <2>3. \A h \in Live : grants[h].expires > clock' => ~ (grants[h].expires <= clock')
    BY <1>2, <2>2
  <2> QED
    BY <1>3, <2>1, <2>3 DEF Expired
<1>5. \A c \in kept : Sent(c) = [id |-> c.id, to |-> c.to, position |-> sequence]
  BY <1>3 DEF IsClient
<1> HIDE DEF Sent, kept
<1>6. \A c \in kept : Sent(c).to = c.to /\ IsClient(Sent(c))
  BY <1>5 DEF IsClient
<1>7. grants' \in Grants /\ Live' = Live \ gone
  <2>1. Live' = LiveIn(Removed(gone))
    BY <1>1 DEF Live, LiveIn
  <2> QED
    BY <1>1, <1>2, <2>1, RemovedIs
<1>8. IsFiniteSet(clients') /\ Cardinality(clients') <= MaxStreams
  <2>1. IsFiniteSet(kept) /\ Cardinality(kept) <= MaxStreams
    BY <1>2, <1>3, AccessHas, SmallerStays DEF Bounded
  <2> DEFINE f == [c \in kept |-> Sent(c)]
  <2>2. f \in Surjection(kept, clients')
    BY <1>1 DEF Surjection
  <2>3. IsFiniteSet(clients') /\ Cardinality(clients') <= Cardinality(kept)
    BY <2>1, <2>2, FS_Surjection
  <2>4. Cardinality(clients') \in Nat /\ Cardinality(kept) \in Nat
    BY <2>1, <2>3, FS_CardinalityType
  <2> QED
    BY <1>2, <2>1, <2>3, <2>4
<1>9. Cardinality(Live') <= MaxGrants
  <2>1. Live \ gone \in SUBSET Live /\ MaxGrants \in Nat /\ Cardinality(Live) <= MaxGrants
    BY AccessHas, AccessAssumption DEF Bounded
  <2>2. Cardinality(Live \ gone) <= MaxGrants
    BY <2>1, LiveFinite, SmallerStays
  <2> QED
    BY <1>7, <2>2
<1>10. \A d \in clients' : IsClient(d) /\ d.to \in Live' \union {Viewer}
  BY <1>1, <1>4, <1>6, <1>7
<1>11. closed' => Live' = {} /\ clients' = {}
  BY <1>1, <1>3, <1>7, AccessHas DEF Bounded
<1>12. OnlyTheGranted
  <2> SUFFICES ASSUME NEW h \in Holders, Served(h) PROVE h \in Live /\ grants[h].expires > clock'
    BY DEF OnlyTheGranted
  <2>1. PICK d \in clients' : d.to = h
    BY <1>1 DEF Served
  <2>2. PICK c \in kept : d = Sent(c)
    BY <1>1
  <2>3. c.to = h /\ h # Viewer
    BY <1>6, <2>1, <2>2, AccessAssumption
  <2> QED
    BY <1>3, <1>4, <2>3
<1>13. Bounded'
  BY <1>8, <1>9, <1>10, <1>11 DEF Bounded
<1> QED
  BY <1>1, <1>2, <1>7, <1>8, <1>10, <1>12, <1>13, AccessHas, PagesSame, AccessParts

LEMMA SubscribeKeeps ==
    ASSUME AccessInvariant, NEW reader \in Readers, Subscribe(reader) PROVE AccessInvariant' /\ OnlyTheGranted
<1> DEFINE gone == Expired(clock')  kept == Staying(gone)
<1>1. /\ ~ closed /\ Cardinality(Staying(Expired(clock))) < MaxStreams /\ clock' \in Later
      /\ MayRead(reader, clock') /\ grants' = Removed(gone)
      /\ UNCHANGED <<model, sequence, flushing, closed, read>>
  BY DEF Subscribe
<1>2. PICK d : clients' = kept \union {d} /\ IsClient(d) /\ d.to = reader
  <2> DEFINE id == CHOOSE id \in 1..(MaxStreams + 1) : \A c \in clients : c.id # id
             d == [id |-> id, to |-> reader, position |-> sequence]
  <2>1. clients' = kept \union {d}
    BY DEF Subscribe
  <2> HIDE DEF id
  <2>2. IsClient(d) /\ d.to = reader
    BY DEF IsClient
  <2> QED
    BY <2>1, <2>2
<1>3. clock' \in Nat /\ clock \in Nat /\ clock <= clock' /\ grants \in Grants /\ MaxStreams \in Nat
  BY <1>1, AccessHas, LaterIs, AccessAssumption
<1>4. kept \in SUBSET Staying(Expired(clock)) /\ Staying(Expired(clock)) \in SUBSET clients /\ \A c \in kept : c.to \notin gone
  <2>1. Expired(clock) \subseteq gone
    BY <1>3, ExpiredIs
  <2> QED
    BY <2>1 DEF Staying
<1>5. grants' \in Grants /\ Live' = Live \ gone
  <2>1. Live' = LiveIn(Removed(gone))
    BY <1>1 DEF Live, LiveIn
  <2> QED
    BY <1>1, <1>3, <2>1, RemovedIs
<1>6. IsFiniteSet(clients') /\ Cardinality(clients') <= MaxStreams
  <2> DEFINE S == Staying(Expired(clock))  m == Cardinality(S)  n == Cardinality(kept)
  <2>1. IsFiniteSet(S) /\ m \in Nat
    BY <1>4, AccessHas, FS_Subset, FS_CardinalityType
  <2>2. IsFiniteSet(kept) /\ n <= m /\ n \in Nat
    <3> HIDE DEF kept
    <3> QED
      BY <1>4, <2>1, FS_Subset, FS_CardinalityType
  <2>3. IsFiniteSet(clients') /\ (Cardinality(clients') = n \/ Cardinality(clients') = n + 1)
    <3> HIDE DEF kept
    <3> QED
      BY <1>2, <2>2, FS_AddElement
  <2>4. m < MaxStreams
    BY <1>1
  <2> HIDE DEF m, n
  <2> QED
    BY <1>3, <2>1, <2>2, <2>3, <2>4
<1>7. Cardinality(Live') <= MaxGrants
  <2>1. Live \ gone \in SUBSET Live /\ MaxGrants \in Nat /\ Cardinality(Live) <= MaxGrants
    BY AccessHas, AccessAssumption DEF Bounded
  <2>2. Cardinality(Live \ gone) <= MaxGrants
    BY <2>1, LiveFinite, SmallerStays
  <2> QED
    BY <1>5, <2>2
<1>8. reader # Viewer => reader \in Live \ gone /\ grants[reader].expires > clock'
  <2>1. reader # Viewer => reader \in Live /\ grants[reader].expires > clock'
    BY <1>1 DEF MayRead
  <2>2. \A h \in Live : grants[h].expires \in Nat
    BY <1>3 DEF Grants, Live
  <2>3. \A h \in Live : grants[h].expires > clock' => ~ (grants[h].expires <= clock')
    BY <1>3, <2>2
  <2> QED
    BY <2>1, <2>3 DEF Expired
<1>9. \A c \in clients' : IsClient(c) /\ c.to \in Live' \union {Viewer}
  <2>1. \A c \in kept : IsClient(c) /\ c.to \in (Live \ gone) \union {Viewer}
    BY <1>4, AccessHas DEF Bounded
  <2> HIDE DEF gone, kept
  <2> QED
    BY <1>2, <1>5, <1>8, <2>1
<1>10. OnlyTheGranted
  <2> SUFFICES ASSUME NEW h \in Holders, Served(h) PROVE h \in Live /\ grants[h].expires > clock'
    BY DEF OnlyTheGranted
  <2>1. d.to = h
    BY <1>1, <1>2, <1>4 DEF Served
  <2> QED
    BY <1>2, <1>8, <2>1, AccessAssumption
<1>11. Bounded'
  BY <1>1, <1>6, <1>7, <1>9 DEF Bounded
<1> QED
  BY <1>1, <1>3, <1>5, <1>6, <1>9, <1>10, <1>11, AccessHas, PagesSame, AccessParts

LEMMA GetKeeps ==
    ASSUME AccessInvariant, NEW reader \in Readers, Get(reader) PROVE AccessInvariant' /\ OnlyTheGranted
<1> DEFINE gone == Expired(clock')  seal == Disclosed(reader)
<1>1. /\ clock' \in Later /\ grants' = Removed(gone) /\ clients' = Staying(gone)
      /\ MayRead(reader, clock') /\ UNCHANGED <<model, sequence, flushing, closed>>
  BY DEF Get, sweep, removeGrants
<1>2. PICK limit \in Pages : \/ NextPage(reader, limit)
                             \/ \E kind \in Kinds : Page(reader, kind, limit) \/ Snapshot(reader, kind, limit)
  BY DEF Get
<1>3. limit \in Nat /\ clock' \in Nat /\ seal \subseteq Records
  BY <1>1, AccessHas, LaterIs, AccessAssumption DEF Disclosed, Models
<1>4. PagesHold' /\ read'.by = reader
  <2>1. ASSUME NEW kind \in Kinds, Page(reader, kind, limit) PROVE PagesHold' /\ read'.by = reader
    <3> DEFINE l == Listed(seal, kind)  n == Min({limit, Len(l)})
    <3>1. Len(l) \in Nat
      BY <1>3, ListedIs
    <3>2. n \in 0..Len(l)
      <4> HIDE DEF l
      <4> QED
        BY <1>3, <3>1, LowerIs
    <3>3. Answered(reader, kind, SubSeq(l, 1, n))
      BY <2>1 DEF Page
    <3> HIDE DEF n
    <3> QED
      BY <3>2, <3>3, AnsweredIs
  <2>2. ASSUME NEW kind \in Kinds, Snapshot(reader, kind, limit) PROVE PagesHold' /\ read'.by = reader
    <3> DEFINE l == Listed(seal, kind)  n == snapshotCount(seal, kind, limit)
    <3>1. n \in 0..Len(l)
      BY <1>3, SnapshotFits
    <3>2. Answered(reader, kind, SubSeq(l, 1, n))
      BY <2>2 DEF Snapshot
    <3> HIDE DEF n
    <3> QED
      BY <3>1, <3>2, AnsweredIs
  <2>3. ASSUME NextPage(reader, limit) PROVE PagesHold' /\ read'.by = reader
    <3> DEFINE kind == read.kind  l == Listed(seal, kind)  n == Len(read.given)  m == Min({n + limit, Len(l)})
    <3>1. read.seal = seal
      BY <2>3 DEF NextPage, offsetFor
    <3>2. PICK k \in 0..Len(l) : read.given = SubSeq(l, 1, k)
      BY <3>1, AccessHas DEF PagesHold
    <3>3. Len(l) \in Nat /\ n = k
      BY <1>3, <3>2, ListedIs, PrefixIs
    <3>4. m \in k..Len(l)
      <4> HIDE DEF l, n
      <4>1. k \in Nat /\ k <= Len(l) /\ n + limit \in Nat /\ k <= n + limit
        BY <1>3, <3>2, <3>3
      <4> QED
        BY <3>3, <4>1, LowerIs
    <3>5. Answered(reader, kind, read.given \o SubSeq(l, n + 1, m))
      BY <2>3 DEF NextPage
    <3> HIDE DEF m, n
    <3>6. SubSeq(l, 1, k) \o SubSeq(l, k + 1, m) = SubSeq(l, 1, m)
      BY <1>3, <3>4, ListedIs, PrefixGoesOn
    <3>7. Answered(reader, kind, SubSeq(l, 1, m))
      BY <3>2, <3>3, <3>5, <3>6
    <3>8. m \in 0..Len(l)
      BY <3>3, <3>4
    <3> QED
      BY <3>7, <3>8, AnsweredIs
  <2> QED
    BY <1>2, <2>1, <2>2, <2>3
<1>5. Staying(gone) \subseteq clients /\ \A c \in Staying(gone) : c.to \notin gone
  BY DEF Staying
<1>6. grants' \in Grants /\ IsFiniteSet(clients') /\ (\A c \in clients' : IsClient(c)) /\ Bounded'
  <2>1. removeGrants(gone) /\ closed' = closed
    BY <1>1 DEF removeGrants
  <2> QED
    BY <2>1, RemovingKeeps
<1>7. OnlyTheGranted
  <2> SUFFICES ASSUME NEW h \in Holders, Served(h) PROVE h \in Live /\ grants[h].expires > clock'
    BY DEF OnlyTheGranted
  <2>1. reader = h
    BY <1>1, <1>4, <1>5 DEF Served
  <2> QED
    BY <1>1, <2>1, AccessAssumption DEF MayRead
<1> QED
  BY <1>1, <1>3, <1>4, <1>6, <1>7, AccessHas, AccessParts

LEMMA AccessStutters == ASSUME AccessInvariant, UNCHANGED accessVars PROVE AccessInvariant' /\ OnlyTheGranted
<1>1. UNCHANGED <<clock, model, grants, clients, sequence, flushing, closed, read>>
  BY DEF accessVars
<1> QED
  BY <1>1, AccessHas, PagesSame, ReadersSame, AccessParts DEF OnlyTheGranted, Served

\* Every step keeps the invariant, and serves only those who may read.
LEMMA AccessGoesOn == AccessInvariant /\ [AccessNext]_accessVars => AccessInvariant' /\ OnlyTheGranted
<1> SUFFICES ASSUME AccessInvariant, [AccessNext]_accessVars PROVE AccessInvariant' /\ OnlyTheGranted
  OBVIOUS
<1>1. CASE Tick \/ Leaves \/ Flush \/ ModelChanges \/ notify \/ Expire \/ close
  BY <1>1, TickKeeps, LeavesKeeps, FlushKeeps, ModelChangesKeeps, NotifyKeeps, ExpireKeeps, CloseAccessKeeps
<1>2. CASE \E reader \in Readers : Get(reader) \/ Subscribe(reader)
  BY <1>2, GetKeeps, SubscribeKeeps
<1>3. CASE \E h \in Holders : AskGrant(h) \/ MakeGrant(h) \/ Revoke(h)
  BY <1>3, AskGrantKeeps, MakeGrantKeeps, RevokeKeeps
<1>4. CASE UNCHANGED accessVars
  BY <1>4, AccessStutters
<1> QED
  BY <1>1, <1>2, <1>3, <1>4 DEF AccessNext

(***************************************************************************)
(* The invariant of the API: grants and streams stay inside their limits,   *)
(* every stream has a grant, and a read is the start of what was shown.     *)
(***************************************************************************)
THEOREM AccessCorrect == AccessSpec => []AccessInvariant
<1>1. AccessInit => AccessInvariant
  BY AccessStarts
<1>2. AccessInvariant /\ [AccessNext]_accessVars => AccessInvariant'
  BY AccessGoesOn
<1> QED
  BY <1>1, <1>2, PTL DEF AccessSpec

(***************************************************************************)
(* Whoever reads the model reads one version of what it may see, page by    *)
(* page, under a grant that holds when it is answered, and within the       *)
(* limits of grants and streams, for any model, holders, limits and times   *)
(* (runtime/daemon/model-api.mjs).                                          *)
(***************************************************************************)
THEOREM AccessIsKept == AccessSpec => AccessHolds
<1>1. AccessInvariant => ReadsAreOne /\ Bounded
  <2> SUFFICES ASSUME AccessInvariant PROVE ReadsAreOne
    BY AccessHas
  <2> DEFINE rows == Listed(read.seal, read.kind)
  <2>1. PICK n \in 0..Len(rows) : read.given = SubSeq(rows, 1, n) /\ (read.done => n = Len(rows))
    BY AccessHas DEF PagesHold
  <2>2. PICK N : rows \in Seq(N)
    BY AccessHas, ListedIs DEF PagesHold
  <2> HIDE DEF rows
  <2>3. IsPrefix(read.given, rows) /\ (read.done => read.given = rows)
    BY <2>1, <2>2, PrefixIs
  <2> QED
    BY <2>3 DEF ReadsAreOne, rows
<1>2. AccessInvariant /\ [AccessNext]_accessVars => OnlyTheGranted
  BY AccessGoesOn
<1>3. AccessSpec => [](ReadsAreOne /\ Bounded)
  BY <1>1, AccessCorrect, PTL
<1>4. AccessSpec => [][OnlyTheGranted]_accessVars
  BY <1>2, AccessCorrect, PTL DEF AccessSpec
<1> QED
  BY <1>3, <1>4, PTL DEF AccessHolds
====
