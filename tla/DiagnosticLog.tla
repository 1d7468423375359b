---- MODULE DiagnosticLog ----
(***************************************************************************)
(* The log of classification (runtime/daemon/diagnostics.mjs): a ring of    *)
(* records in memory, and a file that is appended to in batches, rotated    *)
(* once into a backup, and read again by the next daemon.                   *)
(*                                                                          *)
(* One daemon at a time writes (PublicationLock). It may die at any step    *)
(* of an append, which leaves a batch in part and its last line torn.       *)
(***************************************************************************)
EXTENDS Naturals, Sequences, SequencesExt, FiniteSets

CONSTANTS
    MaxRing,        \* DIAGNOSTIC_LIMITS.records
    MaxPending,     \* DIAGNOSTIC_LIMITS.pendingBytes, in lines
    MaxFile,        \* DIAGNOSTIC_LIMITS.fileBytes, in lines
    MaxSeq,         \* bound: records
    MaxFaults       \* bound: failed appends and deaths

ASSUME LogAssumption ==
    /\ {MaxRing, MaxPending, MaxFile, MaxSeq, MaxFaults} \subseteq Nat
    /\ MaxPending <= MaxFile    \* a batch always fits into an empty file

VARIABLES
    current, backup,    \* the two files: lines, which are sequence numbers, or Torn for a part of one
    lastSeq,            \* stats.lastSeq
    ring,               \* the records a reader is shown
    queued, batch,     \* lines that wait, and those being appended
    timer, running,     \* the flush timer, and whether drain's promise is unsettled
    state,              \* "up", "closing" (close() waits for the drain), "closed" or "dead"
    step,               \* of the append: "none", "taken", "opened" (rotated if full), "cut" (tail repaired)
    written,            \* for the properties: records counted as written
    overwritten,        \* ... those that a rotation has removed since
    faults

logVars == <<current, backup, lastSeq, ring, queued, batch, timer, running, state, step, written,
             overwritten, faults>>

Torn == 0

\* A part of a line at the end.
IsTorn(lines) == lines # <<>> /\ Last(lines) = Torn

\* readLines: up to the last newline.
Whole(lines) == IF IsTorn(lines) THEN Front(lines) ELSE lines

Increasing(lines) == \A i, j \in DOMAIN lines : i < j => lines[i] < lines[j]

LogTypeOK ==
    /\ {current, backup} \subseteq Seq(0..MaxSeq) /\ lastSeq \in 0..MaxSeq
    /\ {ring, queued, batch} \subseteq Seq(1..MaxSeq)
    /\ {timer, running} \subseteq BOOLEAN /\ state \in {"up", "closing", "closed", "dead"}
    /\ step \in {"none", "taken", "opened", "cut"} /\ written \subseteq 1..MaxSeq
    /\ overwritten \subseteq 1..MaxSeq /\ faults \in 0..MaxFaults

LogInit ==
    /\ current = <<>> /\ backup = <<>> /\ lastSeq = 0 /\ ring = <<>> /\ queued = <<>>
    /\ batch = <<>> /\ timer = FALSE /\ running = FALSE /\ state = "up" /\ step = "none"
    /\ written = {} /\ overwritten = {} /\ faults = MaxFaults

Alive == state \in {"up", "closing"}
LogFails == faults > 0 /\ faults' = faults - 1
Kept(records) == SubSeq(records, IF Len(records) > MaxRing THEN Len(records) - MaxRing + 1 ELSE 1,
                        Len(records))
----
(***************************************************************************)
(* Records.                                                                 *)
(***************************************************************************)
\* record(): a record over the bound is shown but not kept. A drain that runs takes it along.
HasRoom == Len(queued) + Len(batch) < MaxPending
Record ==
    /\ state = "up" /\ lastSeq < MaxSeq
    /\ lastSeq' = lastSeq + 1 /\ ring' = Kept(Append(ring, lastSeq + 1))
    /\ \/ HasRoom /\ queued' = Append(queued, lastSeq + 1) /\ timer' = (timer \/ ~ running)
       \/ ~ HasRoom /\ UNCHANGED <<queued, timer>>
    /\ UNCHANGED <<current, backup, batch, running, state, step, written, overwritten, faults>>

\* The timer, or flush(), which ends the timer and joins a drain that runs.
Drain ==
    /\ state = "up" /\ timer' = FALSE /\ running' = TRUE
    /\ UNCHANGED <<current, backup, lastSeq, ring, queued, batch, state, step, written, overwritten,
                   faults>>

CloseLog ==
    /\ state = "up" /\ state' = "closing" /\ timer' = FALSE /\ running' = TRUE
    /\ UNCHANGED <<current, backup, lastSeq, ring, queued, batch, step, written, overwritten, faults>>
----
(***************************************************************************)
(* The drain.                                                               *)
(***************************************************************************)
\* drain takes what waits; what comes while it is appended waits for the next turn.
TakeBatch ==
    /\ Alive /\ running /\ batch = <<>> /\ queued # <<>>
    /\ batch' = queued /\ queued' = <<>> /\ step' = "taken"
    /\ UNCHANGED <<current, backup, lastSeq, ring, timer, running, state, written, overwritten, faults>>

\* append: a file without room becomes the backup. Lines of another size than one are left
\* out; a torn one counts as a line.
Full == current # <<>> /\ Len(current) + Len(batch) > MaxFile

Opened ==
    /\ Alive /\ step = "taken" /\ step' = "opened"
    /\ \/ /\ Full
          /\ backup' = current /\ current' = <<>>
          /\ overwritten' = overwritten \union ToSet(Whole(backup))
       \/ ~ Full /\ UNCHANGED <<current, backup, overwritten>>
    /\ UNCHANGED <<lastSeq, ring, queued, batch, timer, running, state, written, faults>>

\* A part of a line at the end is cut off before anything follows it.
\* The torn line is left where it is.
MutantRepaired(lines) == lines

Repaired(lines) == IF IsTorn(lines) THEN Front(lines) ELSE lines
Cut ==
    /\ Alive /\ step = "opened" /\ step' = "cut"
    /\ current' = Repaired(current)
    /\ UNCHANGED <<backup, lastSeq, ring, queued, batch, timer, running, state, written, overwritten,
                   faults>>

\* A line behind a torn one is read as one with it.
Behind(lines, more) ==
    IF IsTorn(lines) /\ more # <<>> THEN lines \o Tail(more) ELSE lines \o more

Appended ==
    /\ Alive /\ step = "cut"
    /\ current' = Behind(current, batch) /\ written' = written \union ToSet(batch)
    /\ batch' = <<>> /\ step' = "none"
    /\ UNCHANGED <<backup, lastSeq, ring, queued, timer, running, state, overwritten, faults>>

\* What an append that fails or dies leaves: nothing, whole lines, or those and a part of the next.
Partial == {batch} \union
    UNION {{SubSeq(batch, 1, n), SubSeq(batch, 1, n) \o <<Torn>>} : n \in 0..(Len(batch) - 1)}
Reached == IF step = "cut" THEN {Behind(current, p) : p \in Partial} ELSE {current}

\* Its records are counted as dropped, and the drain goes on.
AppendFails ==
    /\ Alive /\ step # "none" /\ LogFails
    /\ current' \in Reached /\ batch' = <<>> /\ step' = "none"
    /\ UNCHANGED <<backup, lastSeq, ring, queued, timer, running, state, written, overwritten>>

\* The loop ends; a record that came since is drained by the same promise. close() returns.
Drained ==
    /\ Alive /\ running /\ batch = <<>> /\ queued = <<>> /\ running' = FALSE
    /\ state' = IF state = "closing" THEN "closed" ELSE state
    /\ UNCHANGED <<current, backup, lastSeq, ring, queued, batch, timer, step, written, overwritten,
                   faults>>
----
(***************************************************************************)
(* Death and the next daemon.                                               *)
(***************************************************************************)
Dies ==
    /\ Alive /\ LogFails /\ state' = "dead" /\ current' \in Reached
    /\ queued' = <<>> /\ batch' = <<>> /\ ring' = <<>> /\ timer' = FALSE /\ running' = FALSE
    /\ step' = "none"
    /\ UNCHANGED <<backup, lastSeq, written, overwritten>>

\* The number of the last of the records.
Highest(records) == IF records = <<>> THEN 0 ELSE Last(records)

\* load(), of one file: a number that is not above the last one is passed over.
Loaded(records, lines) ==
    LET read[n \in 0..Len(lines)] ==
            IF n = 0 THEN records
            ELSE IF lines[n] > Highest(read[n - 1]) THEN Append(read[n - 1], lines[n]) ELSE read[n - 1]
    IN  read[Len(lines)]

\* load(): the whole lines of the backup, and then of the file.
Restart ==
    /\ state \in {"closed", "dead"} /\ lastSeq < MaxSeq /\ state' = "up"
    /\ LET records == Loaded(Loaded(<<>>, Whole(backup)), Whole(current))
       IN  ring' = Kept(records) /\ lastSeq' = Highest(records)
    /\ UNCHANGED <<current, backup, queued, batch, timer, running, step, written, overwritten, faults>>

LogNext ==
    \/ Record \/ Drain \/ CloseLog \/ TakeBatch \/ Opened \/ Cut \/ Appended \/ AppendFails \/ Drained
    \/ Dies \/ Restart

LogSpec == LogInit /\ [][LogNext]_logVars
----
(***************************************************************************)
(* Properties                                                               *)
(***************************************************************************)
\* A record that was counted as written can be read again, until its file is overwritten; both
\* files together hold records in their order, each once. A record is never left without a
\* drain or a timer, and close() returns only when none waits.
LogHolds ==
    /\ written \subseteq ToSet(current) \union ToSet(backup) \union overwritten
    /\ Increasing(Whole(backup) \o Whole(current)) /\ Increasing(ring)
    /\ \A i \in DOMAIN current : current[i] = Torn => i = Len(current)
    /\ queued # <<>> => timer \/ running
    /\ state = "closed" => queued = <<>> /\ batch = <<>>
    /\ Len(current) <= MaxFile /\ Len(backup) <= MaxFile /\ Len(ring) <= MaxRing
====
