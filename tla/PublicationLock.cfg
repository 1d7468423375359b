\* Three processes, each of which starts once and may stop or die at any step; and, for
\* itself, setup in two repositories with two hosts, of which one replaces registrations.
CONSTANTS
    Procs = {1, 2, 3}
    NoOwner = 0
    Repos = {r1, r2}
    first = r1
    Hosts = {claude, codex}
    InPlace = {claude}
    Stranger = stranger
    NoRepo = norepo
    MaxVersion = 2
    MaxCommands = 3
    MaxMishaps = 1
SPECIFICATION WaySpec
INVARIANTS
    GuardExclusive
PROPERTIES
    OwnerKept
    CallsEnd
    SetupHolds
\* The run ends when every process is dead, and when every command is done.
CHECK_DEADLOCK FALSE
