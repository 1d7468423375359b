\* Three processes: a daemon, the one that is attached, and the next daemon; and,
\* for themselves, a log of two lines in each file, a model of three entities, and two
\* grants of which one fits.
CONSTANTS
    Procs = {p1, p2, p3}
    NoOwner = nobody
    Parts = {state, model}
    Journal = state
    Legacy = {state, model}
    MaxRevision = 3
    MaxFailures = 1
    MaxRing = 2
    MaxPending = 2
    MaxFile = 2
    MaxSeq = 5
    MaxFaults = 2
    Size = 3
    Rows = 2
    LatestCalls = 1
    MaxAnchors = 2
    part = part
    whole = whole
    Holders = {part, whole}
    Fields <- KindsOf
    Viewer = viewer
    Items <- Counts
    MaxGrants = 1
    MaxStreams = 1
    GrantTtl = 1
    CursorTtl = 1
    Pages = {2}
    MaxTime = 2
    MaxChanges = 1
SPECIFICATION WaySpec
SYMMETRY Symmetry
INVARIANTS MigratedWhole LogHolds PrefixesAreTrees
PROPERTIES SavesHold StopsItsInstance AccessHolds
CHECK_DEADLOCK FALSE
