\* Two versions of the extension, two processes that write, one of which may die,
\* and one analysis; and, for themselves, two calls that name one file, or one that names two,
\* of a session that makes room for another; a page with one node, of a daemon that publishes three
\* snapshots of two sessions; and its dialogs with three requests each.
CONSTANTS
    Digests = {d1, d2}
    Projects = {home}
    Procs = {p1, p2}
    None = None
    MaxWrites = 4
    MaxCrashes = 1
    Analyses = {a1}
    Home = home
    MaxRevision = 2
    Artifacts = {f1, f2}
    source = f1
    Lineages = {l1, l2}
    NoLineage = none
    GenerationFloor = 0
    MaxStamp = 1
    Calls = {c1, c2, c3}
    wide = c3
    Sessions = {s1, s2}
    busy = s1
    SessionOf <- Owners
    FilesOf <- Named
    MaxSessions = 1
    MaxCalls = 2
    MaxMappings = 1
    MaxWaiting = 1
    MaxSpent = 2
    MaxShared = 1
    Nodes = {n1}
    ViewerSessions = {v1, v2}
    NoSession = nosession
    MaxEffects = 1
    MaxVersions = 3
    MaxConnects = 2
    MaxActs = 2
    MaxTickets = 3
SPECIFICATION WaySpec
INVARIANTS ApprovalsAreOfInstalled PanelsAreOwn
PROPERTIES WritesAreAtomic AnalysisHolds CallsHold ViewerTruthful
SYMMETRY Symmetry
CHECK_DEADLOCK FALSE
