\* Two files of one session, or one file of two sessions that are evicted and
\* created again, over two workflows, edits and a checkout change.
CONSTANTS
  Artifacts = {a1, a2}
  Lineages = {l1}
  NoLineage = none
  GenerationFloor = 0
  MaxStamp = 1
  Sessions = {s1, s2}
  NoSession = nobody
  MaxActive = 2
  MaxQueue = 1
  MaxSessions = 2
  GroupSize = 2
  ReconcileLimit = 2
  TransmitSource = TRUE
  RetentionOverflow = TRUE
  MaxCreated = 3
  MaxEpoch = 1
  FirstLineages = {none}
  HookKinds = {"started", "requested", "tool"}
  MaxRequests = 3
  MaxControls = 1
  MaxEdits = 1
SPECIFICATION WaySpec
SYMMETRY Symmetry
CHECK_DEADLOCK FALSE
INVARIANTS
  DiagramIsCurrent
  NoDuplicateInFlight
PROPERTIES
  JudgedForOwner
