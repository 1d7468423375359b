\* One file and one session through pauses, outages of the checkout and close; and, for
\* themselves, the list of changes with two sessions and the layout of four nodes.
CONSTANTS
  Artifacts = {a1}
  Lineages = {l1}
  NoLineage = none
  GenerationFloor = 0
  MaxStamp = 1
  Sessions = {s1}
  NoSession = nobody
  MaxActive = 1
  MaxQueue = 1
  MaxSessions = 1
  GroupSize = 2
  ReconcileLimit = 2
  TransmitSource = TRUE
  RetentionOverflow = FALSE
  MaxCreated = 1
  MaxEpoch = 2
  FirstLineages = {l1}
  HookKinds = {"tool"}
  MaxRequests = 2
  MaxControls = 3
  MaxEdits = 1
  ListedSessions = {t1, t2}
  shown = t1
  Size = 2
  MaxTiles = 1
  MaxCards = 2
  MaxFrames = 3
  MaxClock = 3
  MaxEvents = 2
  MaxNodes = 4
  MaxEdges = 4
  Width = 190
  Height = 104
  GapX = 80
  GapY = 80
  MinGap = 16
  Offsets = {0, 135, 200}
SPECIFICATION WaySpec
CHECK_DEADLOCK FALSE
INVARIANTS
  QueueDiscipline
  ChangesAreTrue
  LayoutIsSound
PROPERTIES
  AcceptedOnlyWhileRunning
  PauseKeepsWork
  PendingDrains
