\* A relationship of which one file changed, and the answer about both.
CONSTANTS
  Artifacts = {a1, a2}
  Lineages = {}
  NoLineage = none
  GenerationFloor = 0
  MaxStamp = 1
  Sessions = {s1}
  NoSession = nobody
  MaxActive = 1
  MaxQueue = 1
  MaxSessions = 1
  GroupSize = 2
  ReconcileLimit = 2
  TransmitSource = TRUE
  RetentionOverflow = FALSE
  MaxCreated = 1
  MaxEpoch = 0
  FirstLineages = {none}
  HookKinds = {"started"}
  MaxRequests = 2
  MaxControls = 0
  MaxEdits = 1
SPECIFICATION MCSpec
SYMMETRY FileSymmetry
CHECK_DEADLOCK FALSE
PROPERTY AnswerRefreshesRelationship
