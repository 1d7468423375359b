\* Two pauses that overlap one flush of the deferred work.
CONSTANTS
  Artifacts = {a1, a2}
  Lineages = {}
  NoLineage = none
  GenerationFloor = 0
  MaxStamp = 0
  Sessions = {s1}
  NoSession = nobody
  MaxActive = 1
  MaxQueue = 1
  MaxSessions = 1
  GroupSize = 2
  ReconcileLimit = 2
  TransmitSource = TRUE
  RetentionOverflow = FALSE
  MaxCreated = 1
  MaxEpoch = 0
  FirstLineages = {none}
  HookKinds = {"started"}
  MaxRequests = 2
  MaxControls = 4
  MaxEdits = 0
SPECIFICATION MCSpec
SYMMETRY FileSymmetry
CHECK_DEADLOCK FALSE
INVARIANT ResumePreservesEveryFile
