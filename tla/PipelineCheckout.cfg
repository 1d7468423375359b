\* A checkout that is left and entered again between two captures of a file.
CONSTANTS
  Artifacts = {a1}
  Lineages = {l1, l2}
  NoLineage = none
  GenerationFloor = 0
  MaxStamp = 0
  Sessions = {s1}
  NoSession = nobody
  MaxActive = 1
  MaxQueue = 1
  MaxSessions = 1
  GroupSize = 1
  ReconcileLimit = 1
  TransmitSource = TRUE
  RetentionOverflow = FALSE
  MaxCreated = 1
  MaxEpoch = 2
  FirstLineages = {l1}
  HookKinds = {"started"}
  MaxRequests = 2
  MaxControls = 2
  MaxEdits = 0
SPECIFICATION MCSpec
CHECK_DEADLOCK FALSE
PROPERTY CaptureAfterCheckoutAdvances
