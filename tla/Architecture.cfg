\* Two files in batches of up to two, one edit, and two interferences; and, for itself,
\* three source files, of which two are analyzed and one pair is assessed at a time.
CONSTANTS
    Files = {f1, f2}
    BatchSize = 2
    MaxKnown = 2
    MaxVersion = 2
    MaxEdits = 1
    MaxControls = 2
    app = app
    left = left
    right = right
    Sources = {app, left, right}
    Imports <- Pairs
    MaxTaken = 2
    MaxChecks = 1
    Places = 4
    Legacy = 1
    MaxGeneration = 3
    MaxAnalyses = 3
SPECIFICATION WaySpec
INVARIANTS NothingLost CitedIsKnown
PROPERTIES ComesToRest BoundariesHold
CHECK_DEADLOCK FALSE
