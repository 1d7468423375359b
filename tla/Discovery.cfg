\* Two files, two edits, and one failure, outage, checkout change and request each.
CONSTANTS
    main = main
    lib = lib
    f = f
    g = g
    Artifacts = {main, lib}
    Lineages = {l1, l2}
    NoLineage = NoLineage
    FirstLineage = l1
    GenerationFloor = 0
    MaxStamp = 2
    Symbols = {f, g}
    Root = Root
    Import = Import
    Content <- Declared
    Target <- Imports
    MaxEntities = 3
    MaxCheckpoints = 1
    QueueLimit = 1
    Bound <- Budget
    MaxSpent = 3
SPECIFICATION Spec
INVARIANTS NoWorkForgotten FactsHold
PROPERTIES Quiesces
CHECK_DEADLOCK FALSE
