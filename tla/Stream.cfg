\* Two servers, of four positions each; all but the first take a second page.  And two
\* acts of a user with two changes, failures or snapshots.
CONSTANTS
    Large = {2, 3, 4}
    Attempts = 3
    Retained = 2
    MaxPosition = 4
    MaxEpoch = 2
    MaxFaults = 2
    MaxOpens = 2
    MaxActs = 2
    MaxTurns = 2
SPECIFICATION WaySpec
INVARIANTS OneView
PROPERTIES NeverBack StreamCatchesUp ViewsComeToAgree
CHECK_DEADLOCK FALSE
