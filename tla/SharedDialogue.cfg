SPECIFICATION Spec
CONSTANTS
    Players = {h, g1}
    Host = h
    Npcs = {a, b}
    None = None
    Joiners = {g1}
    Leavers = {g1}
    Calm = TRUE
    MaxTalks = 2
    MaxSteps = 2
    MaxInFlight = 1
INVARIANT TypeOK
INVARIANT SeatsAgree
INVARIANT MenusShowTheList
INVARIANT EndIsHeard
INVARIANT TalkIsRun
SYMMETRY Symmetry
CHECK_DEADLOCK FALSE
