CONSTANTS
    g1 = g1
    Guests = {g1}
    Slots = {1, 2}
    Blocks = 2
    Tries = 2
    MaxSaves = 2
    MaxJoins = 1
    MaxBreaks = 1
    Ends = TRUE
SPECIFICATION Spec
CHECK_DEADLOCK FALSE
PROPERTIES ReloadComes JoinEnds
