CONSTANTS
    g1 = g1
    Guests = {g1}
    Slots = {1, 2}
    Blocks = 1
    Tries = 1
    MaxSaves = 1
    MaxJoins = 1
    MaxBreaks = 1
    Ends = FALSE
SPECIFICATION Spec
CHECK_DEADLOCK FALSE
INVARIANT EveryGameRollsBack
