CONSTANTS
    g1 = g1
    g2 = g2
    Guests = {g1, g2}
    Slots = {1, 2}
    Blocks = 2
    Tries = 1
    MaxSaves = 1
    MaxJoins = 2
    MaxBreaks = 1
    Ends = FALSE
SPECIFICATION Spec
SYMMETRY Symmetry
CHECK_DEADLOCK FALSE
INVARIANTS TypeOK SameWorld PlayersAgree Answered
