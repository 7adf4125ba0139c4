SPECIFICATION FairSpec
CONSTANTS
    Players = {h, g1}
    Host = h
    Hours = {2}
    Leavers = {g1}
    Loaders = {g1}
    MaxAsks = 2
    MaxCancels = 1
INVARIANT TypeOK
INVARIANT RunsTogether
INVARIANT RowsAreOnTheirWay
PROPERTY RestIsComplete
PROPERTY MenusComeBack
CHECK_DEADLOCK FALSE
