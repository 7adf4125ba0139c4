CONSTANTS
    Players = {h, g, j}
    Host = h
    Places = {1, 9}
    Interiors = {1}
    GridReach = 2
    Start = 9
    JoinPlaces = {1, 9}
    Leavers = {j}
    Leaders = {h, g}
    MaxTrips = 2
    MeetingJoins = TRUE
    PatientGuests = TRUE
    Nowhere = nowhere
    h = h
    g = g
    j = j
SPECIFICATION Spec
INVARIANT TypeOK
INVARIANT EveryoneIsWithTheHost
INVARIANT EveryoneSeesEveryone
INVARIANT EveryoneSeesTheActors
INVARIANT NoGhosts
CHECK_DEADLOCK FALSE
