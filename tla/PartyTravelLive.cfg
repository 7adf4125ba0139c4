CONSTANTS
    Players = {h, g}
    Host = h
    Places = {1, 2, 5, 9}
    Interiors = {1, 2}
    GridReach = 2
    Start = 1
    JoinPlaces = {1, 5}
    Leavers = {g}
    Leaders = {h, g}
    MaxTrips = 2
    MeetingJoins = TRUE
    PatientGuests = FALSE
    Nowhere = nowhere
    h = h
    g = g
SPECIFICATION FairSpec
INVARIANT EveryoneSeesEveryone
PROPERTY PartyComesTogether
CHECK_DEADLOCK FALSE
