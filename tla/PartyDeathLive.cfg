SPECIFICATION FairSpec
CONSTANTS
    Players = {1, 2}
    Host = 1
    Npcs = {11}
    Removable = {}
    FightTargets = {2}
    Fighters = {}
    RecoveryTicks = 2
    MaxFalls = 1
    MaxInFlight = 1
PROPERTY RecoveryIsNotStalled
PROPERTY JoinerBecomesKnown
CHECK_DEADLOCK FALSE
