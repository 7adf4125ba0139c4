SPECIFICATION Spec
CONSTANTS
    Players = {1, 2}
    Host = 1
    Npcs = {11}
    Removable = {11}
    FightTargets = {2}
    Fighters = {1}
    RecoveryTicks = 2
    MaxFalls = 2
    MaxInFlight = 1
INVARIANT TypeOK
INVARIANT TimerOnlyInCalm
INVARIANT BelievesTheGame
INVARIANT RespawnIsForThisFall
PROPERTY WipeIsEveryonesFall
CHECK_DEADLOCK FALSE
