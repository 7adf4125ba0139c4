\* A guest that may leave drops an item and one the host's game lacks, the host a quest's; the host's
\* game loads and leaves the cell, and one drop at most waits for it.
CONSTANTS
    g1 = g1
    g2 = g2
    sword = sword
    modded = modded
    relic = relic
    Guests = {g1, g2}
    Host = host
    Late = {}
    Leavers = {g1}
    Items = {sword, modded, relic}
    Quest = {relic}
    Foreign = {modded}
    Starts <- GuestsOrQuest
    Elsewhere = TRUE
    kMaxPending = 1
    MaxDrops = 2
    MaxWire = 1
SPECIFICATION Spec
INVARIANTS TypeOK OnePlace ShownIsReal
PROPERTIES OneTaker
CHECK_DEADLOCK FALSE
