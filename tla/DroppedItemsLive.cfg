\* The host or a guest drops an item; a second guest joins; asks are repeated; the host's game loads and leaves
\* the cell, fairly scheduled.
CONSTANTS
    g1 = g1
    g2 = g2
    sword = sword
    modded = modded
    relic = relic
    Guests = {g1, g2}
    Host = host
    Late = {g2}
    Leavers = {}
    Items = {sword}
    Quest = {}
    Foreign = {}
    Starts <- OneItem
    Elsewhere = TRUE
    kMaxPending = 1
    MaxDrops = 1
    MaxWire = 2
SPECIFICATION Spec
PROPERTIES AskIsSettled
CHECK_DEADLOCK FALSE
