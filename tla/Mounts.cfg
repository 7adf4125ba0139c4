CONSTANTS
  Guests = {g1, g2}
  Host = h
  Leavers = {g1}
  Native = "temporary"
  MaxRides = 3
SPECIFICATION Spec
INVARIANTS TypeOK OneSimulates RiderHasIt Accompanied Restored
CHECK_DEADLOCK FALSE
