SPECIFICATION Spec
CONSTANTS
    NULL = NULL
    Orders = {o1}
    Rides = {r1}
    Calls = {k1, k2}
    MaxAborts = 0
INVARIANTS CancelledHasNoRide
CHECK_DEADLOCK FALSE
