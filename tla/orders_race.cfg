SPECIFICATION BoundedSpec
CONSTANTS
    NULL = NULL
    o1 = o1
    k1 = k1
    r1 = r1
    r2 = r2
    Orders = {o1, o2}
    Rides = {r1, r2}
    Calls = {k1, k2}
    MaxAborts = 1
INVARIANTS NoFalseProgress SerialOrderFollowsRide SerialCancelledHasNoRide
PROPERTIES SerialHistoryIsAPath SerialDeliveryIsReported
CHECK_DEADLOCK FALSE
