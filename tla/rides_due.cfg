SPECIFICATION LiveSpec
CONSTANTS
    c1 = c1
    d1 = d1
    d2 = d2
    NULL = NULL
    Rides = {r1, r2}
    Clients = {c1}
    Drivers = {d1}
    Calls = {k1}
    Timers = {t1}
    Bookings <- DueBookings
    TrustLevels = {0, 1}
    CandidateLimit = 1
    BatchLimit = 1
    TrustMoves = TRUE
    MaxAborts = 2
PROPERTIES DueIsDispatched
CHECK_DEADLOCK FALSE
