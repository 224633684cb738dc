SPECIFICATION EitherSpec
CONSTANTS
    c1 = c1
    d1 = d1
    d2 = d2
    NULL = NULL
    Rides = {r1}
    Clients = {c1}
    Drivers = {d1, d2}
    Calls = {k1, k2}
    Timers = {t1}
    Bookings <- AllBookings
    TrustLevels = {0, 1}
    CandidateLimit = 1
    BatchLimit = 1
    TrustMoves = FALSE
    MaxAborts = 0
SYMMETRY Symmetry
INVARIANTS OneWinner AcceptedHasDriver DispatchedAtMostOnce OffersMeetTrust SerialTripIsConsistent
PROPERTIES WinnerIsTrusted ImplementsClaim SerialMovesAreLegal
CHECK_DEADLOCK FALSE
