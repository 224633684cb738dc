SPECIFICATION Spec
CONSTANTS
    NULL = NULL
    Drivers = {d1}
    VehicleTypes = {car}
    Calls = {k1, k2}
    VehicleChanges = FALSE
    MaxAborts = 0
INVARIANTS OfflineIsGone
CHECK_DEADLOCK FALSE
