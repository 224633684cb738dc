SPECIFICATION BoundedSpec
CONSTANTS
    NULL = NULL
    Calls = {k1, k2}
    Drivers = {d1}
    d1 = d1
    VehicleTypes = {car, moto}
    car = car
    VehicleChanges = TRUE
    MaxAborts = 1
    Products = {1, 2}
    MaxStock = 2
    MaxDropped = 1
    MaxQuantity = 1
    Promotions = {p1, p2}
    p1 = p1
    Values = {40, 150}
    Minimums = {0, 120}
    Moments = {1, 2, 3}
    Subtotals = {100, 130}
    Fees = {10}
INVARIANTS LedgerTellsStock PromotionsAreValid ChargeIsFair
PROPERTIES RegisteredIsFound CheckoutEnds
CHECK_DEADLOCK FALSE
