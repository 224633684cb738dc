SPECIFICATION BoundedSpec
CONSTANTS
    NULL = NULL
    Calls = {c1, c2}
    Vehicles = {v1}
    Bookings = {b1, b2}
    Clients = {u1}
    Drivers = {d1, d2}
    d1 = d1
    Quantities = {1, 2}
    Cash = {b1}
    Amounts = {0, 10, 20}
    Seed <- SeedCaps
    NoCap = NoCap
    Guarantors = {g1}
    Companies = {p1}
    Required = {license}
    Orders = {o1, o2}
    Rides = {r1, r2}
    RentalTrips = {t0}
    Taken = {r2}
    Scores = {1, 4}
    Names = {n1, n2}
    n1 = n1
    Pictures = {logo, image}
    Products = {image}
    Documents = {license1}
    Files = {f1, f2, f3}
    Codes = {k1, k2}
    Tokens = {t1, t2}
    MaxAttempts = 2
    MaxDeaths = 1
    Limit = 1
    Take = 2
    Ids = {1, 2, 3}
    Ranks = {0, 1, 2}
    PerMilli = 2
    MaxRows = 3
SYMMETRY Symmetry
INVARIANTS RentalIsConsistent LevelIsDerived ApprovedHasDocuments RequiredLevelGrows MerchantMeanAgrees PictureExists NoFileIsLost CodeIsGuarded TokenIsUsedOnce PagesInOrder NoRowIsSkipped
PROPERTIES NotOversold ImplementsClaim ApprovalStays RatingHeals
CHECK_DEADLOCK FALSE
