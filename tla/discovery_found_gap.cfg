SPECIFICATION Spec
CONSTANTS
    NULL = NULL
    Limit = 1
    Take = 1
    Ids = {1, 2, 3, 4}
    Ranks = {0}
    PerMilli = 1
    MaxRows = 4
INVARIANTS FeedHasNoGaps
CHECK_DEADLOCK FALSE
