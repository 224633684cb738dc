SPECIFICATION Spec
CONSTANTS
    NULL = NULL
    Keys = {p1}
    Calls = {k1, k2, k3}
    Notices <- AllNotices
    LosesAnswers = TRUE
    CallbacksArrive = TRUE
    MaxAborts = 1
SYMMETRY Symmetry
INVARIANTS RequestedOnce RefundsArePaid PaidIsReal OneApplier
PROPERTIES PaidSticks
CHECK_DEADLOCK FALSE
