SPECIFICATION Spec
CONSTANTS
    NULL = NULL
    Keys = {p1}
    Calls = {k1, k2}
    Notices <- FinalNotices
    LosesAnswers = FALSE
    CallbacksArrive = TRUE
    MaxAborts = 1
INVARIANTS AckedIsApplied
CHECK_DEADLOCK FALSE
