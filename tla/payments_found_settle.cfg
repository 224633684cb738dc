SPECIFICATION LiveSpec
CONSTANTS
    NULL = NULL
    Keys = {p1}
    Calls = {k1}
    Notices <- FinalNotices
    LosesAnswers = FALSE
    CallbacksArrive = FALSE
    MaxAborts = 0
PROPERTIES Settles
CHECK_DEADLOCK FALSE
