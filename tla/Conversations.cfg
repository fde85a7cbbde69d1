\* A turn sent twice, two runs and a fault; a conversation read and written for six milliseconds.
SPECIFICATION EitherSpec
CONSTANTS
    None = None
    t1 = t1
    MaxConvs = 2
    Turn = {t1}
    MaxRuns = 2
    MaxPosts = 2
    MaxEmits = 2
    MaxFaults = 1
    Ms = 2
    MaxClock = 12
INVARIANTS
    LogsAreClean
    InOrder
    SuccessIsAnswered
    NewsIsUnread
CHECK_DEADLOCK FALSE
