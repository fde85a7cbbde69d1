SPECIFICATION FairSpec
CONSTANTS
    None = None
    Exec = {e1, e2}
    Key = {k1}
    UniqueIndex = TRUE
    Setting = {1, 2}
    Value <- Values
    Limits <- SmallLimits
    MaxEvents = 1
INVARIANTS
    SandboxIsTidy
    KeyRunsOnce
    SuccessIsReal
    RecordsAreClosed
PROPERTIES
    RequestsEnd
CHECK_DEADLOCK FALSE
