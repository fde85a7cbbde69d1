\* One turn, two workers, more child ids than attempts, one fault.
SPECIFICATION FairSpec
CHECK_DEADLOCK FALSE
CONSTANTS
    Parents = {p1}
    Children = {c1, c2, c3}
    Workers = {w1, w2}
    None = None
    MaxAttempts = 2
    MaxFaults = 1
INVARIANTS
    TurnFitsAttempts
PROPERTIES
    WaitingChildIsKept
    ChildrenEnd
