SPECIFICATION FairSpec
CHECK_DEADLOCK FALSE
CONSTANTS
    Parents = {p1}
    Children = {c1}
    Workers = {w1}
    None = None
    MaxAttempts = 1
    MaxFaults = 0
PROPERTIES
    ParentsAreWoken
