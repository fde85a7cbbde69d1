\* Three executions on Windows, two crashes, one lookup that times out, fair.
SPECIFICATION LockFairSpec
CONSTANTS
    Owners = {e1, e2, e3}
    NoOwner = NoOwner
    Retries = 1
    Windows = TRUE
    MaxSlowLookups = 1
    MaxDeaths = 2
INVARIANTS
    LockInv
    ExclusiveUnlessMisfired
PROPERTIES
    AcquireReturns
    DeadOwnerIsReplaced
