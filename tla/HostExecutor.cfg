\* One changeset of three changes, requested by two executions; an edit by the user, an
\* error at any step and a crash.
SPECIFICATION FairSpec
CONSTANTS
    p1 = p1
    p2 = p2
    a = a
    b = b
    Paths = {p1, p2}
    Contents = {a, b}
    NoFile = NoFile
    AnyContent = AnyContent
    Execs = {e1, e2}
    NoExec = NoExec
    ChangeSets <- ThreeChanges
    MaxEdits = 1
    MaxFaults = 1
    MaxCrashes = 1
INVARIANTS
    CompletedIsApplied
    RollbackRestores
    DuplicatesAreCached
PROPERTIES
    CallsEnd
