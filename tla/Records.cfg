\* Governance as far as five rows and one edit, and three executions of two processes.
SPECIFICATION EitherSpec
CONSTANTS
    None = None
    Null = Null
    Intent <- Intents
    Form <- Forms
    Changes <- ChangeSets
    Policy <- Policies
    MaxRows = 5
    MaxStates = 3
    MaxEdits = 1
    Requests <- Wanted
    ErrorAlike <- Alike
    Limit = 1
    Fan = 10
    Procs = {p, q}
    MaxEvents = 3
INVARIANTS
    GateIsKept
    DecisionsReplay
    MoreIsNeverMilder
    RowsFitDirectories
    EventsInOrder
    RepairIsGrounded
    LineageAgrees
    VersionIsEarned
CHECK_DEADLOCK FALSE
