\* Two workers, a heartbeating run and an agent_loop_turn, one fault, fair.
SPECIFICATION FairSpec
CONSTANTS
    Runs = {1, 2}
    SleepRuns = {1}
    AgentRuns = {2}
    Workers = {w1, w2}
    NoRun = NoRun
    NoWorker = NoWorker
    LeaseTicks = 1
    BeatTicks = 0
    MaxAttempts = 2
    MaxFaults = 1
INVARIANTS
    IInv
PROPERTIES
    ImplementsExclusiveLease
    SettledNeverRuns
    QuietFinalIsFrozen
    RunsSettle
