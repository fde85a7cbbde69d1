SPECIFICATION Spec
CONSTANTS
    Servers = {"a", "b"}
    ServerOrder <- Configured
    Tools = {"mcp.b.ping", "skill.shell.run"}
    Offers <- Offered
    Nobody = Nobody
    MaxCalls = 2
    MaxFaults = 2
    MaxEvents = 3
INVARIANTS
    AnswersFitRequests
PROPERTIES
    CallsReturn
CHECK_DEADLOCK FALSE
