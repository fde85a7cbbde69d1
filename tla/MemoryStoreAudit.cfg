\* What docs/spec/memory.md says of the audit of facts, which SQLite prevents.
SPECIFICATION Spec
\* When all proposals are resolved and no fact came of them, there is nothing left to do.
CHECK_DEADLOCK FALSE
CONSTANTS
    Proposals = {p1, p2}
    Facts = {f1, f2}
    name = name
    KeyOf <- OneKey
    Keys = {name}
    SingleValued = {name}
    None = None
    pr = pr
    se = se
    Projects = {pr}
    Sessions = {se}
    Targets <- ThreePlaces
    MaxFaults = 1
SYMMETRY Symmetry
INVARIANTS
    FactsAreAudited
