SPECIFICATION Spec
CONSTANTS
    p1 = p1
    p2 = p2
    a = a
    b = b
    Paths = {p1, p2}
    Contents = {a, b}
    NoFile = NoFile
    AnyContent = AnyContent
    Execs = {e1}
    NoExec = NoExec
    ChangeSets <- TwoFiles
    MaxEdits = 0
    MaxFaults = 0
    MaxCrashes = 0
SYMMETRY ExecSymmetry
INVARIANTS
    RolledBackMeansRestored
