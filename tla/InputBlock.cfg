SPECIFICATION Spec
CONSTANTS
    p1 = p1
    p2 = p2
    p3 = p3
    NoPid = NoPid
    Pids = {p1, p2, p3}
    WantsBlanks = {p3}
    Calls = {"mode", "fork", "queue", "kill", "connect", "full"}
    MaxLines = 1
SYMMETRY PlainSymmetry
INVARIANTS TypeOK BlockedByForeground OneForeground
PROPERTIES BreakFrees
CHECK_DEADLOCK FALSE
