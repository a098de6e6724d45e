SPECIFICATION Spec
CONSTANTS
    p1 = p1
    p2 = p2
    p3 = p3
    editor = editor
    clock = clock
    ann = ann
    robot = robot
    NoPid = NoPid
    Pids = {p1, p2, p3}
    Programs = {editor, clock}
    Users = {ann, robot}
    Things = {robot}
    ProgOf <- MCProgOf
    UserOf <- MCUserOf
    Filters <- AnyEvent
    Calls = {"queue", "fork", "sleep", "read", "timer", "kill", "killprogram", "killall"}
    EventLimit = 2
    MaxEvents = 1
    MaxWatch = 1
SYMMETRY TwinSymmetry
INVARIANTS OnePlace NoFreedFrame
PROPERTIES LivesAsPromised
CHECK_DEADLOCK FALSE
