SPECIFICATION FairSpec
CONSTANTS
    p1 = p1
    p2 = p2
    p3 = p3
    editor = editor
    clock = clock
    ann = ann
    robot = robot
    NoPid = NoPid
    Pids = {p1, p2}
    Programs = {editor, clock}
    Users = {ann, robot}
    Things = {}
    ProgOf <- MCProgOf
    UserOf <- MCUserOf
    Filters <- MixedFilters
    Calls = {"sleep", "kill", "killprogram"}
    EventLimit = 1
    MaxEvents = 1
    MaxWatch = 1
PROPERTIES NoInstanceLeft
CHECK_DEADLOCK FALSE
