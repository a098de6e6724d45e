SPECIFICATION FairSpec
CONSTANTS
    ann = ann
    wiz = wiz
    p1 = p1
    p2 = p2
    p3 = p3
    a1 = a1
    a2 = a2
    a3 = a3
    n30 = n30
    n31 = n31
    NoAddr = NoAddr
    NoId = NoId
    Addrs = {a1, a2}
    Players = {ann}
    Wizards = {}
    Pids = {p1, p2}
    Ids = {n30}
    UidOf <- MCUidOf2
    Trunc32 <- MCTrunc32
    Trunc30 <- MCTrunc30
    MaxDelay = 1
    RunLimit = 1
    MaxDrift = 1
    KillCommands = {"pid"}
    tp_max_process_limit = 1
    tp_max_plyr_processes = 1
    tp_process_timer_limit = 1
CHECK_DEADLOCK FALSE
PROPERTIES DueRuns
