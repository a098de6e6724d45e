SPECIFICATION FairSpec
CONSTANTS
    ann = ann
    wiz = wiz
    NOTHING = NOTHING
    Descrs = {1, 2}
    Players = {ann, wiz}
    Wizards = {wiz}
    tp_playermax_limit = 1
    SetuserDepth = 1
    Rounds = 3
    MaxActs = 2
CHECK_DEADLOCK FALSE
INVARIANTS CountTableAgrees PlayerTablesAgree NoDanglingDescriptor CountNotLow
PROPERTIES BootedIsClosed
