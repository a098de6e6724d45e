SPECIFICATION FairSpec
CONSTANTS
    Objs <- MCObjs
    MaxChanges = 2
    MaxEpoch = 3
    MaxCrashes = 1
CHECK_DEADLOCK FALSE
INVARIANTS TypeOK SavedIsKept RestoredIsAState
PROPERTIES DumperIsForgotten
