SPECIFICATION FairSpec
CONSTANTS
    db_top = 4
    Sticky = {2, 3}
    Vehicle = {3}
    Zombie = {}
    Listener = {3}
    Linkable = {0, 2, 3}
    MAX_PARENT_DEPTH = 2
    tp_player_start = 0
    tp_thing_movement = FALSE
    Commands = {"go", "get", "drop", "create", "dig", "recycle", "toad", "tel", "home"}
    ProgramsDo = {"moveto", "recycle"}
    MaxPrograms = 1
    Type0 <- PairType
    Location0 <- PairLocation
    Home0 <- PairHome
    Owner0 <- PairOwner
CHECK_DEADLOCK FALSE
INVARIANTS NoDanglingReference
PROPERTIES CommandEnds
