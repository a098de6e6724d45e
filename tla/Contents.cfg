SPECIFICATION Spec
CONSTANTS
    db_top = 4
    Sticky = {2, 3}
    Vehicle = {3}
    Zombie = {}
    Listener = {}
    Linkable = {0, 2, 3}
    MAX_PARENT_DEPTH = 3
    tp_player_start = 0
    tp_thing_movement = TRUE
    Commands = {"go", "get", "summon", "drop", "home", "tel", "link", "dropto", "unlink", "create", "recycle", "toad"}
    ProgramsDo = {}
    MaxPrograms = 0
    Type0 <- PairType
    Location0 <- PairLocation
    Home0 <- PairHome
    Owner0 <- PairOwner
CHECK_DEADLOCK FALSE
INVARIANTS WayToTop ListsAgree
PROPERTIES ImplementsPlaces
