SPECIFICATION FairSpec
CONSTANTS
    Blocks = {b1, b2, b3, b4, b5, b6}
    NULL = NULL
    tp_max_output = 3
    Notice = 2
    MaxLine = 3
    MaxText = 6
    tp_command_burst_size = 1
    tp_commands_per_time = 1
    tp_command_time = 2
    MaxTurn = 2
    MaxBack = 1
    MaxCredit = 1
    MaxInput = 1
CHECK_DEADLOCK FALSE
INVARIANTS QueueAgrees SizeBound NothingLostSilently
PROPERTIES LastArrives LineIsRun
