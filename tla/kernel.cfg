SPECIFICATION KSpec
CONSTANTS
    NR_TASKS = 3
    SEM_MAX_VALUE = 1
    NUM_PAG_KERNEL = 1
    NUM_PAG_CODE = 1
    NUM_PAG_DATA = 1
    TOTAL_PAGES = 12
    UINT_SPAN = 2
    INIT_QUANTUM = 1
    Quanta = {}
    SemValues = {0}
    Faults = {}
    MaxPid = 3
    CIRCULAR_SIZE = 2
    ReadSizes = {1, 2, 3}
    Unruly = FALSE
    MaxKeys = 4
CHECK_DEADLOCK FALSE
INVARIANTS
    QueuesExact
    Accounted
    BufferExact
    OthersUntouched
PROPERTIES
    StreamSpec
