SPECIFICATION Spec
CONSTANTS
    NR_TASKS = 3
    SEM_MAX_VALUE = 1
    NUM_PAG_KERNEL = 1
    NUM_PAG_CODE = 1
    NUM_PAG_DATA = 1
    TOTAL_PAGES = 12
    UINT_SPAN = 3
    INIT_QUANTUM = 1
    Quanta = {0}
    SemValues = {0, 1}
    Faults = {}
    MaxPid = 4
PROPERTIES
    WaitersInterrupted
