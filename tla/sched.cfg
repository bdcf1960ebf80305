SPECIFICATION FairSpec
CONSTANTS
    NR_TASKS = 4
    SEM_MAX_VALUE = 1
    NUM_PAG_KERNEL = 1
    NUM_PAG_CODE = 1
    NUM_PAG_DATA = 2
    TOTAL_PAGES = 20
    UINT_SPAN = 2
    INIT_QUANTUM = 1
    Quanta = {0, 2}
    SemValues = {0, 1}
    Faults = {"page", "other"}
    MaxPid = 3
CHECK_DEADLOCK FALSE
INVARIANTS
    TypeOK
    QueuesExact
    CurrentFirst
    InitReady
    NoLostWakeup
    OwnAddressSpace
    ReturnWritten
    TicksAgree
    OneOwner
    FramesExact
PROPERTIES
    SemSpec
    WaitInOrder
    ReadyRuns
