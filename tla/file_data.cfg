SPECIFICATION Spec
CONSTANTS
    NR_TASKS = 1
    MAX_FDS = 4
    MAX_FILES = 4
    MAX_OPEN_FILES = 3
    MAX_BLOCKS = 2
    BLOCK_SIZE = 2
    MAX_TRANSFER = 3
    Names = {"a", "b"}
    TenNames = {}
    LongNames = {}
    Flags = {7}
    Bytes = {0, 1}
    Closable = {3, 4}
    Overwrites = FALSE
    MaxForks = 0
CHECK_DEADLOCK FALSE
INVARIANTS
    FatExact
    BlocksNeeded
    ReadsContent
PROPERTIES
    StoreSpec
