SPECIFICATION Spec
CONSTANTS
    NR_TASKS = 1
    MAX_FDS = 5
    MAX_FILES = 4
    MAX_OPEN_FILES = 4
    MAX_BLOCKS = 3
    BLOCK_SIZE = 2
    MAX_TRANSFER = 3
    Names = {"a", "b"}
    TenNames = {}
    LongNames = {}
    Flags = {1, 7, 15, 16}
    Bytes = {0}
    Closable = {3, 4}
    Overwrites = TRUE
    MaxForks = 0
CHECK_DEADLOCK FALSE
INVARIANTS
    BlocksNeeded
