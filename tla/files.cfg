SPECIFICATION Spec
CONSTANTS
    NR_TASKS = 2
    MAX_FDS = 4
    MAX_FILES = 4
    MAX_OPEN_FILES = 4
    MAX_BLOCKS = 3
    BLOCK_SIZE = 2
    MAX_TRANSFER = 0
    Names = {"a", "b"}
    TenNames = {"ten"}
    LongNames = {"long"}
    Flags = {1, 7, 15, 16}
    Bytes = {0}
    Closable = {3, 4}
    Overwrites = FALSE
    MaxForks = 1
CHECK_DEADLOCK FALSE
INVARIANTS
    TypeOK
    RefsAgree
    DescriptorsCounted
    UniqueNames
    FatExact
