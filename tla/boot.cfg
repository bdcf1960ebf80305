SPECIFICATION FairSpec
CONSTANTS
    NUM_PAG_KERNEL = 256
    NUM_PAG_CODE = 8
    NUM_PAG_DATA = 3
    TOTAL_PAGES = 280
    Images <- Sizes
    Protected = {40, 42}
CHECK_DEADLOCK FALSE
INVARIANTS
    LoadedInPlace
    TransfersFit
    BootSectorKept
    StartsSched
    UserInPlace
PROPERTIES
    Boots
