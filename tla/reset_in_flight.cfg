SPECIFICATION RSpec
CONSTANTS
    Pids = {1, 2, 3}
    Threads = {t1, t2}
    N_CALLS = 3
    OPEN = 0
    CLOSE = 1
    CLONE = 2
    PidInit = {2}
    Preempt = FALSE
    MaxCalls = 2
    MaxLoads = 1
    Roots = {1}
    SwitchArgs = {2, 3}
SYMMETRY Symmetry
CHECK_DEADLOCK FALSE
INVARIANTS
    Coherent
