\* Two threads of one process and one of another; backups enough for a hole.
CONSTANTS
    a = a
    b = b
    t1 = t1
    t2 = t2
    t3 = t3
    None = None
    Processes = {a, b}
    Threads = {t1, t2, t3}
    ProcessOf <- ThreeThreads
    Backups = 4
    MaxSize = 0
    MaxLines = 4
    MaxErrors = 1
SPECIFICATION FairSpec
INVARIANTS GivenUpForNewer ThreadOrder
PROPERTY WriteReturns
CHECK_DEADLOCK FALSE
