\* Two processes of one thread; one backup, so that a file is soon given up.
CONSTANTS
    a = a
    b = b
    t1 = t1
    t2 = t2
    t3 = t3
    None = None
    Processes = {a, b}
    Threads = {t1, t3}
    ProcessOf <- TwoThreads
    Backups = 1
    MaxSize = 0
    MaxLines = 3
    MaxErrors = 0
SPECIFICATION Spec
PROPERTY NewLineKept
CHECK_DEADLOCK FALSE
