\* One logger after another, and files that cannot be written or opened.
CONSTANTS
    Self = Self
    NoLogger = NoLogger
    Loggers = {l1, l2}
    Producers = {p1, p2, p3}
    QueueMax = 2
    BatchMax = 2
    Together = FALSE
    QuietDestroy = TRUE
    MaxLogs = 4
    MaxFailures = 1
    MaxThreads = 2
SPECIFICATION FairAsyncSpec
INVARIANT LinesInOrder
PROPERTY CallsReturn
CHECK_DEADLOCK FALSE
