\* Two loggers that live together, calls that race with destroy(), and files that
\* cannot be written or opened.
CONSTANTS
    Self = Self
    NoLogger = NoLogger
    Loggers = {l1, l2}
    Producers = {p1, p2, p3}
    QueueMax = 2
    BatchMax = 2
    Together = TRUE
    QuietDestroy = FALSE
    MaxLogs = 4
    MaxFailures = 1
    MaxThreads = 2
SPECIFICATION AsyncSpec
INVARIANT FreedByLastHolder
PROPERTY AllWrittenAtExit
CHECK_DEADLOCK FALSE
