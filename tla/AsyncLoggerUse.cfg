\* Two loggers that live together, and a call inside do_log() of one that goes.
\* Both are violated; TLC stops at the first (-continue shows the other).
CONSTANTS
    Self = Self
    NoLogger = NoLogger
    Loggers = {l1, l2}
    Producers = {p1}
    QueueMax = 1
    BatchMax = 2
    Together = TRUE
    QuietDestroy = TRUE
    MaxLogs = 1
    MaxFailures = 0
    MaxThreads = 1
SPECIFICATION AsyncSpec
INVARIANTS ThreadServesOpenLoggers NotFreedUnderCall
CHECK_DEADLOCK FALSE
