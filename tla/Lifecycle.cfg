\* Two pools, and a thread that cannot be started.  Three forks and four signals to
\* parent or child; a child that reports its start.
CONSTANTS
    N = 2
    MaxRounds = 2
    MaxFailures = 1
    MaxHanded = 3
    MaxForks = 3
    MaxSignals = 4
SPECIFICATION LifecycleSpec
INVARIANTS NoWakeupLost ObjectsOutliveThreads FiniOnceAndLast ToldTheTruth
PROPERTIES DestroyReturns WokenRuns StopIsHeeded FiniReturns BroughtBackAfterCrash ToldInTheEnd
CHECK_DEADLOCK FALSE
