\* The second thread cannot be started.
CONSTANTS
    N = 2
    MaxRounds = 1
    MaxFailures = 1
    MaxHanded = 0
SPECIFICATION Spec
INVARIANT NothingLeft
