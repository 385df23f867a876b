\* One thread, which nobody wakes.
CONSTANTS
    N = 1
    MaxRounds = 1
    MaxFailures = 0
    MaxHanded = 0
SPECIFICATION Spec
INVARIANT RunsOnlyWhenWoken
