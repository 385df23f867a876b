\* An epoller that is destroyed and created again, nothing else in the process.
CONSTANTS
    Sensor = sensor
    Fds = {1, 2, 3, 4, 5}
    Others = {c1, w1}
    Clients = {c1}
    Waiters = {w1}
    NumListeners = 0
    MaxTouches = 2
    MaxCreates = 2
    MaxAttempts = 1
    MaxLost = 0
SPECIFICATION FairSpec
PROPERTIES WakeupHeard
CHECK_DEADLOCK FALSE
