\* A client, two listeners, a waiter and the sensor, in a process of five descriptors.
\* Three messages of up to two bytes after a header of two, three bytes on the way.
CONSTANTS
    c1 = c1
    w1 = w1
    Sensor = sensor
    Fds <- MCFds
    Others <- MCOthers
    Clients = {c1}
    Waiters = {w1}
    NumListeners = 2
    MaxTouches = 1
    MaxCreates = 1
    MaxAttempts = 2
    MaxLost = 1
    Window = 3
    RecvNonblock = FALSE
    Number = 3
    HeaderSize = 2
    BodySizes = {0, 1, 2}
    MaxBreaks = 1
    Modes = {"machine", "full", "timed"}
SPECIFICATION NetworkSpec
INVARIANTS OwnedOnce WatchedAsRecorded InStep
PROPERTIES ConnectAnswered WakeupHeard DeliveredInOrder MessagesHandled
CHECK_DEADLOCK FALSE
