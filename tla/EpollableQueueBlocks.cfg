\* A queue that holds more elements than its pipe holds bytes, as 65537 with the
\* default of 65536 of a Linux pipe.
CONSTANTS
    Uninit = Uninit
    NoOne = NoOne
    Elem = {a}
    Pushers = {p1, p3}
    Poppers = {c1}
    Patient = {p1}
    QueueMax = 2
    PipeMax = 1
    BatchMax = 2
    MaxSpurious = 0
SPECIFICATION FairSpec
PROPERTY PushBackDoesNotBlock
CHECK_DEADLOCK FALSE
