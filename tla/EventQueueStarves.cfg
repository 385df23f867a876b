\* Two consumers: one can keep taking what the other was woken for.
CONSTANTS
    Producers = {p1}
    Consumers = {c1, c2}
    Elem = {a}
    Uninit = Uninit
    NoElem = NoElem
    QueueMax = 1
    PushWaits = TRUE
    PopWaits = TRUE
    MaxSpurious = 0
SPECIFICATION FairSpec
PROPERTY PopFrontReturns
