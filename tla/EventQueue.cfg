\* A producer, a consumer and a thread that is both, all of which wait; a ring of two.
CONSTANTS
    Producers = {p1, both}
    Consumers = {c1, both}
    Elem = {a, b}
    Uninit = Uninit
    NoElem = NoElem
    QueueMax = 2
    PushWaits = TRUE
    PopWaits = TRUE
    MaxSpurious = 1
SPECIFICATION FairSpec
INVARIANTS TypeOK WaiterNumbersExact NoStrandedWaiter
PROPERTIES ImplementsFifo CallsReturn
