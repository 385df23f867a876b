\* Two patient pushers, one that does not wait, a popper of up to two elements.
CONSTANTS
    Uninit = Uninit
    NoOne = NoOne
    Elem = {a}
    Pushers = {p1, p2, p3}
    Poppers = {c1}
    Patient = {p1, p2}
    QueueMax = 2
    PipeMax = 2
    BatchMax = 2
    MaxSpurious = 1
SPECIFICATION Spec
INVARIANTS PipeMirrorsQueue FreeSlotsAreOwed
