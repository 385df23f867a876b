\* An empty message whose header comes in two pieces, and a message after it.
CONSTANTS
    Window = 3
    RecvNonblock = FALSE
    Number = 2
    HeaderSize = 2
    BodySizes = {0, 1}
    MaxBreaks = 0
    Modes = {"machine"}
SPECIFICATION StreamSpec
INVARIANT StartsAtHeader
CHECK_DEADLOCK FALSE
