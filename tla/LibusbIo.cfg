SPECIFICATION Spec
CONSTANTS
    a = a
    b = b
    NoOne = NoOne
    Threads = {a, b}
    Timed = {a}
    MayFail = {a, b}
    Slow = {}
    MaxMessages = 1
INVARIANTS
    PipeMatches
    UsesLive
PROPERTIES
    TransfersReturn
    CloseReturns
CHECK_DEADLOCK FALSE
