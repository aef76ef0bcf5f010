SPECIFICATION FairSpec
CONSTANTS
    BufNum = 3
    Faults = {"submit", "events"}
INVARIANTS
    ToldToEnd
    CancelledIdle
PROPERTIES
    ReadEnds
    UnplugEnds
