\* One request in flight and a queue of one, so that it is full, and either
\* command of SomeCommands once.  One USB call fails.
CONSTANTS
    NumRequests = 1
    QueueSize = 1
    MaxPackets = 2
    MaxFaults = 1
    MaxCommands = 1
    Commands <- SomeCommands
    Probed <- AllCommands
SPECIFICATION Spec
INVARIANTS
    BuffersInOrder
    GainsAndFilterInRange
    SessionEnds
PROPERTIES
    ThreadsLeave
CHECK_DEADLOCK FALSE
