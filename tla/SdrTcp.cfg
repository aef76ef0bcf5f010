SPECIFICATION StalledSpec
CONSTANTS
    Closers = {c1}
    MaxElements = 2
    MaxFed = 2
INVARIANTS
    ReleasedAtClosed
    ReleasedAtEnd
PROPERTIES
    FeederOwnsPool
    ServingEnds
    FeedReturns
