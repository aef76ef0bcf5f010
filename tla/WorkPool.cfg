SPECIFICATION FairSpec
CONSTANTS
    MaxIds = 3
    MaxElements = 2
    Buffers = {b1, b2, b3, b4}
    NoBuffer = NoBuffer
    feeder = feeder
    filter = filter
    sender = sender
    Threads = {feeder, filter, sender}
    stage <- PipelineStage
    MaxItems = 3
INVARIANTS
    NoAlias
    Conservation
    Order
PROPERTIES
    ImplementsChannel
    Delivered
