SPECIFICATION FairSpec
CONSTANTS
    reactor = reactor
    other = other
    Nil = Nil
    Stop = Stop
    Update = Update
    Console = Console
    Udp = Udp
    WorkerCount = 2
    PoolSize = 2
    MaxQueue = 1
    HighMark = 3
    Threads = {reactor, other}
    Connections = {1}
    Feeds <- WithSender
    MaxEvents = 2
    MaxUpdates = 2
    MaxCommands = 1
INVARIANTS
    TypeOK
    SingleOwner
    QueueBound
PROPERTIES
    LostWhenFull
    InOrder
    EventuallyTaken
    CloseReturns
