SPECIFICATION Spec
CONSTANTS
    Nil = Nil
    Handlers = {h1, h2}
    QueueSize = 2
    SendQueue = 2
    MaxConnects = 2
    MaxPosts = 3
    MaxPackets = 1
INVARIANTS
    TypeOK
    HandlerOwned
    EventsInOrder
    SendOrder
    NothingAfterStop
SYMMETRY Symmetry
CHECK_DEADLOCK FALSE
