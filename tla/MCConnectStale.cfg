SPECIFICATION Spec
CONSTANTS
    Nil = Nil
    Handlers = {h1}
    QueueSize = 2
    SendQueue = 2
    MaxConnects = 2
    MaxPosts = 1
    MaxPackets = 1
INVARIANTS
    SentToOwner
CHECK_DEADLOCK FALSE
