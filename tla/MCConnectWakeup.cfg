SPECIFICATION FairSpec
CONSTANTS
    Nil = Nil
    Handlers = {h1}
    QueueSize = 2
    SendQueue = 2
    MaxConnects = 1
    MaxPosts = 1
    MaxPackets = 1
PROPERTIES
    Flushed
CHECK_DEADLOCK FALSE
