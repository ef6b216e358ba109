SPECIFICATION FairSpec
CONSTANTS
    chat = chat
    login = login
    link = link
    enter = enter
    Console = Console
    Free = Free
    Nil = Nil
    Modules = {chat, login}
    Commands = {link, enter}
    Subscribes <- One
    Loaded = {chat}
    Infos = {a, b}
    WorkerCount = 2
    MaxQueue = 1
    Operations = {"load", "unload", "reload"}
    MaxOps = 2
    MaxMessages = 1
INVARIANTS
    TypeOK
    OpenOnce
    RegisteredMapped
PROPERTIES
    Settles
CHECK_DEADLOCK FALSE
