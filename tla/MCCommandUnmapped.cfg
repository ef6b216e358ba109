SPECIFICATION Spec
CONSTANTS
    chat = chat
    login = login
    link = link
    enter = enter
    Console = Console
    Free = Free
    Nil = Nil
    Commands = {link, enter}
    Subscribes <- One
    Modules = {chat, login}
    Loaded = {chat}
    Infos = {a, b, c}
    WorkerCount = 2
    MaxQueue = 4
    Operations = {"load", "unload", "reload"}
    MaxOps = 1
    MaxMessages = 1
INVARIANTS
    RunsMappedCode
CHECK_DEADLOCK FALSE
