SPECIFICATION FairSpec
CONSTANTS
    chat = chat
    login = login
    link = link
    enter = enter
    Console = Console
    Free = Free
    Nil = Nil
    Commands = {link, enter}
    Subscribes <- One
    Modules = {chat, login}
    Loaded = {chat}
    Infos = {a, b}
    WorkerCount = 2
    MaxQueue = 4
    Operations = {"load"}
    MaxOps = 1
    MaxMessages = 0
PROPERTIES
    CopiesFollow
CHECK_DEADLOCK FALSE
