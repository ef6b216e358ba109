SPECIFICATION FairSpec
CONSTANTS
    Servers = {s1}
    Infos = {i1, i2}
    Clients = {c1, c2, c3}
    Modules = {m1}
    Reactor = Reactor
    Timer = Timer
    HighMark = 1
    MaxOps = 3
    MaxRefusals = 1
    MaxDrops = 1
    Data = Data
    Stop = Stop
    Nil = Nil
INVARIANTS
    TypeOK
    OwnClient
    CallerSafe
PROPERTIES
    OnlyTimerDisturbs
    Rebuilt
CHECK_DEADLOCK FALSE
