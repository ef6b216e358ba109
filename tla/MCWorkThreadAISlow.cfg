SPECIFICATION Spec
CONSTANTS
    Nil = Nil
    Commands = {c1, c2}
    Link = Link
    Cleared = Cleared
    WTTimeoutCount = 2
    Rules <- OneRule
    Start = 2
    MaxTime = 6
    MaxMessages = 3
INVARIANTS
    SlowRefused
CHECK_DEADLOCK FALSE
