SPECIFICATION Spec
CONSTANTS
    Nil = Nil
    Commands = {c1}
    Link = Link
    Cleared = Cleared
    WTTimeoutCount = 2
    Rules <- AllRules
    Start = 2
    MaxTime = 5
    MaxMessages = 4
INVARIANTS
    TypeOK
    RefusedForCharges
PROPERTIES
    ImplementsSlowWindow
CHECK_DEADLOCK FALSE
