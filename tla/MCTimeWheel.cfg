SPECIFICATION Spec
CONSTANTS
    Nil = Nil
    Handlers = {h1, h2}
    BlockCount = 3
    ContainSize = 2
INVARIANTS
    TypeOK
    IndexSound
    KeepsTime
SYMMETRY Symmetry
PROPERTIES
    ReportsOnTime
    LostByTimeouts
