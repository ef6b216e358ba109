SPECIFICATION Spec
CONSTANTS
    k1 = k1
    k2 = k2
    k3 = k3
    k4 = k4
    Nil = Nil
    Objects = {o1, o2}
    Keys <- MCKeys
    LongKeys <- MCLongKeys
    Bucket <- MCBucket
    Count = 3
INVARIANTS
    TypeOK
    ChainsSound
PROPERTY
    ImplementsKeyedPool
