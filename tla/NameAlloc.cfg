SPECIFICATION Spec
CONSTANTS
    n1 = n1
    n2 = n2
    d1 = d1
    d2 = d2
    pa = pa
    Net = {n1, n2}
    Dev = {d1, d2}
    NetOf <- OneDevPerNet
    Prefix = {pa}
    PrefixOf <- SamePrefix
    Shifted <- NoShift
    NoPrefix = NoPrefix
    RandomId = {1, 2}
    Block = 2
    CollisionWait = 1
    LockWait = 3
    ReprobeWait = 4
    HintHold = 1
    MaxDelay = 1
    Reliable = TRUE
    DistinctIds = TRUE
    CanLeave = TRUE
    CanReinit = FALSE
    MaxOrd = 6
    MaxQueued = 1
INVARIANTS TypeOK UniqueNames NameMatchesId
PROPERTIES ImplementsRegistry SearchGoesUp
SYMMETRY Swaps
