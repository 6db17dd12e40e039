SPECIFICATION FairSpec
CONSTANTS
    p1 = p1
    p2 = p2
    Peer = {p1, p2}
    FlagSets <- Overlapping
    Leases = {0, 1}
    SubPeriod = 1
    Maps = {"in", "out"}
    RemoteMods = TRUE
    SetResults = {TRUE}
INVARIANTS TypeOK ObjectsUpToDate
PROPERTIES NothingAfterLease LapsedDropped
