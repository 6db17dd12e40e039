SPECIFICATION FairSpec
CONSTANTS
    a = a
    b = b
    Peer = {a, b}
    Timeout = 2
    Grace = 2
    ShortestWait = 1
    LongestWait = 2
    SetupTime = 0
    LateMaps = FALSE
    MaxDelay = 0
    MaxLost = 1
    MaxLife = 1
INVARIANT TypeOK
PROPERTIES UsedLinkKept HalfOpenEnds StaleForgotten
