SPECIFICATION FairSpec
CONSTANTS
    FlagSets <- Some
    Lease = 4
    Margin = 2
    Expiry = 2
    ShortestWait = 1
    LongestWait = 2
    SubWait = 1
    LinkToSubscribed = FALSE
    MaxLost = 1
    MaxLife = 2
    MaxQueue = 3
    MaxCalls = 1
INVARIANTS TypeOK SubscriptionHasRecord SubscriptionHeld
PROPERTIES KeptWhileAlive Heals GoneForgotten
