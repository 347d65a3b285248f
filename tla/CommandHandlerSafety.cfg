\* Three commands, one of them under a trade key of another, four calls, one call given up, one restart.
SPECIFICATION FairSpec
CONSTANTS
    o1 = o1
    o2 = o2
    o3 = o3
    k1 = k1
    k2 = k2
    OrderIds = {o1, o2, o3}
    Prices = {1}
    Quantities = {1, 2}
    CommandIds <- MCCommandIds
    Commands <- MCCommands
    None = None
    MaxCalls = 4
    MaxDrops = 1
    MaxCrashes = 1
INVARIANTS
    TypeOK
    AtMostOnceEffect
    BookIsReplay
    TradesFollowMatching
    NoOverfill
    FirstReplyTellsTheLog
PROPERTY HandleReturns
CHECK_DEADLOCK FALSE
