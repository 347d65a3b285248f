\* One call may be given up; nothing crashes.
SPECIFICATION FairSpec
CONSTANTS
    o1 = o1
    o2 = o2
    o3 = o3
    k1 = k1
    k2 = k2
    OrderIds = {o1, o2, o3}
    Prices = {1}
    Quantities = {1, 2}
    CommandIds = {k1, k2}
    Commands <- MCCommands
    None = None
    MaxCalls = 3
    MaxDrops = 1
    MaxCrashes = 0
INVARIANT OkMeansDone
CHECK_DEADLOCK FALSE
