\* One reader of either kind, a channel of two, two requests given up or replays failed, one stream resumed.
SPECIFICATION Spec
CONSTANTS
    Requests = {r1, r2}
    CommandIds = {k1, k2}
    Streams = {s1}
    Subscriptions = {s1}
    FromSeqs = {0, 2, 9}
    Capacity = 2
    MaxRequests = 3
    MaxEvents = 4
    MaxFaults = 2
    MaxResumes = 1
    MaxBigint = 8
SYMMETRY Symmetry
INVARIANTS
    TypeOK
    DeliveredIsLogged
    StreamsInOrder
    StartsAreKept
    GapsHaveCauses
    UnsentHasOwner
    SubscriptionsEcho
\* The requests stop at their bound.
CHECK_DEADLOCK FALSE
