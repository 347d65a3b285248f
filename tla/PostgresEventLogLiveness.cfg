\* One connection for two callers and two keys.
SPECIFICATION FairSpec
CONSTANTS
    Clients = {c1, c2}
    CommandIds = {k1, k2}
    Events = {e1}
    PoolSize = 1
    MaxSeq = 3
    None = None
PROPERTY EveryCallEnds
