\* A GraphQL client; nothing fails and nothing lags.
SPECIFICATION Spec
CONSTANTS
    Requests = {r1, r2}
    CommandIds = {k1, k2}
    Streams = {}
    Subscriptions = {s1}
    FromSeqs = {0}
    Capacity = 4
    MaxRequests = 2
    MaxEvents = 3
    MaxFaults = 0
    MaxResumes = 0
    MaxBigint = 8
SYMMETRY Symmetry
INVARIANTS
    NoMissedEvents
\* The requests stop at their bound.
CHECK_DEADLOCK FALSE
