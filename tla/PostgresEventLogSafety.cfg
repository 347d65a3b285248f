\* Three overlapping calls, two of them able to race for one key.
SPECIFICATION Spec
CONSTANTS
    Clients = {c1, c2, c3}
    CommandIds = {k1, k2}
    Events = {e1, e2}
    PoolSize = 2
    MaxSeq = 3
    None = None
SYMMETRY Symmetry
INVARIANTS
    TypeOK
    OneEventPerCommand
    AnswersAreLogged
    NoMissingCommandEvent
PROPERTY ImplementsIdempotentLog
