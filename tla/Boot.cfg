\* Two crashes, one error, two calls of clients.
SPECIFICATION BootSpec
CONSTANTS
    s1 = s1
    s2 = s2
    s3 = s3
    s4 = s4
    s5 = s5
    s6 = s6
    s7 = s7
    OrderIds = {1, 2, 3, 4, 5, 6, 7}
    Prices = {97, 98, 99, 102, 104, 105}
    Quantities = {5, 10, 15}
    SeedIds <- MCSeedIds
    ClientIds = {c1}
    ClientCommands <- MCClientCommands
    CommandIds <- MCCommandIds
    Commands <- MCCommands
    None = None
    MaxCalls = 2
    MaxDrops = 1
    MaxCrashes = 2
    MaxBoots = 4
INVARIANTS
    BootTypeOK
    SeedComesFirst
    OnlyTheCancelIsRefused
    Opens
PROPERTY Serves
CHECK_DEADLOCK FALSE
