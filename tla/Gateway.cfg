\* Two commands with numbers on both sides of i64::MAX, three calls.
SPECIFICATION GatewaySpec
CONSTANTS
    Half = 4
    OrderIds = {o1, o2}
    Prices <- MCU64
    Quantities <- MCU64
    CommandIds = {k1, k2}
    Commands <- MCCommands
    GrpcNumbers = {0, 2, 5, 7}
    GraphqlNumbers <- MCGraphqlNumbers
    Empty = Empty
    NotU64 = NotU64
    None = None
    MaxCalls = 3
    MaxDrops = 1
    MaxCrashes = 0
SYMMETRY Symmetry
INVARIANTS
    GatewayTypeOK
    ArgumentsCostNoId
    ShownAsTraded
    AnswersAddUp
CHECK_DEADLOCK FALSE
