\* A taker and three makers, on one or two price levels; the price and the
\* quantity zero are refused inputs.
SPECIFICATION Spec
CONSTANTS
    OrderIds = {o1, o2, o3, o4}
    Prices = {0, 1, 2}
    Quantities = {0, 1, 2}
    NoOrder = NoOrder
SYMMETRY Symmetry
INVARIANTS
    TypeOK
    LevelsSound
    LocatorExact
    NeverCrossed
PROPERTIES
    ImplementsPriceTimePriority
    RoundsTakeLots
