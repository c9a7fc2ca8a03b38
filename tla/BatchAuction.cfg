SPECIFICATION Spec
CONSTANTS
    TickSize = 2
    MinQuantity = 2
    RateUnit = 20
    SlippageLimit = 4
    RoundFactor = 4
    RoundBase = 8
    MaxOrders = 4
    Shapes <- MCShapes
    References <- MCReferences
    Priorities <- MCPriorities
INVARIANTS
    ClearingSucceeds
    OutcomeIsBest
    PricesRespected
    AllocationsFair
CHECK_DEADLOCK FALSE
