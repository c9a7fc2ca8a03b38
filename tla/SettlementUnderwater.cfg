SPECIFICATION Spec
CONSTANTS
    TickSize = 3000
    MinQuantity = 1
    RateUnit = 100
    SlippageLimit = 20
    TakerFeeRate = 2
    MakerFeeRate = 1
    MaintenanceMarginRatio = 5
    LiquidationPenaltyRate = 1
    RoundFactor = 4
    RoundBase = 8
    Accounts = {1, 2, 3}
    InitialMark = 15000
    MaxLeverage = 10
    PrivateOrderFee = 50
    MinPrivateBond = 50
    SafetyEpsilon = 1
    OraclePrices = {12000, 18000}
    Plans <- OneBatch
INVARIANT CommittedBatchSettles
CHECK_DEADLOCK FALSE
