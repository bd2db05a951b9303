SPECIFICATION AssetsSpec
CONSTANTS
    Kinds = {"load", "load_profile", "pv", "pv_profile", "meter", "commercial", "plant", "maker", "bus"}
    Powers <- MCPowers
    Infinite = 4
    Measured <- MCMeasured
    FutureSlots = 1
    SettlementAge = 2
    UpdateTicks = 1
    LastSlot = 2
    LastTick = 1
    MaxReconfigurations = 1
INVARIANTS
    AssetTradesWithinPlan
    AssetOrdersMatchEnergy
    AssetSettlesTheDeviation
    ForwardOrdersCovered
ACTION_CONSTRAINT TradesForReachedSlots
CHECK_DEADLOCK FALSE
