SPECIFICATION PricesSpec
CONSTANTS
    Markets = {"grid", "street", "house"}
    Agents = {"Street", "House"}
    Lower <- MCLower
    Higher <- MCHigher
    Loads = {"load"}
    Storages = {"storage"}
    Plants = {"plant"}
    Home <- MCHome
    Ratio <- MCRatio
    Wh = 2
    Capacity = 6
    PlantEnergy = 3
    Registries <- MCRegistries
    Rank <- MCRank
    MaxDesired = 8
    MaxTrades = 2
INVARIANTS
    ReconfigurationTakesEffect
CHECK_DEADLOCK FALSE
