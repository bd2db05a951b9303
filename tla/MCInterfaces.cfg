SPECIFICATION InterfacesSpec
CONSTANTS
    Sellers = {storage}
    Buyers = {load, storage}
    MaxEnergy = 2
    LastSlot = 1
    TicksPerSlot = 3
    MaxPosts = 3
    MaxRequests = 2
    MaxRecommendations = 2
INVARIANTS
    TradesAsRecommended
    
    ResultsAreComplete
    ProfilesFollowDatabase
CHECK_DEADLOCK FALSE
