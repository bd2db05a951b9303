SPECIFICATION Spec
CONSTANTS
    TopDown <- MCTopDown
    Parent <- MCParent
    Assets = {"load", "till"}
    Initially = {"grid", "house", "load"}
    EventLists <- MCEventLists
    SlotsPerHour = 1
    MaxAge = 2
    FutureSlots = 1
    LastSlot = 4
    LastTick = 0
    Requests <- MCRequests
    MaxMessages = 3
INVARIANTS
    MarketsFollowTheTree
    AgentsLinkMarkets
    EventsHandledInOrder
CHECK_DEADLOCK FALSE
