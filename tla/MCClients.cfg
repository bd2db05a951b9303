SPECIFICATION Spec
CONSTANTS
    NoSlot = NoSlot
    Aggregators = {a1, a2}
    Kinds = {"load", "pv", "storage", "meter"}
    Contents <- MCContents
    Requests <- MCRequests
    Limits <- MCLimits
    DispatchTickFrequency = 2
    UpdateTicks = 2
    LastSlot = 1
    LastTick = 1
    MaxAdmin = 2
    MaxBatches = 2
    MaxRequests = 2
    MaxMessages = 3
INVARIANTS
    OrdersInOrder
    RepliesMatchExecution
    AnsweredInOrder
    FailsOnlyWhenDisturbed
ACTION_CONSTRAINT Timely
SYMMETRY Symmetry
CHECK_DEADLOCK FALSE
