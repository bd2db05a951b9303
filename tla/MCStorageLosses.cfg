SPECIFICATION MCSpec
CONSTANTS
    LastSlot = 3
    FutureSlots = 0
    TwoSided = FALSE
    Capacity = 5
    MinEnergy = 1
    InitialEnergy = 2
    BatteryEnergy = 2
    LossScale = 2
    ChargingLoss = 1
    DischargingLoss = 1
    SelfDischarge = 0
    AcceptMayFail = FALSE
    MaxRestarts = 0
INVARIANTS
    NoAssertionFails
