SPECIFICATION MCSpec
CONSTANTS
    LastSlot = 3
    FutureSlots = 2
    TwoSided = TRUE
    Capacity = 7
    MinEnergy = 1
    InitialEnergy = 3
    BatteryEnergy = 3
    LossScale = 1
    ChargingLoss = 0
    DischargingLoss = 0
    SelfDischarge = 0
    AcceptMayFail = FALSE
    MaxRestarts = 0
INVARIANTS
    NoAssertionFails
    CommitmentsCovered
    OfferedIsOpen
    DischargeLimitRespected
    EnergyFlow
PROPERTY
    BatteryContract
