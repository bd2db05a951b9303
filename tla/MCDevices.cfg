SPECIFICATION DevicesSpec
CONSTANTS
    PumpModel <- MCPumpModel
    SlotsPerHour = 2
    StoreCapacity = 4000
    Calibration = 60
    MaxChange = 45
    Pumps <- MCPumps
    Inputs <- MCInputs
    SwitchAfter = 2
    LastSlot = 3
    LastTick = 1
    Tolerance = 12
INVARIANTS
    CarsWithinLimits
    DevicesFailOnlyWhenKnown
    StoresKeepTheirLedger
PROPERTY
    PumpBuysWhatIsNeeded
CHECK_DEADLOCK FALSE
