SPECIFICATION FairSpec
CONSTANTS
    SlotCount = 2
    TicksPerSlot = 2
    Consoles = {TRUE, FALSE}
    Incremental = TRUE
    PauseAfter = TRUE
    MaxCommands = 2
    MaxKeys = 2
    MaxCrashes = 2
    EarlyCommands = TRUE
INVARIANTS
    PromptlyHeld
    SlotsCovered
    FinalStatus
PROPERTIES
    HeldRunsEnd
CHECK_DEADLOCK FALSE
