SPECIFICATION AdapterSpec
CONSTANTS
    Clips <- OneSlot
    Lengths <- OneLength
    Voices = {v1}
    PoolSize = 1
    Capacity = 3
    MaxGeneration = 3
    Faults = 0
    MaxAhead = 5
    MaxEvents = 2
INVARIANTS
    SoundsAreTracked
CHECK_DEADLOCK FALSE
