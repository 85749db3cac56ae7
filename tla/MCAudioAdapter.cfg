SPECIFICATION AdapterSpec
CONSTANTS
    Clips <- OneSlot
    Lengths <- OneLength
    Voices = {v1}
    PoolSize = 1
    Capacity = 3
    MaxGeneration = 3
    Faults = 2
    MaxAhead = 5
    MaxEvents = 4
PROPERTIES
    OneResumeIsEnough
    BackgroundStartsNothing
CHECK_DEADLOCK FALSE
