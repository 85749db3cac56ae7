SPECIFICATION Spec
CONSTANTS
    Clips <- Slots
    Lengths <- Sizes
    Voices = {v1}
    PoolSize = 2
    Capacity = 2
    MaxGeneration = 2
    Faults = 2
    MaxAhead = 3
INVARIANTS
    PoolPartition
    VoicesReadOwnedPcm
    RtRejectsNothing
    MixerFollowsIntent
CHECK_DEADLOCK FALSE
