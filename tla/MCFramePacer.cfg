SPECIFICATION Spec
CONSTANTS
    HISTORY_CAPACITY = 2
    Percentile = 50
    MAX_DIVISOR = 3
    SETTLE_FRAMES = 2
    MENU_INTERVAL = 60
    Periods = {4, 6}
    Loads <- Scenes
    Overshoots = {0, 1}
    Gap = 150
    MaxEvents = 4
INVARIANTS
    KeptIsEnough
    IntervalsAreFrames
PROPERTIES
    CadenceSettles
    NoMissesInTheEnd
CHECK_DEADLOCK FALSE
