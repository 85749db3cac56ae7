SPECIFICATION TileSpec
CONSTANTS
    Plans <- Near
    Empty <- Inside
    Size <- NearSize
    MAX_TILE_UPLOADS = 2
    MAX_TILE_JOBS = 1
    MAX_TILE_RESULTS = 2
    MAX_TILE_RESULT_BYTES = 3
    TILE_CACHE_BYTES = 3
    TILE_HYSTERESIS_FRAMES = 1
    TILE_HYSTERESIS_HELD = 1
INVARIANTS
    ActiveIsHeld
    GroundIsDrawn
PROPERTIES
    PlanIsFilled
    DropEnds
CHECK_DEADLOCK FALSE
