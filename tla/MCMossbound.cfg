SPECIFICATION Spec
CONSTANTS
    Places = {"Emberfield", "QuarryLoop"}
    Home = "Emberfield"
    Exits <- Near
    Npcs <- Folk
    Wild <- Grass
    Sanctuary <- Hidden
    Trainers = {"lune", "marwick", "vey"}
    Team <- Teams
    Reward <- Rewards
    GYM_TRAINERS = {"lune"}
    GYM_LEADER = "marwick"
    PostGym = {"vey"}
    Species = {"cub", "bear"}
    STARTERS = {"cub"}
    MaxHp <- Health
    Speed <- Speeds
    Evolves <- Grows
    Damages = {1, 2}
    MAX_PARTY = 2
    MAX_STORAGE = 1
    PP_PER_MOVE = 1
    Tonic = 1
    FirstCharms = 1
    FirstTonics = 1
    MAX_SUPPLY = 1
    ROWS = 1
    Refused = Refused
    MaxDeeds = 6
INVARIANTS
    ActiveIsInParty
    EveryoneStands
    SavedOrDirty
PROPERTIES
    NoSoftLock
CHECK_DEADLOCK FALSE
