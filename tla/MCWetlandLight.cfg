SPECIFICATION WetlandSpec
CONSTANTS
    Cells <- Box
    Around <- Sky
    Materials <- One
    NumFaces = 3
    Own <- OwnCells
    Outward <- Outwards
    Samples = 2
    Gather <- Rays
    Sources = {"noon", "dusk"}
    NoSource = NoSource
    World <- Empty
    Shadow <- SunRays
    Proxies <- Placed
    Block <- Areas
    Capacity = 2
    RayBudget = 3
    WorkBudget = 4
    MaxEdits = 3
    Cameras = {"near", "far"}
    SceneVersions = {1, 2}
    MaxDeferred = 1
    Bodies = {"none", "away", "above"}
    Color <- Colors
    Footprint <- Places
    MaxFaults = 1
INVARIANTS
    LitAsDrawn
    PublishedIsFresh
    KeptIsExact
PROPERTIES
    LightReturns
CHECK_DEADLOCK FALSE
