SPECIFICATION FrameSpec
CONSTANTS
    c1 = c1
    c2 = c2
    Centers = {c1, c2}
    Home = c1
    k1 = k1
    Keys = {k1}
    Window <- MCWindow
    Faces <- MCFaces
    Distance <- MCDistance
    MeshesPerFrame = 1
    stone = stone
    Materials = {stone}
    Air = Air
    MeshSizes = {1}
    MaxRevision = 4
    MaxGeneration = 0
    CompletedCap = 0
    MAX_QUEUED_MESH_JOBS = 1
    MAX_MESH_RESULTS = 1
    MAX_MESH_RESULT_BYTES = 1
    STALE_STREAM_FALLBACK_AFTER = 1
INVARIANTS
    StallIsPaid
PROPERTIES
    WindowFollowsEye
    MeshesCatchUp
    DropJoins
CHECK_DEADLOCK FALSE
