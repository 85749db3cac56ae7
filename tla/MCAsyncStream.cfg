SPECIFICATION Spec
CONSTANTS
    c1 = c1
    c2 = c2
    Centers = {c1, c2}
    k1 = k1
    Keys = {k1}
    Window <- MCWindow
    Faces <- MCFaces
    stone = stone
    wood = wood
    Materials = {stone, wood}
    Air = Air
    MeshSizes = {1, 2}
    MaxRevision = 3
    MaxGeneration = 1
    CompletedCap = 0
    MAX_QUEUED_MESH_JOBS = 1
    MAX_MESH_RESULTS = 1
    MAX_MESH_RESULT_BYTES = 1
    STALE_STREAM_FALLBACK_AFTER = 2
INVARIANTS
    SnapshotsAgree
    DrawnMatchesRevision
    ActiveKeysExact
PROPERTIES
    PublicationKeepsEdits
CHECK_DEADLOCK FALSE
