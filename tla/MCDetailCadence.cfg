SPECIFICATION MCSpec
CONSTANTS
    Versions = {1, 2, 3, 4, 5, 6, 7}
    Epochs = {1, 2, 3}
    Cells = {1, 2, 3}
    Sources <- MCSources
    Rejected <- MCRejected
    Colliders <- MCColliders
    MAX_PENDING_ADDED = 1
    MeshFailures = TRUE
    MaxEdits = 3
INVARIANTS
    NothingThroughABody
    JournalTellsScene
    BurstLeadsBackToLive
PROPERTIES
    AnnouncedBecomesSolid
CHECK_DEADLOCK FALSE
