SPECIFICATION Spec
CONSTANTS
    MaxSlot = 2
    MaxStates = 4
    MaxSessions = 2
    Faults = 2
INVARIANTS
    AckedSurvives
PROPERTIES
    SessionsKept
    AckedComesBack
    EverythingSaved
CHECK_DEADLOCK FALSE
