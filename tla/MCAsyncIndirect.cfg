SPECIFICATION Spec
CONSTANTS
    dawn = dawn
    noon = noon
    dusk = dusk
    Keys = {dawn, noon, dusk}
    Generations = {1, 2, 3}
PROPERTIES
    KeepsPromise
    KeyIsPrepared
CHECK_DEADLOCK FALSE
