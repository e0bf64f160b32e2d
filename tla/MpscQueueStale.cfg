CONSTANTS
    Space = 4
    WrapModulus = 1
    NWorkers = 2
    ElementLengths = {1, 2}
    MaxElements = 5
    EmptyElements = {}
    StaleWrapRestart = TRUE
SPECIFICATION Spec
INVARIANT
    NothingLost
