CONSTANTS
    Space = 4
    WrapModulus = 1
    NWorkers = 2
    ElementLengths = {1, 2}
    MaxElements = 3
    EmptyElements = {}
    StaleWrapRestart = FALSE
SPECIFICATION FairSpec
INVARIANTS
    ProducesIntoZeroed
    OnlyWholeElements
    ConsumedInOrder
    NothingLost
PROPERTY
    EverythingConsumed
