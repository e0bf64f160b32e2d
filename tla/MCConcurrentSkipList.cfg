CONSTANTS
    Threads = {0, 1}
    Keys = {1, 2, 3}
    None = None
    MAX_LEVEL = 2
    NodeIds = {1, 2, 3, 4, 5, 6}
    Scenarios <- AllScenarios
SPECIFICATION Spec
CHECK_DEADLOCK FALSE
INVARIANTS
    LevelsNested
    Accounted
PROPERTIES
    KeepsPromise
    EveryCallReturns
