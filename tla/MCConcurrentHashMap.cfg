CONSTANTS
    Threads = {0, 1}
    Keys = {0, 2, 6}
    Values = {1, 2}
    None = None
    hasher <- HashOfKey
    NodeIds = {1, 2, 3, 4, 5, 6}
    first_block = 2
    number_of_segments = 3
    Scenarios <- AllScenarios
SPECIFICATION Spec
CHECK_DEADLOCK FALSE
INVARIANTS
    SizeIsDistance
    Asserts
    DefragmentsAlone
PROPERTIES
    KeepsPromise
    EveryCallReturns
