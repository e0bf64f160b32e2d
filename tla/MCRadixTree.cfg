CONSTANTS
    SLNODES = 2
    Scenarios <- AllScenarios
SPECIFICATION Spec
CHECK_DEADLOCK FALSE
INVARIANTS
    AsOrderedMap
    ReadsHold
PROPERTIES
    ReadsReturn
