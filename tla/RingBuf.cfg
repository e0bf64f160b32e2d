CONSTANTS
    Space = 4
    WrapModulus = 2
    NWorkers = 2
SPECIFICATION Spec
INVARIANTS
    Asserts
    NoOverlap
    ConsumesProducedPrefix
    EmptyMeansEmpty
