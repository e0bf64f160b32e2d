CONSTANTS
    Cells = {a, b}
    Values = {0, 1}
    Locks = {m}
    NoSnapshot = NoSnapshot
    MaxDepth = 3
    WriteAfterAbort = FALSE
SPECIFICATION Spec
SYMMETRY Symmetry
INVARIANTS
    TypeOK
    AllOrNothing
    ReturnMeansCommitted
    AbortsWhenDue
    CallbacksMatchOutcome
