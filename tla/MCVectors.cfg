CONSTANTS
    Kinds = {"objects", "pods", "pair", "segments", "shelves"}
    Values = {0, 1}
    MaxOps = 2
    Misuse = {}
SPECIFICATION Spec
VIEW View
INVARIANTS
    Consistent
    SameAsStd
    AtomicAndDurable
    NothingLeaked
