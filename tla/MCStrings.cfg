CONSTANTS
    Kinds = {"one", "two", "inline", "inlines", "array", "arrays"}
    MaxOps = 2
    Misuse = {}
SPECIFICATION Spec
VIEW View
INVARIANTS
    StringAtomic
    StringSameAsStd
    NoStringLeaked
    QueriesAsStd
    FixedAtomic
    FixedSameAsStd
    FixedQueriesAsStd
