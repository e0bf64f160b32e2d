CONSTANTS
    Kinds = {"objects"}
    Values = {0, 1}
    MaxOps = 2
    Misuse = {"catch"}
SPECIFICATION Spec
VIEW View
INVARIANT
    AtomicAndDurable
