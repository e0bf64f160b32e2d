CONSTANTS
    Kinds = {"pods"}
    Values = {0, 1}
    MaxOps = 2
    Misuse = {"reuse"}
SPECIFICATION Spec
VIEW View
INVARIANT
    AtomicAndDurable
