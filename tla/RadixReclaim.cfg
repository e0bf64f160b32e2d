CONSTANTS
    Threads = {t1, t2}
    Objects = {o1, o2}
SPECIFICATION FairSpec
INVARIANTS
    TypeOK
    NoUseAfterFree
PROPERTY
    FullSyncReturns
