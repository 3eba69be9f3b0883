CONSTANTS
    Thread = {t1, t2, t3, t4}
    NoOwner = NoOwner
SPECIFICATION FairSpec
INVARIANTS
    TypeOK
    OwnershipAccounted
PROPERTIES
    RefinesFifoMutex
    NoStarvation
