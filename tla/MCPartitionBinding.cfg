CONSTANTS
    Job = {j1, j2}
    Op = {o1}
    Partition = {home, sessions}
    Home = home
    Unset = Unset
    NoOwner = NoOwner
SPECIFICATION FairSpec
INVARIANTS
    TypeOK
    WritesKeepTheirPartition
    RestoredAfterLoneJob
PROPERTIES
    OpsAreServed
CHECK_DEADLOCK FALSE
