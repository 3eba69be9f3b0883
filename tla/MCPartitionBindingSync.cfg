CONSTANTS
    Job = {j1}
    Op = {o1}
    Partition = {home, sessions}
    Home = home
    Unset = Unset
    NoOwner = NoOwner
SPECIFICATION Spec
INVARIANTS
    CodeSyncWritesHome
CHECK_DEADLOCK FALSE
