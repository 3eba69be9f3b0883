CONSTANTS
    Reader = {}
    Partition = {home}
    Home = home
    Nobody = Nobody
    MaxVersion = 3
    MaxFailures = 0
SPECIFICATION FairSpec
PROPERTIES
    WritesReachReaders
CHECK_DEADLOCK FALSE
