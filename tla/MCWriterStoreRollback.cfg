CONSTANTS
    a = a
    b = b
    Entity <- MCEntity
    Edge <- MCEdge
    Home <- MCHome
    Mode = {"tx"}
    MaxFaults = 1
SPECIFICATION LiveSpec
PROPERTIES FlushFollowsCommit
