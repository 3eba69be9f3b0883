CONSTANTS
    a = a
    b = b
    Entity <- MCEntity
    Edge <- MCEdge
    Home <- MCHome
    Mode = {"auto", "tx", "window"}
    MaxFaults = 1
SPECIFICATION LiveSpec
INVARIANTS TypeOK DriftIsAccounted MemoryIsFaithful RowsNameTheLiving
PROPERTIES BitsCatchUp
