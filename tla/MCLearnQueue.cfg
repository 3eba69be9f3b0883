CONSTANTS
    Grep = {g1, g2, g3}
    Pattern = {p, q}
    MaxLines = 2
    MaxOutages = 1
    MaxFailures = 1
SPECIFICATION FairSpec
INVARIANTS
    TypeOK
    TeachingsAccounted
PROPERTIES
    QueueDrains
