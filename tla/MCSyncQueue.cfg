CONSTANTS
    File = {doc, py}
    Python = {py}
    NoOwner = NoOwner
    MaxEdits = 2
    MaxOutages = 1
    MaxFailures = 1
SPECIFICATION FairSpec
INVARIANTS
    TypeOK
    EditsAreAccounted
    FactsAreAccounted
PROPERTIES
    FlushesEnd
