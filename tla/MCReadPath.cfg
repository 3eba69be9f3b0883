CONSTANTS
    Reader = {r1, r2}
    Partition = {home, other}
    Home = home
    Nobody = Nobody
    MaxVersion = 3
    MaxFailures = 1
    handle1 = handle1
    Handle = {handle1, handle2}
    Instance = {i1, i2, i3}
    NoInstance = NoInstance
    Connection = {c1, c2}
    OpenRetries = 2
    MaxFile = 3
    id1 = id1  id2 = id2  id3 = id3
    Id = {id1, id2, id3}
    MaxDepth = 3
    term1 = "term1"  term2 = "term2"
    Term = {"term1", "term2"}
    Entity = {1, 2, 3, 4, 5, 6}
    Universe = {1, 2, 3, 4}
    Row <- MCRow
    MaxTokens = 6
SPECIFICATION MCSpec
INVARIANTS
    TypesOK
    RequestsAreKept
    AnswersAreRight
    ConnectionsAccounted
    NeighborsAreWithinDepth
    QueriesMeanTheirGrammar
PROPERTIES
    TiersNeverGoBack
    RequestedWritesReachReaders
CHECK_DEADLOCK FALSE
