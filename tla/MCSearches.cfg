CONSTANTS
    Vertices <- MCVertices
    Queries <- MCQueries
    NoVertex = 0
    NodeCount = 3
    EdgeLists <- MCEdgeLists
    Namings <- MCNamings
    Unused = Unused
    Plugins <- MCPlugins
    MaxLearnt = 0
SPECIFICATION MCSpec
INVARIANTS
    CacheSound
    CyclesReported
    PathIsBest
    NewOrderBreaksTies
PROPERTIES
    ImplementsContract
    SearchesReturn
    KeepsGoodOrder
CHECK_DEADLOCK FALSE
