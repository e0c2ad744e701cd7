CONSTANTS
    Plugins <- ThreePlugins
    MaxLearnt = 6
    GroupNames <- FourGroups
    DefaultGroup = 2
    NoGroup = 0
    Inputs <- SortInputs
SPECIFICATION FairSpec
INVARIANTS
    DependenciesRespected
    EarlyLoadersFirst
    PartGroupsOrdered
    PartOverlapsOrdered
    Idempotent
CHECK_DEADLOCK FALSE
