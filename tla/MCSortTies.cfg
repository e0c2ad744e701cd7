CONSTANTS
    Plugins <- FourPlugins
    MaxLearnt = 8
    GroupNames <- OneGroup
    DefaultGroup = 2
    NoGroup = 0
    Inputs <- TieInputs
SPECIFICATION FairSpec
INVARIANTS
    CacheSound
    StaysAcyclic
    UniqueOrder
    Idempotent
PROPERTIES
    Terminates
CHECK_DEADLOCK FALSE
