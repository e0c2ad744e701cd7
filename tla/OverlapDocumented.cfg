CONSTANTS
    Plugins <- TwoPlugins
    MaxLearnt = 2
    GroupNames <- OneGroup
    DefaultGroup = 2
    NoGroup = 0
    Inputs <- OverlapDocInputs
SPECIFICATION FairSpec
INVARIANTS
    OverlapDocumented
CHECK_DEADLOCK FALSE
