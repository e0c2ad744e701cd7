CONSTANTS
    Plugins <- TwoPlugins
    MaxLearnt = 2
    GroupNames <- OneGroup
    DefaultGroup = 2
    NoGroup = 0
    Inputs <- CrossPartInputs
SPECIFICATION FairSpec
INVARIANTS
    CrossEdgesIgnored
CHECK_DEADLOCK FALSE
