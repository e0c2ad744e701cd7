CONSTANTS
    ClassOf <- MCClassOf
    ValidConditions = {"c", "d"}
    MaxU32 = 4
    Dashed <- MCDashed
    NameKey <- MCNameKey
    RegexNames <- MCRegexNames
    InvalidRegexes = {}
    Matches <- MCMatches
    Paths = {"masterlist", "twice", "user", "nowhere"}
    OrphanPaths = {"nowhere"}
    InitialFiles <- MCInitialFiles
    UserPlugins <- MCUserPlugins
    UserGroups <- MCUserGroups
    UserMessages <- MCUserMessages
    UserTags <- MCUserTags
    Eval <- MCEval
    Checksums = {}
    GroupRank <- MCGroupRank
    MaxCalls = 4
SPECIFICATION Spec
INVARIANTS
    CollectionsInStep
    WrittenListsAreFaithful
    QueriesMergeLists
PROPERTIES
    FailureChangesNoList
    DiscardIsExact
CHECK_DEADLOCK FALSE
