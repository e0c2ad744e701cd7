CONSTANTS
    ClassOf <- MCClassOf
    ValidConditions = {"c", "d"}
    MaxU32 = 4
    Dashed <- MCDashed
    NameKey <- MCNameKey
    RegexNames <- MCRegexNames
    InvalidRegexes = {}
    Matches <- MCMatches
    Paths = {"masterlist"}
    OrphanPaths = {}
    InitialFiles <- MasterlistOnly
    UserPlugins <- MCUserPlugins
    UserGroups <- MCUserGroups
    UserMessages <- MCUserMessages
    UserTags <- MCUserTags
    Eval <- MCEval
    Checksums = {}
    GroupRank <- MCGroupRank
    MaxCalls = 4
SPECIFICATION Spec
INVARIANT
    WrittenUserlistIsWhole
CHECK_DEADLOCK FALSE
