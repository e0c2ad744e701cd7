CONSTANTS
    ClassOf <- MCClassOf
    ValidConditions = {"c"}
    MaxU32 = 4
    Dashed <- MCDashed
    NameKey <- MCNameKey
    RegexNames = {"A.*"}
    InvalidRegexes = {}
    Matches = {}
    Items <- MCItems
    Unused = Unused
SPECIFICATION MCSpec
INVARIANTS
    WrittenMetadataSurvives
    AnchorsAreSound
    ListsAreResolved
    MessagesAsMeant
    PluginsAreRead
CHECK_DEADLOCK FALSE
