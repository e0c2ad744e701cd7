CONSTANTS
    ClassOf <- MCClassOf
    ValidConditions = {"c"}
    MaxU32 = 4
    Dashed <- MCDashed
    NameKey <- MCNameKey
    RegexNames = {"A.*"}
    InvalidRegexes = {}
    Matches = {}
    Items <- MCItems
    Unused = Unused
SPECIFICATION MCSpec
INVARIANT WrittenMetadataIsWhole
CHECK_DEADLOCK FALSE
