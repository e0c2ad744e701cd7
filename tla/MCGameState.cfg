CONSTANTS
    GameTypes = {"OpenMW", "Starfield"}
    Plugins = {"A", "B"}
    Masters <- MCMasters
    FileData <- MCFileData
    InitialFiles <- MCInitialFiles
    Requests <- MCRequests
    ExtraPath = "extra"
    ArchivesIn <- MCArchivesIn
    Orders <- MCOrders
    Actives <- MCActives
    InitialSaved <- MCInitialSaved
    Sorts = {{"A", "B"}}
    Conditions <- MCConditions
    Callers = {"t"}
    MaxOps = 2
    MaxTurns = 1
    MaxEdits = 1
SPECIFICATION Spec
INVARIANTS
    EvaluatorInStep
    MastersLoaded
    SortInputsAreConsistent
PROPERTIES
    OutcomesAreTrue
    CallsReturn
CHECK_DEADLOCK FALSE
