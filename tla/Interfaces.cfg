CONSTANTS
    Schemas <- SmallSchemas
    Sources <- SmallSources
    ParameterSets <- SmallParameterSets
    Inputs <- SmallInputs
    Snapshots <- SmallSnapshots
    Methods = {"get", "put"}
    Paths <- SmallPaths
SPECIFICATION MCSpec
CHECK_DEADLOCK FALSE
INVARIANTS
    CyclesAreRejected
    DecodingIsFaithful
    StatementsBindTheirParameters
    DocumentMatchesInput
    MostSpecificPathAnswers
