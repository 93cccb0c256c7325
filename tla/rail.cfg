SPECIFICATION Spec
CONSTANTS
    OpenTimes = {1, 2, 3, 6}
    SdkOpenTimes = {1, 2, 3, 4, 6}
    QuietPeriod = 1
    HaltMaxAge = 1
    MaxAge = 1
    PythMaxAge = 2
    MaxConf = 100
    MaxDivergence = 150
    Bindings <- MCBindings
    Prints <- MCPrints
    Multipliers = {0, 1, 2}
    Undecodable = 0
    Leads = {0, 2}
    MaxTime = 5
    MaxMoves = 3
INVARIANTS
    TypeOK
    ProbeAgreesWithInstruction
    EpochCountsWhatHappened
PROPERTIES
    ScopeVerdictIsThePrograms
CHECK_DEADLOCK FALSE
