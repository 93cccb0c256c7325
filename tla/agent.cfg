SPECIFICATION Spec
CONSTANTS
    MaxTime = 1
    SdkSessions <- MCSdkSessions
    ChainSessions <- MCChainSessions
    RegularHours <- MCRegularHours
    AskedTimes = {0}
    Tenors = {1, 3}
    Strikes = {5}
    RollWithin = 1
    Quiet = 1
    SCALE = 2
    Multipliers <- MCMultipliers
    ContractSize = 3
    MaxContracts = 4
    Artifacts = {1}
    CalendarId = 1
    Held = 5
    HeldAside = 2
    MaxRuns = 2
    MaxEvents = 1
INVARIANTS
    TypeOK
    SizedOnWhatIsSeen
    ClientsFitTheProgram
CHECK_DEADLOCK FALSE
