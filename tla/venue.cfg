SPECIFICATION VenueSpec
CONSTANTS
    OpenTimes = {1, 2, 3, 4, 5, 6}
    DayLength = 2
    MaxScanDays = 1
    Expiry = 2
    Window = 2
    HaltMaxAge = 1
    QuietPeriod = 1
    Forever = 100
    MaxNow = 6
    MaxDelay = 0
    MaxHalts = 1
    MaxChanges = 1
    Strike0 = 7
    MultiplierAtMint = 2
    ContractRawSize = 2
    Adjusts = TRUE
    Scale = 8
    Grid = 2
    MaxMultiplierBand = 2
    Writers = {w1, w2}
    MaxContracts = 2
    NewMultiplier = 4
PROPERTIES
    ImplementsBook
    EverybodySettles
CHECK_DEADLOCK FALSE
