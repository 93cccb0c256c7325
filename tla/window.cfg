SPECIFICATION Spec
CONSTANTS
    OpenTimes = {3, 4, 6, 7, 12, 13, 15, 16}
    DayLength = 3
    MaxScanDays = 3
    Expiry = 3
    Window = 3
    HaltMaxAge = 3
    QuietPeriod = 2
    Forever = 100
    MaxNow = 15
    MaxDelay = 1
    MaxHalts = 1
    MaxChanges = 1
INVARIANTS
    TypeOK
    WindowNeverShort
PROPERTIES
    CollateralNotFrozen
