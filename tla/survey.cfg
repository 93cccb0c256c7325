SPECIFICATION Spec
CONSTANTS
    Mints = {"m1", "m2"}
    Filters = {{"m1"}, {"m1", "m2"}}
    Sinces = {1}
    PageSize = 1
    MaxPages = 3
    SeekSlack = 1
    SeekAge = 0
    Lookback = 1
    Grace = 2
    Leads = {0, 2}
    MaxTime = 4
    MaxUpdates = 2
    MaxNoise = 1
    MaxDuring = 1
    MaxRuns = 2
INVARIANTS
    TypeOK
    WindowsRecovered
PROPERTIES
    PreviousIsTrue
CHECK_DEADLOCK FALSE
