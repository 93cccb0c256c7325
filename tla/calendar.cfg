SPECIFICATION Spec
CONSTANTS
    Starts <- MCStarts
    Horizon = 17
    ScanDays = 16
    Saturated = 1000000
    MaxEntries = 15
    Appends <- MCAppends
    MaxAppends = 2
INVARIANTS
    CalendarOK
    EasternTimeIsRight
    NextOpenIsTheNext
    TablesAgreeInTheCapture
PROPERTIES
    MinutesAreSessions
CHECK_DEADLOCK FALSE
