SPECIFICATION Spec
CONSTANTS
    Entries <- MCEntries
    StrayEntry <- MCStrayEntry
    OtherCalendarId = 2
    MaxEvents = 1
    MaxProbes = 1
INVARIANTS
    TypeOK
    RefusedOnlyForARace
    HandEncodedIsGenerated
    HandDecodedIsGenerated
    RecordIsTrue
PROPERTIES
    Converges
CHECK_DEADLOCK FALSE
