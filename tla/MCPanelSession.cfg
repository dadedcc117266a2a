SPECIFICATION Spec
CONSTANTS
    Result = {"r1"}
    NoResult = NoResult
    NoAdoption = NoAdoption
    BackoffLength = 1
    LedgerLimit = 2
    MaxEvents = 3
    MaxInFlight = 1
CHECK_DEADLOCK FALSE
INVARIANTS
    TypeOK
    AcknowledgedIsShown
PROPERTIES
    PageNeverGoesBack
    EventuallyShown
