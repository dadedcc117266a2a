SPECIFICATION Spec
CONSTANTS
    Result = {"r1", "r2"}
    NoResult = NoResult
    NoAdoption = NoAdoption
    BackoffLength = 1
    LedgerLimit = 2
    MaxEvents = 1
    MaxInFlight = 1
CHECK_DEADLOCK FALSE
PROPERTIES
    CommandsEnd
