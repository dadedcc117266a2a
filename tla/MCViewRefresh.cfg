SPECIFICATION Spec
CONSTANTS
    View = {"a", "b"}
    RetryCount = 3
    MaxEvents = 2
CHECK_DEADLOCK FALSE
INVARIANTS
    TypeOK
    ReservationsBalance
    AuthorityNamesTheView
PROPERTIES
    ViewsCatchUp
