SPECIFICATION Spec
CONSTANTS
    Digest = {"d1", "d2"}
    NoDigest = NoDigest
    Path = {"file"}
    File = "file"
    NoEntry = NoEntry
    EmptyState = {}
    PendingStates = {}
    NoState = NoState
    NoCopy = NoCopy
    MaxStored = 1
    PreserveRevision = FALSE
    Sentinel = 50
    Op = {"x1", "p1", "p2"}
    NoOp = NoOp
    KindOf <- MCKindOf
    DigestOf <- MCDigestOf
    Proc = {"A"}
    ProcOf <- MCOneProcess
    ChangesState = {"p2"}
    MaxConflicts = 3
    MaxHighlightAttempts = 16
    MaxOps = 2
    MaxFaults = 1
    MaxEvictions = 1
    MaxCrashes = 0
CHECK_DEADLOCK FALSE
INVARIANTS
    OperationsBalance
PROPERTIES
    EveryOperationEnds
