SPECIFICATION Spec
CONSTANTS
    Digest = {"d1", "d2"}
    NoDigest = NoDigest
    Path = {"file"}
    File = "file"
    NoEntry = NoEntry
    EmptyState = {}
    PendingStates = {}
    NoState = NoState
    NoCopy = NoCopy
    MaxStored = 1
    PreserveRevision = FALSE
    Sentinel = 50
    Op = {"x1", "x2", "p2", "h2"}
    NoOp = NoOp
    KindOf <- MCKindOf
    DigestOf <- MCDigestOf
    Proc = {"A", "B"}
    ProcOf <- MCTwoProcesses
    ChangesState = {"p2"}
    MaxConflicts = 3
    MaxHighlightAttempts = 16
    MaxOps = 3
    MaxFaults = 1
    MaxEvictions = 0
    MaxCrashes = 1
CHECK_DEADLOCK FALSE
INVARIANTS
    TypeOK
    HeadersInOrder
    InstalledNeverAhead
    ReceiptIsOneStep
PROPERTIES
    ImplementsCommitLog
