SPECIFICATION Spec
CONSTANTS
    Digest = {"d1"}
    NoDigest = NoDigest
    Path = {"file", "alias"}
    NoEntry = NoEntry
    EmptyState = "empty"
    PendingStates = {"edits"}
    State = {"empty", "edits"}
    NoState = NoState
    NoCopy = NoCopy
    MaxStored = 1
    PreserveRevision = FALSE
    Sentinel = 3
    StageId = {"t1"}
    StageInputs <- MCStageInputs
    CopyId = {"c1"}
    Session = {"s1", "s2"}
    Lease = {"l1"}
    SessionOf <- MCSessionOf
    NoPath = NoPath
    CanonicalKey <- MCMerged
CHECK_DEADLOCK FALSE
INVARIANTS
    TypeOK
    RevisionIdentifiesState
    RecencyOrdersEntries
PROPERTIES
    PendingEditsSurvive
    AuthorityNeverRegresses
    ProvenanceNamesUntouchedCopy
    LeaseProtects
