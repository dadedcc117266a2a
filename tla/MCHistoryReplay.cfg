SPECIFICATION Spec
CONSTANTS
    MaxEdits = 1
    MaxReplays = 3
    MaxSaves = 1
    MaxFaults = 1
CHECK_DEADLOCK FALSE
INVARIANTS
    TypeOK
    CommitKeepsLease
    AnswerIsOwed
    HistoryDescribesDocument
PROPERTIES
    SavesExcludeReplays

