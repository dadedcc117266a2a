SPECIFICATION Spec
CONSTANTS
    Proc = {a, b}
    Token = {t1, t2}
    NoProc = NoProc
    NoToken = NoToken
    Main = "main"
    Journal = "journal"
    Wal = "wal"
    File = {f1, f2, f3}
    NoFile = NoFile
    Gen = {g1}
    NoGen = NoGen
    Desktop = FALSE
    MaxSize = 1
    MaxFaults = 1
SYMMETRY MCSymmetry
CHECK_DEADLOCK FALSE
INVARIANTS
    ConnectedToCanonical
PROPERTIES
    NoForeignReplay
