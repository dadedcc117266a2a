SPECIFICATION Spec
CONSTANTS
    Proc = {a}
    Token = {t1, t2}
    NoProc = NoProc
    NoToken = NoToken
    Main = "main"
    Journal = "journal"
    Wal = "wal"
    File = {f1, f2, f3, f4}
    NoFile = NoFile
    Gen = {g1, g2}
    NoGen = NoGen
    Desktop = TRUE
    MaxSize = 1
    MaxFaults = 1
SYMMETRY MCSymmetry
CHECK_DEADLOCK FALSE
INVARIANTS
    PreserveResumes
