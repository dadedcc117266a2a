SPECIFICATION LiveGateSpec
CONSTANTS
    Proc = {a, b, c}
    Token = {t1, t2, t3}
    NoProc = NoProc
    NoToken = NoToken
INVARIANTS
    TypeOK
    MutualExclusion
    OpenersKeepTokens
PROPERTIES
    WaitsOnlyForTheSettled
