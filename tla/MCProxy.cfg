\* Two requests of any kind, a reload that revokes a token, a token that lapses
SPECIFICATION Spec
CONSTANTS
    None = None
    NoSecret = NoSecret
    NameMax = 2
    UnifiMax = 3
    GuestMax = 2
    Requests = {r1, r2}
    Names = {"kiosk", "phone"}
    Secrets = {"s1", "s2", "s3"}
    Peers = {"ip1"}
    Sites = {"a", "b"}
    Inputs <- MCInputs
    Configs <- MCConfigs
    MaxGen = 2
    MaxTime = 1
    MaxRefill = 0
SYMMETRY Symmetry
CHECK_DEADLOCK FALSE
INVARIANTS
    TypeOK
    OnlyEntitledIsForwarded
    AnswerMatchesTraffic
    RecordsAgree
    CountedVouchersWereIssued
PROPERTIES
    MediatesCalls
