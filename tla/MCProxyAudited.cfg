\* What the code does to ForwardedCallsAreAudited
SPECIFICATION Spec
CONSTANTS
    None = None
    NoSecret = NoSecret
    NameMax = 2
    UnifiMax = 3
    GuestMax = 2
    Requests = {r1, r2}
    Names = {"kiosk", "phone"}
    Secrets = {"s1", "s2", "s3"}
    Peers = {"ip1"}
    Sites = {"a", "b"}
    Inputs <- MCOne
    Configs <- MCConfigs
    MaxGen = 1
    MaxTime = 0
    MaxRefill = 0
SYMMETRY Symmetry
CHECK_DEADLOCK FALSE
INVARIANT
    ForwardedCallsAreAudited
