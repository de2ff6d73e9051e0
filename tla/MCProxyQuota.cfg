\* Two requests, budgets of one and two units that a reload replaces; every
\* request settles, whoever stalls
SPECIFICATION FairSpec
CONSTANTS
    None = None
    NoSecret = NoSecret
    NameMax = 2
    UnifiMax = 3
    GuestMax = 2
    Requests = {r1, r2}
    Names = {"kiosk", "phone"}
    Secrets = {"s1", "s2", "s3"}
    Peers = {"ip1"}
    Sites = {"a", "b"}
    Inputs <- MCBusy
    Configs <- MCMetered
    MaxGen = 2
    MaxTime = 0
    MaxRefill = 1
CHECK_DEADLOCK FALSE
INVARIANTS
    BudgetsConserved
    WorkWithinQuota
    LogonsWithinIpQuota
PROPERTIES
    EveryRequestSettles
