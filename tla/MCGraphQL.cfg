\* Two documents of any kind over a reload of the token and its quota
SPECIFICATION Spec
CONSTANTS
    None = None
    NameMax = 2
    UnifiMax = 3
    GuestMax = 2
    Documents = {d1, d2}
    Names = {"kiosk"}
    Secrets = {"s1"}
    Sites = {"a", "b"}
    Texts <- MCTexts
    Configs <- MCConfigs
    MaxGen = 2
    MaxRefill = 1
SYMMETRY Symmetry
CHECK_DEADLOCK FALSE
INVARIANTS
    TypeOK
    CallsWithinQuota
    AddsNoReach
    MutationsStopAtAFailure
    AnswerTellsTheDocument
    VouchersAreCounted
    DocumentRecordedOnce
    ExecutingDocumentsGoOn
PROPERTIES
    MediatesCalls
