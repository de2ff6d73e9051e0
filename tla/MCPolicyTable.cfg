\* Every limits section and every token override over a small range
SPECIFICATION Spec
CONSTANTS
    None = None
    NameMax = 2
    UnifiMax = 3
    GuestMax = 2
    LimitsSet <- MCLimits
    TokenSet <- MCTokens
    Asks <- MCAsks
INVARIANTS
    AcceptsExactlyTheRange
    OverridesNeverWiden
    BadRequestIsTheRequestsFault
PROPERTIES
    TighteningNeverGrants
