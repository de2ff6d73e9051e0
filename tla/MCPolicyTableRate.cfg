\* The effective rate under an override of 0
SPECIFICATION Spec
CONSTANTS
    None = None
    NameMax = 2
    UnifiMax = 3
    GuestMax = 2
    LimitsSet <- MCLimits
    TokenSet <- MCTokens
    Asks <- MCAsks
INVARIANT
    RateNeverRaised
