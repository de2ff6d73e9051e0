\* Three workers, four secrets, two of them unknown; lists with repeated secrets
SPECIFICATION Spec
CONSTANTS
    None = None
    NameMax = 2
    UnifiMax = 3
    GuestMax = 2
    Workers = {w1, w2, w3}
    Secrets = {"s1", "s2", "s3", "s4"}
    TokenLists <- MCTokenLists
SYMMETRY Symmetry
INVARIANTS
    TypeOK
    CacheBounded
    AnswersAreTheScans
