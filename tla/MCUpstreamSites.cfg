\* REST shows other sites when the body has no array under `data'
SPECIFICATION Spec
CONSTANTS
    None = None
    EnvKey = "unset"
    Certs = {"old", "new", "other"}
    Public <- MCPublic
    Malformed = Malformed
    Calls = {"lister"}
    Configs <- MCOne
    Asks <- MCAsks
    Replies <- MCReplies
    ConsoleCerts = {"old", "new"}
    MaxGen = 1
CHECK_DEADLOCK FALSE
INVARIANTS
    RestHidesOtherSites
