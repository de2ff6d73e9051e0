\* Two calls, their connections and answers, through a reload and a rotation
SPECIFICATION FairSpec
CONSTANTS
    None = None
    EnvKey = "unset"
    Certs = {"old", "new", "other"}
    Public <- MCPublic
    Malformed = Malformed
    Calls = {"lister", "creator"}
    Configs <- MCConfigs
    Asks <- MCAsks
    Replies <- MCReplies
    ConsoleCerts = {"old", "new"}
    MaxGen = 2
CHECK_DEADLOCK FALSE
INVARIANTS
    TypeOK
    KeyGoesWhereConfigured
    PinnedCallsReachTheConsole
    OnlyRequestErrorsAreQuoted
    InterfacesAgreeOnSites
    ListsAreWholeOrEmpty
PROPERTIES
    MediatesCalls
    CallsEnd
