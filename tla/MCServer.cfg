\* A process, its operator and two clients: reloads, shutdown, death, restart
SPECIFICATION FairSpec
CONSTANTS
    None = None
    EnvKey = "unset"
    Certs = {"old"}
    Public <- MCPublic
    Malformed = Malformed
    Contents <- MCContents
    Clients = {c1, c2}
    MaxReloads = 2
INVARIANTS
    TypeOK
    LiveIsSound
    ReloadsAreCounted
    CheckConfigAgrees
PROPERTIES
    NoHangupIsLost
    ShutdownEnds
