SPECIFICATION FairSpec
CONSTANTS
    HostConn = {h1}
    GuestConn = {g1, g2}
    Removable = FALSE
    QueueSize = 2
    MaxSends = 0
    Revocable = {}
    MayClose = FALSE
    None = None
CHECK_DEADLOCK FALSE
PROPERTIES
    RemainingPeerIsTold
