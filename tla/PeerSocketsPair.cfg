SPECIFICATION FairSpec
CONSTANTS
    HostConn = {h1}
    GuestConn = {g1, g2}
    Removable = FALSE
    QueueSize = 1
    MaxSends = 0
    Revocable = {"guest"}
    MayClose = TRUE
    None = None
CHECK_DEADLOCK FALSE
PROPERTIES
    LossIsSignalled
    StoppedIsDetached
    CloseTerminates
