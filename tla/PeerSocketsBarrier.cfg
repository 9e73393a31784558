SPECIFICATION Spec
CONSTANTS
    HostConn = {h1}
    GuestConn = {g1, g2}
    Removable = FALSE
    QueueSize = 2
    MaxSends = 1
    Revocable = {}
    MayClose = FALSE
    None = None
CHECK_DEADLOCK FALSE
INVARIANTS
    FirstMessageIsReadiness
