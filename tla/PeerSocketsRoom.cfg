SPECIFICATION Spec
CONSTANTS
    HostConn = {h1, h2}
    GuestConn = {g1}
    Removable = TRUE
    QueueSize = 1
    MaxSends = 1
    Revocable = {"host", "guest"}
    MayClose = TRUE
    None = None
CHECK_DEADLOCK FALSE
SYMMETRY Symmetry
INVARIANTS
    NoStraySocket
    ReadinessAnnounced
    RevokedIsSilenced
    CloseIsFinal
