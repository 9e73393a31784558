SPECIFICATION Spec
CONSTANTS
    Path = {p1, p2}
    Link = {l1, l2}
    Waiter = {w1}
    Gen = {}
    QueueDepth = 1
    MaxPackets = 0
    MaxSends = 1
    None = None
SYMMETRY Symmetry
INVARIANTS
    NoStrayPath
    ModeFollowsPaths
    NoLostWakeup
    ShutdownIsFinal
CHECK_DEADLOCK FALSE
