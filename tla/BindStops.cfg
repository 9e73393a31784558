SPECIFICATION FairSpec
CONSTANTS
    Path = {p1}
    Link = {l1}
    Waiter = {}
    Gen = {n1, n2}
    QueueDepth = 2
    MaxPackets = 2
    MaxSends = 0
    None = None
PROPERTIES
    ShutdownTerminates
    CallbacksReturn
CHECK_DEADLOCK FALSE
