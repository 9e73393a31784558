SPECIFICATION ClientsSpec
CONSTANTS
    Parts = {"session", "pairing", "signaling", "relay"}
    HostSession = {h1, h2}
    GuestSession = {g1}
    Msg = {m1, m2}
    Window = 2
    MaxSeq = 3
    None = None
    Room = {r1, r2}
    TakenRooms = {r2}
    Secret = {s1, s2}
    MaxCalls = 2
    RoomTries = 2
    AddressTries = 2
    Width = 5
    MinBits = 1
    Private <- MCPrivate
    Networks <- MCNetworks
    MaxMishaps = 1
    Unset = Unset
    HostSocket = {a1, a2}
    GuestSocket = {b1, b2}
    Generation = {n1, n2, n3, n4}
    RelayOnlyRuns = {{}, {"host"}, {"guest"}}
    Backlog = 3
    MaxFaults = 2
    Nil = Nil
    Runner = {c1, c2}
    Lease = 4
    Renewal = 2
    Admission = 2
    Slots = 2
    MaxTroubles = 2
INVARIANTS
    ClientsTypeOK
    WindowExact
    NoReplay
    PeersAgree
    NonceOnce
    PathsSound
    PairingAgrees
    AccessFollowsLease
PROPERTIES
    WorkingPathKept
    ClientsProgress
CONSTRAINT FewFrames
CHECK_DEADLOCK FALSE
