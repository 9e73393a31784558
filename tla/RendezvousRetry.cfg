SPECIFICATION Spec
CONSTANTS
    Device = {d1, d2}
    RoomId = {r1}
    PairId = {p1}
    RelayKey = {}
    MaxDevices = 3
    MaxRooms = 1
    MaxRoomsPerDevice = 1
    MaxPairs = 1
    MaxPairsPerDevice = 1
    MaxRelayKeys = 1
    None = None
SYMMETRY Symmetry
INVARIANTS
    MemberMayRetry
