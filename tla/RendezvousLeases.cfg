SPECIFICATION FairSpec
CONSTANTS
    Device = {d1, d2}
    RoomId = {r1, r2, r3}
    PairId = {}
    RelayKey = {k1, k2}
    MaxDevices = 3
    MaxRooms = 2
    MaxRoomsPerDevice = 2
    MaxPairs = 1
    MaxPairsPerDevice = 1
    MaxRelayKeys = 1
    None = None
INVARIANTS
    MemoryIsDurable
    RoomCountsExact
PROPERTIES
    LeaseKept
    ExpiredRoomCollected
