SPECIFICATION Spec
CONSTANTS
    Device = {d1, d2, d3}
    RoomId = {r1}
    PairId = {p1, p2}
    RelayKey = {}
    MaxDevices = 3
    MaxRooms = 1
    MaxRoomsPerDevice = 1
    MaxPairs = 2
    MaxPairsPerDevice = 1
    MaxRelayKeys = 1
    None = None
SYMMETRY Symmetry
INVARIANTS
    AnswersDurable
    RevokedHoldsNothing
    CommittedRoomIsDurable
    DiskLoadable
PROPERTIES
    ImplementsRegistry
CONSTRAINT FewSubmissions
