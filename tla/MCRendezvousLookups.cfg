\* Rooms and lookups of two peers, as windows, the grace period and the hour pass.
SPECIFICATION HistorySpec
CONSTANTS
    Peers = {p1, p2}
    Nameplates = {1}
    Ranges <- MCRange
    NameplateSparsity = 2
    MaxRoomsPerPeer = 1
    MaxRooms = 1
    RoomTTL = 1
    OwnerGrace = 0
    LookupWindow = 1
    MaxLookups = 2
    MaxGlobalMisses = 2
    Kinds = {"register", "lookup"}
    NoRoom = NoRoom
    LinksPerPeer = 1
    MaxInFlight = 1
    MaxOpened = 1
    MaxTime = 4
SYMMETRY PeerSymmetry
VIEW StateWithoutReply
INVARIANTS
    TypeOK
    LookupRate
PROPERTIES
    FirstLookupAnswered
    PositiveAnswersAreFresh
