\* Rooms opened, refreshed, closed, evicted and swept while owners come and go.
SPECIFICATION Spec
CONSTANTS
    Peers = {p1, p2}
    Nameplates = {1, 2, 3}
    Ranges <- MCRanges
    NameplateSparsity = 2
    MaxRoomsPerPeer = 2
    MaxRooms = 2
    RoomTTL = 1
    OwnerGrace = 0
    LookupWindow = 1
    MaxLookups = 1
    MaxGlobalMisses = 1
    Kinds = {"register", "unregister"}
    NoRoom = NoRoom
    LinksPerPeer = 1
    MaxInFlight = 1
    MaxOpened = 3
    MaxTime = 4
SYMMETRY PeerSymmetry
VIEW StateWithoutReply
INVARIANTS
    RoomLimits
    LedgerBalances
PROPERTIES
    OnlyLapsedRoomsChangeHands
    PresentOwnerKeepsRoom
