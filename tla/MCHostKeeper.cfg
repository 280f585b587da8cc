\* Losing the meeting point and putting the room back, and everything that ends
\* the room, under fair scheduling.
SPECIFICATION FairSpec
CONSTANTS
    Handshakes = {h1}
    HandshakeSlots = 1
    MaxWrongCodes = 1
    Disturbances = {"drop", "hour", "taken"}
INVARIANTS
    ClosedByOne
    RoomIsKept
PROPERTIES
    RestoreEnds
    DoomedRoomCloses
