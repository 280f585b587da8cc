\* Handshakes, wrong codes, transfers and the room's end, in every order.
SPECIFICATION Spec
CONSTANTS
    Handshakes = {h1, h2, h3, h4, h5}
    HandshakeSlots = 3
    MaxWrongCodes = 3
    Disturbances = {}
SYMMETRY HandshakeSymmetry
VIEW StateWithoutEvent
INVARIANTS
    TypeOK
    OneTransfer
    WrongCodesCountOnce
PROPERTIES
    UsedOnce
