\* A room is abandoned while a transfer runs, and that transfer then fails.
SPECIFICATION Spec
CONSTANTS
    Handshakes = {h1, h2, h3}
    HandshakeSlots = 2
    MaxWrongCodes = 1
    Disturbances = {}
PROPERTY NobodyNewAfterTheEnd
