SPECIFICATION Spec
CONSTANTS
    Packet = {p1, p2}
    NoPacket = NoPacket
    MaxTransfers = 1
    MaxDelay = 1
    Stops = FALSE
    NoMemory = FALSE
    Cancels = {"reset"}
INVARIANTS BottomAfterOwnIO
