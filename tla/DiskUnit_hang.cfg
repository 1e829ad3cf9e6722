SPECIFICATION FairSpec
CONSTANTS
    Packet = {p1, p2}
    NoPacket = NoPacket
    MaxTransfers = 1
    MaxDelay = 1
    Stops = FALSE
    NoMemory = TRUE
    Cancels = {}
PROPERTIES CommandsEnd
