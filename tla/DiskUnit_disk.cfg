SPECIFICATION FairSpec
CONSTANTS
    Packet = {p1, p2}
    NoPacket = NoPacket
    MaxTransfers = 2
    MaxDelay = 1
    Stops = TRUE
    NoMemory = TRUE
    Cancels = {"abort", "reset"}
INVARIANTS TypeOK NoAbort ServiceHasCommand TransferUndisturbed
PROPERTIES CancelQuiesces TransfersEnd
