SPECIFICATION FairSpec
CONSTANTS
    Links = {l1, l2, l3}
    NoLink = NoLink
    Packets = {p1, p2}
    NoPacket = NoPacket
    MaxWaiting = 2
    MaxEvents = 3
INVARIANTS Reachable
PROPERTIES InTurn Sent
