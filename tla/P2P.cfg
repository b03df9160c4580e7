SPECIFICATION P2PSpec
CONSTANTS
    n1 = n1
    n2 = n2
    n3 = n3
    A = A
    B = B
    Node = {n1, n2, n3}
    ID = {A, B}
    NodeID <- MCNodeID
    Sizes = {1, 2}
    ChannelSize = 1
    Buffer = 2
    Garbled = Garbled
    Nobody = Nobody
    Leaders = {n1}
    Stopping = {n2}
    MaxConns = 2
    Dials <- MCDials
    MaxEvents = 2
INVARIANTS
    P2PTypeOK
    TableIsLive
    HandshakeComesFirst
PROPERTIES
    HeightsAreTrue
    GoroutinesEnd
CHECK_DEADLOCK FALSE
