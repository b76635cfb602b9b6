\* Two nodes and a client; connections cross, break, are replaced and reused.
SPECIFICATION Spec
CONSTANTS
    Node = {n1, n2}
    Client = {c1}
    CLIENT_ID = CLIENT_ID
    None = None
    MAX_CONNECTIONS = 2
    Capacity = 2
    MaxFd = 3
    MaxConnections = 3
    MaxSends = 3
    MaxCrashes = 1
CHECK_DEADLOCK FALSE
INVARIANTS
    TransportInv
    SlotsPointHome
    NoDescriptorLeak
PROPERTIES
    StaleSlotCleared
    ImplementsLossyNetwork
