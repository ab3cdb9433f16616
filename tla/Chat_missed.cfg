CONSTANTS
    PageSize = 2
    Peers <- MCPeers
    MaxAsks = 2
    Starts <- MCReliable
SPECIFICATION Spec
CHECK_DEADLOCK FALSE
INVARIANTS
    NothingMissed
