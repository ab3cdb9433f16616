CONSTANTS
    PageSize = 2
    Peers <- MCPeers
    MaxAsks = 2
    Starts <- MCStarts
SPECIFICATION FairSpec
CHECK_DEADLOCK FALSE
INVARIANTS
    ChatTypeOK
    ListedOnceInOrder
PROPERTIES
    ComesBack
    TypingClears
    ListedGetsRead
