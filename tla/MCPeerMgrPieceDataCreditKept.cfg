CONSTANTS
    a1 = a1
    a2 = a2
    b1 = b1
    None = None
    Addrs <- MCAddrs
    Blocked <- MCBlocked
    PexFroms = {1}
    MaxConnectedPeers = 1
    HasWebseeds = FALSE
    AllowsPex = TRUE
    MAX_RECONNECTIONS_PER_PULSE = 2
    MAX_CONNECTIONS_PER_SECOND = 2
    MAX_UNCHOKED_PEERS = 1
    MAX_BAD_PIECES_PER_PEER = 2
    MIN_UPLOAD_IDLE_SECS = 1
    MAX_UPLOAD_IDLE_SECS = 3
    MINIMUM_RECONNECT_INTERVAL_SECS = 1
    SeedPexWaitSecs = 2
    ReconnectBackoff <- MCReconnectBackoff
    Rates = {0, 1}
    Epoch = 3
    MaxTime = 3
    MaxIncoming = 1
    MaxPeerEvents = 3
    MaxStarts = 2
    MaxRemoves = 0
SPECIFICATION Spec
SYMMETRY MCSymmetry
PROPERTY
    PieceDataCreditKept
