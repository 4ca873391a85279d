CONSTANTS
    q1 = q1
    q2 = q2
    w1 = w1
    PeerOrder <- MCPeerOrder
    Webseeds <- MCWebseeds
    pieceCount = 3
    blockCountInPiece = 2
    blockCountInLastPiece = 1
    Priority <- MCPriority
    Dnd = {1}
    QueueLen = 2
    WebQueueLen = 1
    pieceSize = 4
    FileLengths <- MCFileLengths
    BufSize = 3
    MaxEvents = 4
    MAX_BAD_PIECES_PER_PEER = 2
SPECIFICATION Spec
SYMMETRY MCSymmetry
INVARIANT
    AvailabilityCountsSampledPiece
