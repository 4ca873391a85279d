------------------------------ MODULE MCRefill ------------------------------
(* Model values and small definitions that instantiate Refill for TLC,   *)
(* and the byte layout of the same torrent for InOut: pieces of 4 bytes   *)
(* (two blocks of 2) and a last piece of 2 bytes (one block), spread over *)
(* files of 3, 0, 5 and 2 bytes, so pieces straddle files and one file is *)
(* empty.                                                                  *)
EXTENDS Refill, InOut, TLC

CONSTANTS q1, q2, w1

MCPeerOrder == <<q1, q2>>
MCWebseeds == <<w1>>
MCPriority == [p \in 0 .. 2 |-> IF p = 2 THEN 1 ELSE 0]
(* With two peers the fenceposts of getPeersUploadingToClient give both    *)
(* orders, so the peers are interchangeable.                               *)
MCSymmetry == Permutations({q1, q2})

MCFileLengths == <<3, 0, 5, 2>>

(* torrent.h: the bytes of a block, with blocks of pieceSize /            *)
(* blockCountInPiece bytes and the last block holding the rest.           *)
blockSize == pieceSize \div blockCountInPiece
tr_torBlockCountBytes(block) ==
    IF block = blockCount - 1
    THEN lastPieceSize - (blockCountInLastPiece - 1) * blockSize
    ELSE blockSize
BlockOffsetInPiece(block) == (block - tr_torPieceFirstBlock(tr_torBlockPiece(block))) * blockSize

(* Every block the client holds was written through tr_ioWrite, and the   *)
(* readOrWriteBytes calls of that write put exactly its bytes, in order,   *)
(* into the files that hold them: across the empty file, at a file         *)
(* boundary and in the short last piece.                                   *)
CompleteBlocksWrittenToTheirFiles ==
    \A b \in complete :
        LET p == tr_torBlockPiece(b)
        IN  SpanIOMatchesBytes(tr_ioWrite(p, BlockOffsetInPiece(b), tr_torBlockCountBytes(b)),
                               p, BlockOffsetInPiece(b), tr_torBlockCountBytes(b))

(* A piece completed by CLIENT_GOT_BLOCK was checked by tr_ioTestPiece:   *)
(* recalculateHash read every byte of it, in buffer-sized reads that      *)
(* tr_ioRead accepts.                                                      *)
CompletePiecesHashedWhole ==
    \A p \in Pieces : tr_cpPieceIsComplete(complete, p) => HashReadsTile(p)

(* Progress bars narrower than, as wide as, and wider than the torrent.   *)
AvailabilityTabCounts == {2, 4}

(* transmission.h documents tr_torrentAvailability: each cell is -1 if we *)
(* have the piece, otherwise the number of peers who have the piece.  The  *)
(* cell of tr_peerMgrTorrentAvailability samples piece i * interval and    *)
(* must count the peers holding that piece.                                *)
AvailabilityCountsSampledPiece ==
    \A n \in AvailabilityTabCounts :
        LET tab == tr_peerMgrTorrentAvailability(n)
            piece(i) == (i * pieceCount) \div n
        IN  \A i \in 0 .. n - 1 :
               tab[i] = IF tr_cpPieceIsComplete(complete, piece(i)) THEN -1
                        ELSE Cardinality({q \in peers : piece(i) \in have[q]})
====
