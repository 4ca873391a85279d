------------------------------- MODULE InOut --------------------------------
(***************************************************************************)
(* The piece I/O of Transmission (inout.c): how a read or a write of a     *)
(* span of a piece is located in the torrent's files and split into one    *)
(* readOrWriteBytes call per file, and how tr_ioTestPiece reads a whole    *)
(* piece in buffer-sized chunks.  These are pure functions of the file     *)
(* layout; the syscalls behind readOrWriteBytes are left out, so a plan    *)
(* is the sequence of calls the loop would make if none of them failed.    *)
(***************************************************************************)
EXTENDS Integers, Sequences, SequencesExt

CONSTANTS
    pieceSize,     \* tor->info.pieceSize
    FileLengths,   \* tor->info.files[i].length, in file order
    BufSize        \* the size of recalculateHash's stack buffer

fileCount == Len(FileLengths)
Files == 1 .. fileCount

(* The torrent layout tr_torrentInit derives from the metainfo: the files  *)
(* are laid end to end, and the last piece holds what is left over.        *)
FileOffset(i) == FoldLeft(LAMBDA acc, l : acc + l, 0, SubSeq(FileLengths, 1, i - 1))
totalSize == FileOffset(fileCount + 1)
info_pieceCount == (totalSize + pieceSize - 1) \div pieceSize
lastPieceSize == totalSize - (info_pieceCount - 1) * pieceSize

(* torrent.h *)
tr_torPieceCountBytes(piece) ==
    IF piece = info_pieceCount - 1 THEN lastPieceSize ELSE pieceSize

tr_pieceOffset(index, offset, length) == index * pieceSize + offset + length

compareOffsetToFile_PastEnd(offset, i) ==
    CASE offset < FileOffset(i)                   -> -1
      [] offset > FileOffset(i) + FileLengths[i]  -> 1
      [] OTHER                                    -> 0

compareOffsetToFile(offset, i) ==
    CASE offset < FileOffset(i)                   -> -1
      [] offset >= FileOffset(i) + FileLengths[i] -> 1
      [] OTHER                                    -> 0

(* bsearch over files lo .. hi - 1: the index of a file comparing equal to *)
(* the key, or 0 for NULL.                                                 *)
RECURSIVE bsearch(_, _, _)
bsearch(offset, lo, hi) ==
    IF lo >= hi THEN 0
    ELSE LET mid == (lo + hi) \div 2
             c == compareOffsetToFile(offset, mid)
         IN  CASE c < 0 -> bsearch(offset, lo, mid)
               [] c > 0 -> bsearch(offset, mid + 1, hi)
               [] OTHER -> mid

(* tr_ioFindFileLocation: the file holding the piece's byte and the offset *)
(* in it; "NULL" when bsearch finds no file.                               *)
tr_ioFindFileLocation(pieceIndex, pieceOffset) ==
    LET offset == tr_pieceOffset(pieceIndex, pieceOffset, 0)
        file == bsearch(offset, 1, fileCount + 1)
    IN  IF file = 0 THEN "NULL"
        ELSE [fileIndex |-> file, fileOffset |-> offset - FileOffset(file)]

(* The loop of readOrWritePiece: one readOrWriteBytes call per file,       *)
(* each of MIN(buflen, file->length - fileOffset) bytes, moving on to the  *)
(* next file at offset 0.                                                  *)
RECURSIVE SplitAcrossFiles(_, _, _)
SplitAcrossFiles(fileIndex, fileOffset, buflen) ==
    IF buflen = 0 THEN <<>>
    ELSE LET bytesThisPass == Min({buflen, FileLengths[fileIndex] - fileOffset})
         IN  << [fileIndex |-> fileIndex, fileOffset |-> fileOffset, bytes |-> bytesThisPass] >>
             \o SplitAcrossFiles(fileIndex + 1, 0, buflen - bytesThisPass)

(* readOrWritePiece: "EINVAL" for a span outside the piece, otherwise the *)
(* sequence of readOrWriteBytes calls.                                     *)
readOrWritePiece(pieceIndex, pieceOffset, buflen) ==
    IF pieceIndex >= info_pieceCount THEN "EINVAL"
    ELSE IF pieceOffset + buflen > tr_torPieceCountBytes(pieceIndex) THEN "EINVAL"
    ELSE LET loc == tr_ioFindFileLocation(pieceIndex, pieceOffset)
         IN  SplitAcrossFiles(loc.fileIndex, loc.fileOffset, buflen)

tr_ioRead(pieceIndex, begin, len) == readOrWritePiece(pieceIndex, begin, len)

(* The entry assertions of readOrWriteBytes for one call. *)
readOrWriteBytesAccepts(call) ==
    /\ call.fileIndex \in Files
    /\ FileLengths[call.fileIndex] = 0 \/ call.fileOffset < FileLengths[call.fileIndex]
    /\ call.fileOffset + call.bytes <= FileLengths[call.fileIndex]

(* recalculateHash: tr_ioRead of MIN(bytesLeft, BufSize) bytes at a time   *)
(* from offset 0, as [offset, len] reads.                                  *)
RECURSIVE HashReads_NoAdvance(_, _)
HashReads_NoAdvance(offset, bytesLeft) ==
    IF bytesLeft = 0 THEN <<>>
    ELSE LET len == Min({bytesLeft, BufSize})
         IN  << [offset |-> offset, len |-> len] >> \o HashReads_NoAdvance(offset, bytesLeft - len)

RECURSIVE HashReads(_, _)
HashReads(offset, bytesLeft) ==
    IF bytesLeft = 0 THEN <<>>
    ELSE LET len == Min({bytesLeft, BufSize})
         IN  << [offset |-> offset, len |-> len] >> \o HashReads(offset + len, bytesLeft - len)

recalculateHash(pieceIndex) == HashReads(0, tr_torPieceCountBytes(pieceIndex))

-----------------------------------------------------------------------------
(* Reference definitions: the bytes a call or a span stands for, as        *)
(* offsets in the torrent, and the file that holds a byte.                 *)
CallBytes(call) ==
    [k \in 1 .. call.bytes |-> FileOffset(call.fileIndex) + call.fileOffset + k - 1]
SpanBytes(pieceIndex, pieceOffset, buflen) ==
    [k \in 1 .. buflen |-> tr_pieceOffset(pieceIndex, pieceOffset, k - 1)]
HoldsByte(i, b) == FileOffset(i) <= b /\ b < FileOffset(i) + FileLengths[i]

tr_ioWrite(pieceIndex, begin, len) == readOrWritePiece(pieceIndex, begin, len)

(* readOrWritePiece accepts a span inside a piece, and the calls its loop  *)
(* makes pass readOrWriteBytes's assertions and touch exactly the span's   *)
(* bytes, in order, each in the file that holds it.                        *)
SpanIOMatchesBytes(plan, pieceIndex, pieceOffset, buflen) ==
    /\ plan /= "EINVAL"
    /\ \A j \in 1 .. Len(plan) : readOrWriteBytesAccepts(plan[j])
    /\ FlattenSeq([j \in 1 .. Len(plan) |-> CallBytes(plan[j])])
           = SpanBytes(pieceIndex, pieceOffset, buflen)
    /\ \A j \in 1 .. Len(plan) :
           \A k \in 1 .. plan[j].bytes : HoldsByte(plan[j].fileIndex, CallBytes(plan[j])[k])

(* recalculateHash's reads of a piece are accepted by tr_ioRead and tile  *)
(* the piece from 0 to its end.                                            *)
HashReadsTile(p) ==
    LET reads == recalculateHash(p)
    IN  /\ \A j \in 1 .. Len(reads) :
               tr_ioRead(p, reads[j].offset, reads[j].len) /= "EINVAL"
        /\ FlattenSeq([j \in 1 .. Len(reads) |->
               [k \in 1 .. reads[j].len |-> reads[j].offset + k - 1]])
               = [k \in 1 .. tr_torPieceCountBytes(p) |-> k - 1]

====
