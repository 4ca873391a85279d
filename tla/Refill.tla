------------------------------- MODULE Refill -------------------------------
(***************************************************************************)
(* The request scheduler of the Transmission peer manager (peer-mgr.c):   *)
(* the per-piece pending request counter, the refill timer, refillPulse    *)
(* with its preferred-piece sort and block iterator, and the events of the *)
(* messages and webseed layers that feed it (NEED_REQ, CANCEL,             *)
(* CLIENT_GOT_BLOCK) together with the peer removals that end a peer's     *)
(* requests.  Every handler runs under the torrent lock, so each action is *)
(* one atomic step.                                                        *)
(*                                                                         *)
(* The answers of tr_peerMsgsAddRequest and tr_webseedAddRequest, and the  *)
(* cancellation of a request by tr_peerMsgsCancel, belong to the messages  *)
(* and webseed layers, whose code is not in the repository: they are       *)
(* modelled from their contract.  A source's outstanding requests are a    *)
(* bag of blocks, since a webseed may be asked for a block twice.          *)
(***************************************************************************)
EXTENDS Integers, FiniteSets, Sequences, SequencesExt, Bags

LOCAL INSTANCE Relation

CONSTANTS
    PeerOrder,              \* the addresses a peer may have, in peerCompare order
    Webseeds,               \* t->webseeds, in tr_ptrArray order
    pieceCount,             \* tor->info.pieceCount
    blockCountInPiece,      \* blocks of every piece but the last
    blockCountInLastPiece,  \* blocks of the last piece
    Priority,               \* piece -> tor->info.pieces[i].priority
    Dnd,                    \* the pieces marked do-not-download
    QueueLen,               \* requests a peer's messages layer holds before FULL
    WebQueueLen,            \* requests a webseed holds before FULL
    MaxEvents,              \* bound on the events of the peers and the network
    MAX_BAD_PIECES_PER_PEER \* strikes that ban a peer

PeerIds == ToSet(PeerOrder)
WebseedIds == ToSet(Webseeds)
Sources == PeerIds \cup WebseedIds
Pieces == 0 .. pieceCount - 1

(* torrent.h: the block layout of a torrent. *)
tr_torPieceFirstBlock(p) == p * blockCountInPiece
tr_torPieceCountBlocks(p) ==
    IF p = pieceCount - 1 THEN blockCountInLastPiece ELSE blockCountInPiece
tr_torBlockPiece(b) == b \div blockCountInPiece
blockCount == tr_torPieceFirstBlock(pieceCount - 1) + blockCountInLastPiece
Blocks == 0 .. blockCount - 1
PieceBlocks(p) ==
    tr_torPieceFirstBlock(p) .. tr_torPieceFirstBlock(p) + tr_torPieceCountBlocks(p) - 1

VARIABLES
    isRunning,          \* t->isRunning
    refillTimer,        \* t->refillTimer /= NULL
    peers,              \* the addresses of t->peers
    have,               \* peer -> the pieces of peer->have
    clientIsChoked,     \* peer -> peer->clientIsChoked
    clientIsInterested, \* peer -> peer->clientIsInterested
    peerIsInterested,   \* peer -> peer->peerIsInterested
    doPurge,            \* the peers whose peer->doPurge is set
    requests,           \* source -> bag of the blocks it has been asked for
    pending,            \* piece -> t->pendingRequestCount[piece]
    complete,           \* the blocks of tor->completion
    eventBudget,        \* events of the peers and the network still allowed
    blame,              \* peer -> the pieces of peer->blame
    strikes,            \* peer -> peer->strikes
    banned              \* the addresses whose atom has MYFLAG_BANNED

blameVars == <<blame, strikes, banned>>

vars == <<isRunning, refillTimer, peers, have, clientIsChoked,
          clientIsInterested, peerIsInterested, doPurge, requests, pending,
          complete, eventBudget, blameVars>>

(* completion.c, by its use here. *)
tr_cpPieceIsComplete(c, p) == PieceBlocks(p) \subseteq c
tr_cpMissingBlocksInPiece(c, p) == Cardinality(PieceBlocks(p) \ c)
(* tr_torrentIsSeed: every wanted piece is complete. *)
tr_torrentIsSeed == \A p \in Pieces \ Dnd : tr_cpPieceIsComplete(complete, p)

clientIsDownloadingFrom(q) == clientIsInterested[q] /\ ~clientIsChoked[q]

Outstanding(s, b) == CopiesIn(b, requests[s])

(***************************************************************************)
(* getPreferredPieces: the wanted, incomplete pieces sorted by             *)
(* compareRefillPiece.  Each piece gets a fresh tr_cryptoWeakRandInt as    *)
(* its last key; the model draws it from as many values as there are       *)
(* pieces in the pool, so two pieces may draw the same one, as in the      *)
(* code, and qsort may then leave them in either order.                    *)
(***************************************************************************)
RefillPiece(p, random) ==
    [priority |-> Priority[p],
     pendingRequestCount |-> pending[p],
     missingBlockCount |-> tr_cpMissingBlocksInPiece(complete, p),
     peerCount |-> Cardinality({q \in peers : peerIsInterested[q]
                                    /\ ~clientIsChoked[q] /\ p \in have[q]}),
     random |-> random]

RandomKeys(pool) == 0 .. Cardinality(pool) - 1

(* The endgame key compared with <= rather than <.                         *)
compareRefillPiece_PendingLe(a, b) ==
    \/ a.priority > b.priority
    \/ /\ a.priority = b.priority
       /\ \/ a.pendingRequestCount <= b.pendingRequestCount
          \/ /\ a.pendingRequestCount = b.pendingRequestCount
             /\ \/ a.missingBlockCount < b.missingBlockCount
                \/ /\ a.missingBlockCount = b.missingBlockCount
                   /\ \/ a.peerCount < b.peerCount
                      \/ /\ a.peerCount = b.peerCount
                         /\ a.random < b.random

compareRefillPiece(a, b) ==   \* a goes strictly before b
    \/ a.priority > b.priority
    \/ /\ a.priority = b.priority
       /\ \/ a.pendingRequestCount < b.pendingRequestCount
          \/ /\ a.pendingRequestCount = b.pendingRequestCount
             /\ \/ a.missingBlockCount < b.missingBlockCount
                \/ /\ a.missingBlockCount = b.missingBlockCount
                   /\ \/ a.peerCount < b.peerCount
                      \/ /\ a.peerCount = b.peerCount
                         /\ a.random < b.random

(* The orders qsort can leave the pool in, over every draw of the keys.    *)
SortedPool(pool) ==
    UNION {{s \in SetToSeqs(pool) :
               IsSorted(s, LAMBDA x, y : ~compareRefillPiece(RefillPiece(y, rnd[y]),
                                                             RefillPiece(x, rnd[x])))} :
              rnd \in [pool -> RandomKeys(pool)]}

getPreferredPieces ==
    SortedPool({p \in Pieces : p \notin Dnd /\ ~tr_cpPieceIsComplete(complete, p)})

(* blockIteratorNext: the incomplete blocks of each piece, piece by piece. *)
IncompleteBlocks(p) == SetToSortSeq(PieceBlocks(p) \ complete, <)
BlockIterator(order) == FlattenSeq([i \in 1 .. Len(order) |-> IncompleteBlocks(order[i])])

(* getPeersUploadingToClient: t->peers from a random fencepost on, keeping *)
(* the peers the client is downloading from.                               *)
getPeersUploadingToClient ==
    LET base == SelectSeq(PeerOrder, LAMBDA q : q \in peers)
        n == Len(base)
        Rotated(f) == [i \in 1 .. n |-> base[((f + i - 1) % n) + 1]]
    IN  IF n = 0 THEN {<<>>}
        ELSE {SelectSeq(Rotated(f), clientIsDownloadingFrom) : f \in 0 .. n - 1}

(***************************************************************************)
(* tr_peerMsgsAddRequest and tr_webseedAddRequest, from the contract of    *)
(* the messages and webseed layers.                                        *)
(***************************************************************************)
tr_peerMsgsAddRequest(req, q, b) ==
    CASE clientIsChoked[q]                      -> "CLIENT_CHOKED"
      [] tr_torBlockPiece(b) \notin have[q]     -> "MISSING"
      [] BagCardinality(req[q]) >= QueueLen     -> "FULL"
      [] BagIn(b, req[q])                       -> "DUPLICATE"
      [] OTHER                                  -> "OK"

tr_webseedAddRequest(req, w) ==
    IF BagCardinality(req[w]) >= WebQueueLen THEN "FULL" ELSE "OK"

(***************************************************************************)
(* The assignment loop of refillPulse.  A pass state st carries the       *)
(* requests and pending counts built so far and the candidate peers and   *)
(* webseeds left; FULL and CLIENT_CHOKED drop a candidate by moving the    *)
(* last one into its slot (peers[j] = peers[--peerCount]).                 *)
(***************************************************************************)
DropCandidate(s, j) == SubSeq([s EXCEPT ![j] = s[Len(s)]], 1, Len(s) - 1)

incrementPieceRequests(st, src, b) ==
    [st EXCEPT !.req[src] = @ (+) SetToBag({b}),
               !.pend[tr_torBlockPiece(b)] = @ + 1,
               !.handled = TRUE]

RECURSIVE AskPeers(_, _, _)
AskPeers(st, b, j) ==
    IF st.handled \/ j > Len(st.ps) THEN st
    ELSE LET val == tr_peerMsgsAddRequest(st.req, st.ps[j], b)
         IN  CASE val \in {"FULL", "CLIENT_CHOKED"} ->
                    AskPeers([st EXCEPT !.ps = DropCandidate(@, j)], b, j)
               [] val \in {"MISSING", "DUPLICATE"} -> AskPeers(st, b, j + 1)
               [] OTHER -> incrementPieceRequests(st, st.ps[j], b)

RECURSIVE AskWebseeds_NoIncrement(_, _, _)
AskWebseeds_NoIncrement(st, b, j) ==
    IF st.handled \/ j > Len(st.ws) THEN st
    ELSE IF tr_webseedAddRequest(st.req, st.ws[j]) = "FULL"
         THEN AskWebseeds_NoIncrement([st EXCEPT !.ws = DropCandidate(@, j)], b, j)
         ELSE [st EXCEPT !.req[st.ws[j]] = @ (+) SetToBag({b}), !.handled = TRUE]

RECURSIVE AskWebseeds(_, _, _)
AskWebseeds(st, b, j) ==
    IF st.handled \/ j > Len(st.ws) THEN st
    ELSE IF tr_webseedAddRequest(st.req, st.ws[j]) = "FULL"
         THEN AskWebseeds([st EXCEPT !.ws = DropCandidate(@, j)], b, j)
         ELSE incrementPieceRequests(st, st.ws[j], b)

RECURSIVE AssignBlocks(_, _, _)
AssignBlocks(st, blocks, i) ==
    IF (Len(st.ws) > 0 \/ Len(st.ps) > 0) /\ i <= Len(blocks)
    THEN AssignBlocks(AskWebseeds(AskPeers([st EXCEPT !.handled = FALSE], blocks[i], 1),
                                  blocks[i], 1),
                      blocks, i + 1)
    ELSE st

(***************************************************************************)
(* refillPulse: while stopped or seeding it returns TRUE and changes       *)
(* nothing; otherwise it runs one pass over any piece order and fencepost  *)
(* the random numbers can give, and clears t->refillTimer.                 *)
(***************************************************************************)
RefillPulse ==
    /\ refillTimer
    /\ isRunning
    /\ ~tr_torrentIsSeed
    /\ \E order \in getPreferredPieces, ps \in getPeersUploadingToClient :
          LET st == AssignBlocks([req |-> requests, pend |-> pending, ps |-> ps,
                                  ws |-> Webseeds, handled |-> FALSE],
                                 BlockIterator(order), 1)
          IN  /\ requests' = st.req
              /\ pending' = st.pend
    /\ refillTimer' = FALSE
    /\ UNCHANGED <<blameVars, isRunning, peers, have, clientIsChoked, clientIsInterested,
                   peerIsInterested, doPurge, complete, eventBudget>>

(***************************************************************************)
(* broadcastGotBlock: tr_peerMsgsCancel on every connected peer.  A peer   *)
(* that had the block outstanding drops it and fires TR_PEER_CANCEL, whose *)
(* handler decrements the piece's count; for the others it is a no-op.    *)
(* The webseeds are not told.                                              *)
(***************************************************************************)
broadcastGotBlock_SkipsChoked(req, b) ==
    {q \in peers : BagIn(b, req[q]) /\ ~clientIsChoked[q]}

broadcastGotBlock(req, b) == {q \in peers : BagIn(b, req[q])}

Init ==
    /\ isRunning = FALSE
    /\ refillTimer = FALSE
    /\ peers = {}
    /\ have = [q \in PeerIds |-> {}]
    /\ clientIsChoked = [q \in PeerIds |-> TRUE]
    /\ clientIsInterested = [q \in PeerIds |-> FALSE]
    /\ peerIsInterested = [q \in PeerIds |-> FALSE]
    /\ doPurge = {}
    /\ requests = [s \in Sources |-> EmptyBag]
    /\ pending = [p \in Pieces |-> 0]
    /\ complete = {}
    /\ eventBudget = MaxEvents
    /\ blame = [q \in PeerIds |-> {}]
    /\ strikes = [q \in PeerIds |-> 0]
    /\ banned = {}

PeerFlags == <<have, clientIsChoked, clientIsInterested, peerIsInterested>>

(* tr_peerMgrStartTorrent: arms the refill timer when there are webseeds. *)
StartTorrent ==
    /\ ~isRunning
    /\ isRunning' = TRUE
    /\ refillTimer' = (refillTimer \/ Len(Webseeds) > 0)
    /\ UNCHANGED <<blameVars, peers, PeerFlags, doPurge, requests, pending, complete, eventBudget>>

(* stopTorrent: the peers are destroyed with their messages layers, after  *)
(* unsubscribing, so their outstanding requests vanish without a CANCEL.   *)
(* The webseeds and the refill timer are left alone.                       *)
StopTorrent ==
    /\ isRunning
    /\ isRunning' = FALSE
    /\ peers' = {}
    /\ doPurge' = {}
    /\ requests' = [s \in Sources |-> IF s \in PeerIds THEN EmptyBag ELSE requests[s]]
    /\ UNCHANGED <<blameVars, refillTimer, PeerFlags, pending, complete, eventBudget>>

(* getPeer on a successful handshake of an address whose atom is not      *)
(* banned: a new peer (peerConstructor zeroes it: no strikes, no blame),   *)
(* choked and uninterested until its messages layer says otherwise.        *)
AddPeer(q) ==
    /\ isRunning /\ q \notin peers /\ q \notin banned /\ eventBudget > 0
    /\ blame' = [blame EXCEPT ![q] = {}]
    /\ strikes' = [strikes EXCEPT ![q] = 0]
    /\ UNCHANGED banned
    /\ peers' = peers \cup {q}
    /\ have' = [have EXCEPT ![q] = {}]
    /\ clientIsChoked' = [clientIsChoked EXCEPT ![q] = TRUE]
    /\ clientIsInterested' = [clientIsInterested EXCEPT ![q] = FALSE]
    /\ peerIsInterested' = [peerIsInterested EXCEPT ![q] = FALSE]
    /\ requests' = [requests EXCEPT ![q] = EmptyBag]
    /\ eventBudget' = eventBudget - 1
    /\ UNCHANGED <<isRunning, refillTimer, doPurge, pending, complete>>

(* removePeer, from the reconnect pulse: peerDestructor frees the messages *)
(* layer after unsubscribing, and its requests vanish without a CANCEL.    *)
RemovePeer_KeepsPurge(q) ==
    /\ q \in peers
    /\ peers' = peers \ {q}
    /\ requests' = [requests EXCEPT ![q] = EmptyBag]
    /\ UNCHANGED <<blameVars, isRunning, refillTimer, PeerFlags, doPurge, pending, complete, eventBudget>>

RemovePeer(q) ==
    /\ q \in peers
    /\ peers' = peers \ {q}
    /\ doPurge' = doPurge \ {q}
    /\ requests' = [requests EXCEPT ![q] = EmptyBag]
    /\ UNCHANGED <<blameVars, isRunning, refillTimer, PeerFlags, pending, complete, eventBudget>>

(* What the messages layer learns from the wire: a HAVE, a CHOKE or        *)
(* UNCHOKE, and the interest of either side.                               *)
PeerHave(q, p) ==
    /\ q \in peers /\ p \notin have[q] /\ eventBudget > 0
    /\ have' = [have EXCEPT ![q] = @ \cup {p}]
    /\ eventBudget' = eventBudget - 1
    /\ UNCHANGED <<blameVars, isRunning, refillTimer, peers, clientIsChoked, clientIsInterested,
                   peerIsInterested, doPurge, requests, pending, complete>>

PeerFlagsChange(q) ==
    /\ q \in peers /\ eventBudget > 0
    /\ \/ clientIsChoked' = [clientIsChoked EXCEPT ![q] = ~@]
          /\ UNCHANGED <<clientIsInterested, peerIsInterested>>
       \/ clientIsInterested' = [clientIsInterested EXCEPT ![q] = ~@]
          /\ UNCHANGED <<clientIsChoked, peerIsInterested>>
       \/ peerIsInterested' = [peerIsInterested EXCEPT ![q] = ~@]
          /\ UNCHANGED <<clientIsChoked, clientIsInterested>>
    /\ eventBudget' = eventBudget - 1
    /\ UNCHANGED <<blameVars, isRunning, refillTimer, peers, have, doPurge, requests, pending, complete>>

(* A source that can fire events: a connected peer or any webseed. *)
Live(s) == s \in peers \/ s \in WebseedIds

(* TR_PEER_NEED_REQ: refillSoon arms the one-shot timer if none is armed. *)
NeedRequests(s) ==
    /\ Live(s) /\ ~refillTimer
    /\ refillTimer' = TRUE
    /\ UNCHANGED <<blameVars, isRunning, peers, PeerFlags, doPurge, requests, pending, complete, eventBudget>>

(* TR_PEER_CANCEL: the source dropped an outstanding request (rejected,    *)
(* timed out or choked); decrementPieceRequests.                           *)
CancelRequest(s, b) ==
    /\ Live(s) /\ BagIn(b, requests[s])
    /\ requests' = [requests EXCEPT ![s] = @ (-) SetToBag({b})]
    /\ pending' = [pending EXCEPT ![tr_torBlockPiece(b)] = @ - 1]
    /\ UNCHANGED <<blameVars, isRunning, refillTimer, peers, PeerFlags, doPurge, complete, eventBudget>>

(***************************************************************************)
(* addStrike on the peers in struck: ++peer->strikes, and a peer reaching  *)
(* MAX_BAD_PIECES_PER_PEER gets its atom banned and doPurge set.  The      *)
(* strikes of a peer are bounded by the guard that none of the struck is   *)
(* already at the limit (a count past it changes nothing).                 *)
(***************************************************************************)
StrikeBound(struck) == \A q \in struck : strikes[q] < MAX_BAD_PIECES_PER_PEER
Banning(struck) == {q \in struck : strikes[q] + 1 >= MAX_BAD_PIECES_PER_PEER}
addStrike(struck) ==
    /\ strikes' = [q \in PeerIds |-> IF q \in struck THEN strikes[q] + 1 ELSE strikes[q]]
    /\ banned' = banned \cup Banning(struck)

(* TR_PEER_ERROR with ERANGE, EMSGSIZE or ENOTCONN: doPurge = 1. *)
PeerError(q) ==
    /\ q \in peers /\ q \notin doPurge
    /\ doPurge' = doPurge \cup {q}
    /\ UNCHANGED <<isRunning, refillTimer, peers, PeerFlags, requests, pending, complete,
                   eventBudget, blameVars>>

(* TR_PEER_ERROR with EINVAL: addStrike, then doPurge = 1. *)
PeerErrorInvalid(q) ==
    /\ q \in peers /\ StrikeBound({q}) /\ eventBudget > 0
    /\ addStrike({q})
    /\ doPurge' = doPurge \cup {q}
    /\ eventBudget' = eventBudget - 1
    /\ UNCHANGED <<isRunning, refillTimer, peers, PeerFlags, requests, pending, complete, blame>>

(***************************************************************************)
(* TR_PEER_CLIENT_GOT_BLOCK: the source delivered a block it was asked    *)
(* for.  A peer's messages layer sets the piece in peer->blame before it   *)
(* fires the event (a webseed has no blame bitfield).  tr_cpBlockAdd,      *)
(* decrementPieceRequests, broadcastGotBlock; then, if the piece is        *)
(* complete, tr_ioTestPiece decides ok, tr_torrentSetHasPiece(ok) keeps    *)
(* the piece or clears its blocks, and tr_peerMgrSetBlame(ok) strikes,     *)
(* on a failure, every peer of t->peers with the piece in its blame.       *)
(* Blame is never cleared, on success or failure.  gotBadPiece's byte     *)
(* counters are not modelled.                                              *)
(***************************************************************************)
GotBlock(s, b) ==
    /\ Live(s) /\ BagIn(b, requests[s])
    /\ LET p == tr_torBlockPiece(b)
           blame1 == IF s \in peers THEN [blame EXCEPT ![s] = @ \cup {p}] ELSE blame
           req1 == [requests EXCEPT ![s] = @ (-) SetToBag({b})]
           cancelled == broadcastGotBlock(req1, b)
           c1 == complete \cup {b}
           blamed == {q \in peers : p \in blame1[q]}
       IN  /\ blame' = blame1
           /\ requests' = [x \in Sources |->
                               IF x \in cancelled THEN req1[x] (-) SetToBag({b}) ELSE req1[x]]
           /\ pending' = [pending EXCEPT ![p] = @ - 1 - Cardinality(cancelled)]
           /\ IF tr_cpPieceIsComplete(c1, p)
              THEN \/ /\ complete' = c1
                      /\ UNCHANGED <<strikes, banned, doPurge>>
                   \/ /\ complete' = c1 \ PieceBlocks(p)
                      /\ StrikeBound(blamed)
                      /\ addStrike(blamed)
                      /\ doPurge' = doPurge \cup Banning(blamed)
              ELSE /\ complete' = c1
                   /\ UNCHANGED <<strikes, banned, doPurge>>
    /\ UNCHANGED <<isRunning, refillTimer, peers, PeerFlags, eventBudget>>

Next ==
    \/ StartTorrent
    \/ StopTorrent
    \/ RefillPulse
    \/ \E q \in PeerIds :
          AddPeer(q) \/ RemovePeer(q) \/ PeerFlagsChange(q) \/ PeerError(q)
          \/ PeerErrorInvalid(q)
          \/ \E p \in Pieces : PeerHave(q, p)
    \/ \E s \in Sources :
          NeedRequests(s) \/ \E b \in Blocks : CancelRequest(s, b) \/ GotBlock(s, b)

Spec == Init /\ [][Next]_vars

(***************************************************************************)
(* tr_peerMgrTorrentAvailability, the accessor behind the progress bar of *)
(* tabCount cells: cell i samples piece i * (pieceCount / tabCount), is -1 *)
(* when that piece is complete or the torrent is TR_CP_COMPLETE, and       *)
(* otherwise counts the peers of t->peers whose have bitfield holds bit i. *)
(* The float division is exact for the tabCounts used (powers of two), so *)
(* the sampled piece is the integer quotient.                              *)
(***************************************************************************)
tr_peerMgrTorrentAvailability(tabCount) ==
    LET isSeed == \A p \in Pieces : tr_cpPieceIsComplete(complete, p)
        piece(i) == (i * pieceCount) \div tabCount
    IN  [i \in 0 .. tabCount - 1 |->
           IF isSeed \/ tr_cpPieceIsComplete(complete, piece(i)) THEN -1
           ELSE Cardinality({q \in peers : i \in have[q]})]

-----------------------------------------------------------------------------
TypeOK ==
    /\ isRunning \in BOOLEAN /\ refillTimer \in BOOLEAN
    /\ peers \subseteq PeerIds /\ doPurge \subseteq peers
    /\ have \in [PeerIds -> SUBSET Pieces]
    /\ clientIsChoked \in [PeerIds -> BOOLEAN]
    /\ clientIsInterested \in [PeerIds -> BOOLEAN]
    /\ peerIsInterested \in [PeerIds -> BOOLEAN]
    /\ \A s \in Sources : IsABag(requests[s]) /\ BagToSet(requests[s]) \subseteq Blocks
    /\ pending \in [Pieces -> Int]
    /\ complete \subseteq Blocks
    /\ eventBudget \in 0 .. MaxEvents
    /\ blame \in [PeerIds -> SUBSET Pieces]
    /\ strikes \in [PeerIds -> 0 .. MAX_BAD_PIECES_PER_PEER]
    /\ banned \subseteq PeerIds

OutstandingInPiece(p) ==
    MapThenSumSet(LAMBDA s : MapThenSumSet(LAMBDA b : Outstanding(s, b), PieceBlocks(p)),
                  Sources)

(* qsort needs compareRefillPiece to be a consistent order: over the keys  *)
(* getPreferredPieces builds for the pool, with every draw of the random   *)
(* key, the comparator is irreflexive, transitive and orders any two       *)
(* pieces whose keys differ in any field, the random one included.  Were   *)
(* it not, qsort's result would be unspecified and the pieces with equal   *)
(* priority, pending count, missing count and peer count would not get     *)
(* the random tie-break the code means them to have.                      *)
RefillOrderIsStrictTotal ==
    LET pool == {p \in Pieces : p \notin Dnd /\ ~tr_cpPieceIsComplete(complete, p)}
    IN  IsStrictlyTotallyOrderedUnder(compareRefillPiece,
            {RefillPiece(p, r) : p \in pool, r \in RandomKeys(pool)})

(* The pending count of a piece never falls below the requests the peers   *)
(* and webseeds hold for it: every accepted request was counted by         *)
(* refillPulse, and GOT_BLOCK and CANCEL take back one count per request.  *)
(* Were it to fall below, the endgame key of compareRefillPiece would      *)
(* under-rate a piece, and the count could go negative.                    *)
PendingCoversRequests == \A p \in Pieces : pending[p] >= OutstandingInPiece(p)

(* The spec's pending count invariant (section 4.3): the count of a piece  *)
(* equals the requests outstanding in it.                                  *)
PendingMatchesRequests == \A p \in Pieces : pending[p] = OutstandingInPiece(p)

(* Once a block is in tor->completion no connected peer still has it       *)
(* outstanding: refillPulse never asks for a complete block, and           *)
(* broadcastGotBlock cancels it at every peer when it arrives.             *)
CompleteBlocksNotRequestedFromPeers ==
    \A q \in peers, b \in complete : ~BagIn(b, requests[q])

====
