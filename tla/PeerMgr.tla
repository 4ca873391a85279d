------------------------------ MODULE PeerMgr ------------------------------
(***************************************************************************)
(* The peer manager of one torrent (src/bench/transmission/peer-mgr.c):   *)
(* its pool of peer atoms, the manager-wide incoming handshakes, the      *)
(* torrent's outgoing handshakes, the live peers, the three per-torrent   *)
(* timers, the optimistic-unchoke pointer and the process-global          *)
(* reconnect throttle.  Every step is one entry point run under the       *)
(* manager's global lock, so steps are atomic.                            *)
(*                                                                         *)
(* Abstracted: request scheduling and piece verification (modules         *)
(* Refill and Integrity), bandwidth measurement (a rate is an input of    *)
(* the rechoke), the wire protocol (its events are inputs), byte counts   *)
(* and every log or statistic.                                            *)
(***************************************************************************)
EXTENDS Integers, FiniteSets, Sequences, SequencesExt

CONSTANTS
    Addrs,              \* IPv4 addresses of remote peers (model values)
    Blocked,            \* addresses on the session's blocklist
    PexFroms,           \* provenance tags an added peer can carry (TR_PEER_FROM_*)
    MaxConnectedPeers,  \* tor->maxConnectedPeers
    HasWebseeds,        \* tor->info.webseedCount > 0
    AllowsPex,          \* tr_torrentAllowsPex( tor )
    MAX_RECONNECTIONS_PER_PULSE,
    MAX_CONNECTIONS_PER_SECOND,
    MAX_UNCHOKED_PEERS,
    MAX_BAD_PIECES_PER_PEER,
    MIN_UPLOAD_IDLE_SECS,
    MAX_UPLOAD_IDLE_SECS,
    MINIMUM_RECONNECT_INTERVAL_SECS,
    SeedPexWaitSecs,    \* the literal 30 of shouldPeerBeClosed
    ReconnectBackoff,   \* numFails (0..6, 6 meaning ">= 6") -> seconds
    Rates,              \* upload rates a rechoke may measure
    Epoch,              \* time( NULL ) when the model starts
    MaxTime,            \* bound: the clock does not pass it
    MaxIncoming,        \* bound: incoming connections over a behaviour
    MaxPeerEvents,      \* bound: events the peers' message layers deliver
    MaxStarts,          \* bound: tr_peerMgrStartTorrent calls over a behaviour
    MaxRemoves,         \* bound: tr_peerMgrRemoveTorrent calls over a behaviour
    None

ASSUME Blocked \subseteq Addrs
ASSUME PexFroms \subseteq 0..3
ASSUME MaxConnectedPeers \in Nat
\* time(NULL) is far from 0, so "piece_data_time = 0" means "never"
ASSUME Epoch > 2 * MINIMUM_RECONNECT_INTERVAL_SECS /\ MaxTime >= Epoch
ASSUME ReconnectBackoff \in [0..6 -> Nat]

TR_PEER_FROM_INCOMING == 0

VARIABLES
    torrentExists,      \* getExistingTorrent( manager, hash ) != NULL
    isRunning,          \* t->isRunning
    reconnectTimer,     \* t->reconnectTimer != NULL
    rechokeTimer,       \* t->rechokeTimer != NULL
    refillTimer,        \* t->refillTimer != NULL
    isSeed,             \* tr_torrentIsSeed( t->tor )
    torError,           \* t->tor->error was set by a local error
    pool,               \* t->pool: address -> peer_atom
    peers,              \* t->peers: address -> tr_peer
    outgoingHandshakes, \* t->outgoingHandshakes, by address
    incomingHandshakes, \* manager->incomingHandshakes, by address
    finishedHandshakes, \* manager->finishedHandshakes, awaiting the bandwidth pulse
    optimistic,         \* t->optimistic: an address or None
    now,                \* time( NULL )
    prevTime,           \* reconnectPulse's static prevTime
    newConnectionsThisSecond, \* reconnectPulse's static counter
    incomingBudget,     \* incoming connections the environment may still open
    eventBudget,        \* peer events the environment may still deliver
    startBudget,        \* starts the user may still issue
    removeBudget        \* removals the user may still issue

vars == << torrentExists, removeBudget,
           isRunning, reconnectTimer, rechokeTimer, refillTimer, isSeed,
           torError, pool, peers, outgoingHandshakes, incomingHandshakes,
           finishedHandshakes, optimistic, now, prevTime,
           newConnectionsThisSecond, incomingBudget, eventBudget,
           startBudget >>

UploadOnly == {"unknown", "yes", "no"}

Atom == [from : 0..3, seed : BOOLEAN, uploadOnly : UploadOnly,
         banned : BOOLEAN, unreachable : BOOLEAN, numFails : Nat,
         time : 0..MaxTime, pdt : 0..MaxTime]

Peer == [doPurge : BOOLEAN, strikes : 0..MAX_BAD_PIECES_PER_PEER,
         seed : BOOLEAN, interested : BOOLEAN, choked : BOOLEAN]

-----------------------------------------------------------------------------
(* Lookups: getExistingPeer, peerIsInUse, getPeerCount.                    *)

Live == DOMAIN peers

peerIsInUse(a) ==
    a \in Live \/ a \in outgoingHandshakes \/ a \in incomingHandshakes

getPeerCount(ps, out) == Cardinality(DOMAIN ps) + Cardinality(out)

(* ensureAtomExists: a new atom, or the old one untouched.                 *)
ensureAtomExists(p, a, seedFlag, from) ==
    IF a \in DOMAIN p THEN p
    ELSE (a :> [from |-> from, seed |-> seedFlag, uploadOnly |-> "unknown",
                banned |-> FALSE, unreachable |-> FALSE, numFails |-> 0,
                time |-> 0, pdt |-> 0]) @@ p

(* addStrike: the peer's strike count, and on reaching the limit the ban   *)
(* of its atom and the purge of the peer.                                  *)
StrikeAtoms(p, struck, ps) ==
    [a \in DOMAIN p |->
        IF a \in struck /\ ps[a].strikes + 1 >= MAX_BAD_PIECES_PER_PEER
        THEN [p[a] EXCEPT !.banned = TRUE] ELSE p[a]]

addStrike(ps, struck) ==
    [a \in DOMAIN ps |->
        IF a \in struck
        THEN [ps[a] EXCEPT !.strikes = @ + 1,
                           !.doPurge = @ \/ ps[a].strikes + 1 >= MAX_BAD_PIECES_PER_PEER]
        ELSE ps[a]]

-----------------------------------------------------------------------------
(* getReconnectIntervalSecs and getPeerCandidates.                         *)

getReconnectIntervalSecs(at, t) ==
    IF t - at.pdt <= MINIMUM_RECONNECT_INTERVAL_SECS * 2
        THEN MINIMUM_RECONNECT_INTERVAL_SECS
    ELSE IF t - at.time < MINIMUM_RECONNECT_INTERVAL_SECS
        THEN MINIMUM_RECONNECT_INTERVAL_SECS
    ELSE ReconnectBackoff[IF at.numFails >= 6 THEN 6 ELSE at.numFails]

getPeerCandidates ==
    { a \in DOMAIN pool :
        /\ ~pool[a].banned
        /\ ~pool[a].unreachable
        /\ ~peerIsInUse(a)
        /\ ~(isSeed /\ (pool[a].seed \/ pool[a].uploadOnly = "yes"))
        /\ now - pool[a].time >= getReconnectIntervalSecs(pool[a], now)
        /\ a \notin Blocked }

(* compareCandidates: x goes strictly before y.                            *)
CandidateBefore(x, y) ==
    \/ x.pdt > y.pdt
    \/ x.pdt = y.pdt /\ x.numFails < y.numFails
    \/ x.pdt = y.pdt /\ x.numFails = y.numFails /\ x.time < y.time
    \/ x.pdt = y.pdt /\ x.numFails = y.numFails /\ x.time = y.time
       /\ x.from < y.from

(* Every order qsort (not stable) may leave the candidates in.             *)
SortedCandidates(C) ==
    { s \in SetToSeqs(C) :
        IsSorted(s, LAMBDA a, b : ~CandidateBefore(pool[b], pool[a])) }

-----------------------------------------------------------------------------
(* shouldPeerBeClosed.  `covers' is the set of live non-seed peers whose   *)
(* have-bitfield covers our pieces (the bitfield difference of the code).  *)

(* The idle limit for a maximum peer count `max' and the bounds lo, hi:   *)
(* hi - (hi - lo) * strictness truncated to an int, with strictness        *)
(* peerCount / relaxStrictnessIfFewerThanN below that count and 1 above.   *)
(* Exact arithmetic: the float rounding moves the result by at most one    *)
(* second, and every rounding step is monotone (see README).               *)
\* Mutation: the (float) cast forgotten, so strictness is an integer
\* division, 0 below relaxStrictnessIfFewerThanN.
IdleLimitFor_IntStrictness(max, lo, hi, peerCount) ==
    LET relax == (max * 9 + 5) \div 10
    IN  IF peerCount >= relax THEN lo
        ELSE hi - (hi - lo) * (peerCount \div relax)

IdleLimitFor(max, lo, hi, peerCount) ==
    LET relax == (max * 9 + 5) \div 10   \* (int)(max*0.9+0.5)
    IN  IF peerCount >= relax THEN lo
        ELSE hi - ((hi - lo) * peerCount + relax - 1) \div relax

IdleLimit(peerCount) ==
    IdleLimitFor(MaxConnectedPeers, MIN_UPLOAD_IDLE_SECS, MAX_UPLOAD_IDLE_SECS, peerCount)

\* Mutation: the doPurge test forgotten.
shouldPeerBeClosed_IgnoresPurge(a, peerCount, covers) ==
    LET at == pool[a]
        peerHasEverything == at.seed \/ a \in covers
        idleTime == now - (IF at.time >= at.pdt THEN at.time ELSE at.pdt)
    IN  \/ isSeed /\ peerHasEverything
                  /\ (~AllowsPex \/ now - at.time >= SeedPexWaitSecs)
        \/ idleTime > IdleLimit(peerCount)

shouldPeerBeClosed(a, peerCount, covers) ==
    LET at == pool[a]
        peerHasEverything == at.seed \/ a \in covers
        idleTime == now - (IF at.time >= at.pdt THEN at.time ELSE at.pdt)
    IN  \/ peers[a].doPurge
        \/ isSeed /\ peerHasEverything
                  /\ (~AllowsPex \/ now - at.time >= SeedPexWaitSecs)
        \/ idleTime > IdleLimit(peerCount)

(* getPeersToClose: the live peers shouldPeerBeClosed picks, each judged  *)
(* against the count of all live peers.                                    *)
getPeersToClose(covers) ==
    {a \in Live : shouldPeerBeClosed(a, Cardinality(Live), covers)}

(* The number of iterations of reconnectPulse's dialing loop, given the    *)
(* candidates in sorted order and the set F of those the I/O layer         *)
(* refuses (tr_peerIoNewOutgoing returns NULL).                            *)
\* Mutations of the dialing loop's condition: the per-second throttle
\* dropped, and the per-torrent cap tested with <=.
RECURSIVE DialCount_NoRateCap(_, _, _, _, _)
DialCount_NoRateCap(order, F, i, count, conn) ==
    IF i <= Len(order) /\ i <= MAX_RECONNECTIONS_PER_PULSE
       /\ count < MaxConnectedPeers
    THEN IF order[i] \in F THEN DialCount_NoRateCap(order, F, i + 1, count, conn)
         ELSE DialCount_NoRateCap(order, F, i + 1, count + 1, conn + 1)
    ELSE i - 1

RECURSIVE DialCount_CapOffByOne(_, _, _, _, _)
DialCount_CapOffByOne(order, F, i, count, conn) ==
    IF i <= Len(order) /\ i <= MAX_RECONNECTIONS_PER_PULSE
       /\ count <= MaxConnectedPeers /\ conn < MAX_CONNECTIONS_PER_SECOND
    THEN IF order[i] \in F THEN DialCount_CapOffByOne(order, F, i + 1, count, conn)
         ELSE DialCount_CapOffByOne(order, F, i + 1, count + 1, conn + 1)
    ELSE i - 1

RECURSIVE DialCount(_, _, _, _, _)
DialCount(order, F, i, count, conn) ==
    IF /\ i <= Len(order)
       /\ i <= MAX_RECONNECTIONS_PER_PULSE
       /\ count < MaxConnectedPeers
       /\ conn < MAX_CONNECTIONS_PER_SECOND
    THEN IF order[i] \in F THEN DialCount(order, F, i + 1, count, conn)
         ELSE DialCount(order, F, i + 1, count + 1, conn + 1)
    ELSE i - 1

(* reconnectPulse of a running torrent, for the peers `covers' whose      *)
(* bitfields cover ours, the candidates in qsort order `order' and the set *)
(* F of candidates the I/O layer refuses.  The candidates are collected    *)
(* before any peer is closed.                                              *)
ReconnectOutcome(covers, order, F, conn0) ==
    LET bad == getPeersToClose(covers)
        pool1 == [a \in DOMAIN pool |->
                    IF a \in bad
                    THEN [pool[a] EXCEPT
                            !.numFails = IF pool[a].pdt /= 0 THEN 0 ELSE @ + 1,
                            !.time = now]
                    ELSE pool[a]]
        kept == Live \ bad
        k == DialCount(order, F, 1,
                       Cardinality(kept) + Cardinality(outgoingHandshakes), conn0)
        tried == {order[j] : j \in 1..k}
        opened == tried \ F
    IN [pool |-> [a \in DOMAIN pool1 |->
                    IF a \in tried
                    THEN [pool1[a] EXCEPT !.unreachable = @ \/ a \in F, !.time = now]
                    ELSE pool1[a]],
        peers |-> [a \in kept |-> peers[a]],
        out |-> outgoingHandshakes \cup opened,
        conn |-> conn0 + Cardinality(opened)]

(* reconnectPulse: every state it can leave behind.  The (unreachable)     *)
(* branch for a torrent that is not running closes every peer.             *)
ReconnectOutcomes(running) ==
    LET conn0 == IF prevTime /= now THEN 0 ELSE newConnectionsThisSecond
        cands == getPeerCandidates
    IN IF ~running
       THEN {[pool |-> [a \in DOMAIN pool |->
                          IF a \in Live THEN [pool[a] EXCEPT !.time = now]
                          ELSE pool[a]],
              peers |-> <<>>, out |-> outgoingHandshakes, conn |-> conn0]}
       ELSE {ReconnectOutcome(covers, order, F, conn0) :
               covers \in (IF isSeed THEN SUBSET Live ELSE {{}}),
               order \in SortedCandidates(cands),
               F \in SUBSET cands}

-----------------------------------------------------------------------------
(* rechoke: every outcome for every measured rate, qsort order and draw    *)
(* of the optimistic peer.  The weights of the draw (isNew, isSame) only   *)
(* change its probabilities, never the set of possible outcomes.           *)

ChokeBefore(ps, rate, x, y) ==
    \/ rate[x] > rate[y]
    \/ rate[x] = rate[y] /\ ~ps[x].choked /\ ps[y].choked

(* The cap test with <= rather than <.                                     *)
RECURSIVE UnchokeCount_Le(_, _, _, _)
UnchokeCount_Le(ps, order, i, unchokedInterested) ==
    IF i <= Len(order) /\ unchokedInterested <= MAX_UNCHOKED_PEERS
    THEN UnchokeCount_Le(ps, order, i + 1,
                      unchokedInterested + (IF ps[order[i]].interested THEN 1 ELSE 0))
    ELSE i - 1

RECURSIVE UnchokeCount(_, _, _, _)
UnchokeCount(ps, order, i, unchokedInterested) ==
    IF i <= Len(order) /\ unchokedInterested < MAX_UNCHOKED_PEERS
    THEN UnchokeCount(ps, order, i + 1,
                      unchokedInterested + (IF ps[order[i]].interested THEN 1 ELSE 0))
    ELSE i - 1

RechokeOutcomes(ps, p, opt) ==
    UNION { UNION { UNION {
      LET size == Len(order)
          k == UnchokeCount(ps, order, 1, 0)
          randPool == {order[j] : j \in k + 1 .. size} \cap
                      {a \in DOMAIN ps : ps[a].interested}
          draws == IF k < size /\ randPool /= {} THEN randPool ELSE {None}
      IN { [peers |-> [a \in DOMAIN ps |->
                         [ps[a] EXCEPT !.choked =
                              ~(a \in {order[j] : j \in 1..k} \/ a = o)]],
            optimistic |-> IF o = None THEN opt ELSE o]
           : o \in draws }
      : order \in { s \in SetToSeqs(DOMAIN rate) :
                      IsSorted(s, LAMBDA x, y : ~ChokeBefore(ps, rate, y, x)) } }
      : rate \in [{a \in DOMAIN ps :
                    ~ps[a].seed /\ p[a].uploadOnly /= "yes" /\ ~chokeAll} -> Rates] }
      : chokeAll \in BOOLEAN }

-----------------------------------------------------------------------------
Init ==
    /\ torrentExists = TRUE
    /\ removeBudget = MaxRemoves
    /\ isRunning = FALSE
    /\ reconnectTimer = FALSE
    /\ rechokeTimer = FALSE
    /\ refillTimer = FALSE
    /\ isSeed \in BOOLEAN
    /\ torError = FALSE
    /\ pool = <<>>
    /\ peers = <<>>
    /\ outgoingHandshakes = {}
    /\ incomingHandshakes = {}
    /\ finishedHandshakes = 0
    /\ optimistic = None
    /\ now = Epoch
    /\ prevTime = 0
    /\ newConnectionsThisSecond = 0
    /\ incomingBudget = MaxIncoming
    /\ eventBudget = MaxPeerEvents
    /\ startBudget = MaxStarts

(* stopTorrent: the peers are destroyed without touching their atoms, and  *)
(* each outgoing handshake is aborted, which runs myHandshakeDoneCB with   *)
(* isConnected = 0: one more failure on its atom and a deferred free.      *)
stopConnections ==
    /\ isRunning' = FALSE
    /\ rechokeTimer' = FALSE
    /\ reconnectTimer' = FALSE
    /\ peers' = <<>>
    /\ finishedHandshakes' = finishedHandshakes + Cardinality(outgoingHandshakes)
    /\ outgoingHandshakes' = {}

stopTorrent ==
    /\ stopConnections
    /\ pool' = [a \in DOMAIN pool |->
                  IF a \in outgoingHandshakes
                  THEN [pool[a] EXCEPT !.numFails = @ + 1] ELSE pool[a]]

(* torrentDestructor: the refill timer, the pool and the Torrent itself   *)
(* are freed; the optimistic peer pointer goes with the Torrent.           *)
torrentDestructor ==
    /\ refillTimer' = FALSE
    /\ pool' = <<>>
    /\ optimistic' = None

(* tr_peerMgrStartTorrent: arm the timers, run a reconnect pulse and a     *)
(* rechoke at once, and arm the refill timer if there are webseeds.        *)
StartTorrent ==
    /\ torrentExists
    /\ ~isRunning
    /\ startBudget > 0
    /\ startBudget' = startBudget - 1
    /\ isRunning' = TRUE
    /\ reconnectTimer' = TRUE
    /\ rechokeTimer' = TRUE
    /\ refillTimer' = (refillTimer \/ HasWebseeds)
    /\ prevTime' = now
    /\ \E r \in ReconnectOutcomes(TRUE) :
       \E c \in RechokeOutcomes(r.peers, r.pool, optimistic) :
          /\ pool' = r.pool
          /\ outgoingHandshakes' = r.out
          /\ newConnectionsThisSecond' = r.conn
          /\ peers' = c.peers
          /\ optimistic' = c.optimistic
    /\ UNCHANGED << torrentExists, removeBudget, isSeed, torError, incomingHandshakes, finishedHandshakes,
                    now, incomingBudget, eventBudget >>

(* tr_peerMgrStopTorrent.                                                  *)
StopTorrent ==
    /\ torrentExists
    /\ isRunning
    /\ stopTorrent
    /\ UNCHANGED << torrentExists, removeBudget, refillTimer, isSeed, torError, incomingHandshakes,
                    optimistic, now, prevTime, newConnectionsThisSecond,
                    incomingBudget, eventBudget, startBudget >>

(* tr_peerMgrRemoveTorrent: stopTorrent, then torrentDestructor, which    *)
(* frees the refill timer, the pool and the Torrent with its optimistic    *)
(* pointer.  Only manager-wide state survives.                             *)
RemoveTorrent ==
    /\ torrentExists
    /\ removeBudget > 0
    /\ removeBudget' = removeBudget - 1
    /\ torrentExists' = FALSE
    /\ stopConnections
    /\ torrentDestructor
    /\ UNCHANGED << isSeed, torError, incomingHandshakes, now, prevTime,
                    newConnectionsThisSecond, incomingBudget, eventBudget, startBudget >>

(* tr_peerMgrAddTorrent of a torrent with this hash: torrentConstructor    *)
(* builds an empty Torrent, not running and with no timers.  The           *)
(* tr_torrent behind it is loaded again from the same files, so it seeds   *)
(* exactly when the removed one did.                                       *)
AddTorrent ==
    /\ ~torrentExists
    /\ torrentExists' = TRUE
    /\ torError' = FALSE
    /\ UNCHANGED << isSeed, removeBudget, isRunning, reconnectTimer, rechokeTimer, refillTimer,
                    pool, peers, outgoingHandshakes, incomingHandshakes,
                    finishedHandshakes, optimistic, now, prevTime,
                    newConnectionsThisSecond, incomingBudget, eventBudget, startBudget >>

\* Mutation: the blocklist test forgotten.
AddIncoming_NoBlocklist(a) ==
    /\ incomingBudget > 0
    /\ incomingBudget' = incomingBudget - 1
    /\ incomingHandshakes' =
         IF a \in incomingHandshakes THEN incomingHandshakes
         ELSE incomingHandshakes \cup {a}
    /\ UNCHANGED << torrentExists, removeBudget, isRunning, reconnectTimer, rechokeTimer, refillTimer,
                    isSeed, torError, pool, peers, outgoingHandshakes,
                    finishedHandshakes, optimistic, now, prevTime,
                    newConnectionsThisSecond, eventBudget, startBudget >>

(* tr_peerMgrAddIncoming: a blocked address or one with a pending incoming *)
(* handshake is closed; otherwise a new incoming handshake is kept.        *)
AddIncoming(a) ==
    /\ incomingBudget > 0
    /\ incomingBudget' = incomingBudget - 1
    /\ incomingHandshakes' =
         IF a \in Blocked \/ a \in incomingHandshakes THEN incomingHandshakes
         ELSE incomingHandshakes \cup {a}
    /\ UNCHANGED << torrentExists, removeBudget, isRunning, reconnectTimer, rechokeTimer, refillTimer,
                    isSeed, torError, pool, peers, outgoingHandshakes,
                    finishedHandshakes, optimistic, now, prevTime,
                    newConnectionsThisSecond, eventBudget, startBudget >>

(* tr_peerMgrAddPex (tracker, cache and PEX addresses alike).              *)
AddPex(a, from, seedFlag) ==
    /\ torrentExists
    /\ a \notin Blocked
    /\ pool' = ensureAtomExists(pool, a, seedFlag, from)
    /\ UNCHANGED << torrentExists, removeBudget, isRunning, reconnectTimer, rechokeTimer, refillTimer,
                    isSeed, torError, peers, outgoingHandshakes,
                    incomingHandshakes, finishedHandshakes, optimistic, now,
                    prevTime, newConnectionsThisSecond, incomingBudget, eventBudget, startBudget >>

(* myHandshakeDoneCB.  `isIncoming' tells the direction, `known' whether  *)
(* the handshake learned this torrent's hash (getExistingTorrent), and     *)
(* `isConnected' whether it succeeded.  A handshake that does not become a *)
(* peer is queued on finishedHandshakes for the bandwidth pulse to free.   *)
NewPeer == [doPurge |-> FALSE, strikes |-> 0, seed |-> FALSE,
            interested |-> FALSE, choked |-> TRUE]

(* The failure branch of myHandshakeDoneCB: not connected, no torrent for *)
(* the hash, or the torrent is stopped.                                    *)
\* Mutation: the !t->isRunning test forgotten.
handshakeFailed_IgnoresStopped(known, isConnected) ==
    ~isConnected \/ ~known
handshakeFailed(known, isConnected) ==
    ~isConnected \/ ~known \/ ~isRunning

(* The admission checks of the success branch: the atom is not banned, an  *)
(* incoming peer fits under the cap, and the address is not a live peer.   *)
\* Mutations: the incoming cap check, or the banned check, forgotten.
admitPeer_NoIncomingCap(a, isIncoming, p, out) ==
    ~p[a].banned /\ a \notin Live
admitPeer_AdmitsBanned(a, isIncoming, p, out) ==
    /\ ~(isIncoming /\ getPeerCount(peers, out) >= MaxConnectedPeers)
    /\ a \notin Live
admitPeer(a, isIncoming, p, out) ==
    /\ ~p[a].banned
    /\ ~(isIncoming /\ getPeerCount(peers, out) >= MaxConnectedPeers)
    /\ a \notin Live

HandshakeDone(a, isIncoming, known, isConnected) ==
    /\ known => torrentExists
    /\ IF isIncoming THEN a \in incomingHandshakes
       ELSE a \in outgoingHandshakes /\ known
    /\ incomingHandshakes' = IF isIncoming THEN incomingHandshakes \ {a}
                             ELSE incomingHandshakes
    /\ LET out == IF isIncoming THEN outgoingHandshakes
                  ELSE outgoingHandshakes \ {a}
           p1 == ensureAtomExists(pool, a, FALSE, TR_PEER_FROM_INCOMING)
           p2 == [p1 EXCEPT ![a].time = now, ![a].pdt = 0]
           success == admitPeer(a, isIncoming, p2, out)
       IN /\ outgoingHandshakes' = out
          /\ IF handshakeFailed(known, isConnected)
             THEN /\ pool' = IF known /\ a \in DOMAIN pool
                             THEN [pool EXCEPT ![a].numFails = @ + 1] ELSE pool
                  /\ UNCHANGED peers
                  /\ finishedHandshakes' = finishedHandshakes + 1
             ELSE /\ pool' = p2
                  /\ peers' = IF success THEN (a :> NewPeer) @@ peers ELSE peers
                  /\ finishedHandshakes' = finishedHandshakes
                                           + (IF success THEN 0 ELSE 1)
    /\ UNCHANGED << torrentExists, removeBudget, isRunning, reconnectTimer, rechokeTimer, refillTimer,
                    isSeed, torError, optimistic, now, prevTime,
                    newConnectionsThisSecond, incomingBudget, eventBudget,
                    startBudget >>

(* reconnectPulse, fired by the reconnect timer.                           *)
ReconnectPulse ==
    /\ reconnectTimer
    /\ prevTime' = now
    /\ \E r \in ReconnectOutcomes(isRunning) :
          /\ pool' = r.pool
          /\ peers' = r.peers
          /\ outgoingHandshakes' = r.out
          /\ newConnectionsThisSecond' = r.conn
    /\ UNCHANGED << torrentExists, removeBudget, isRunning, reconnectTimer, rechokeTimer, refillTimer,
                    isSeed, torError, incomingHandshakes, finishedHandshakes,
                    optimistic, now, incomingBudget, eventBudget, startBudget >>

(* rechokePulse, fired by the rechoke timer.                               *)
RechokePulse ==
    /\ rechokeTimer
    /\ \E c \in RechokeOutcomes(peers, pool, optimistic) :
          /\ peers' = c.peers
          /\ optimistic' = c.optimistic
    /\ UNCHANGED << torrentExists, removeBudget, isRunning, reconnectTimer, rechokeTimer, refillTimer,
                    isSeed, torError, pool, outgoingHandshakes,
                    incomingHandshakes, finishedHandshakes, now, prevTime,
                    newConnectionsThisSecond, incomingBudget, eventBudget, startBudget >>

(* refillPulse: a stopped or seeding torrent keeps its timer (the pulse    *)
(* returns TRUE, so it fires again unchanged); otherwise requests are      *)
(* handed out (module Refill) and the one-shot timer is freed.             *)
RefillPulse ==
    /\ refillTimer
    /\ isRunning /\ ~isSeed
    /\ refillTimer' = FALSE
    /\ UNCHANGED << torrentExists, removeBudget, isRunning, reconnectTimer, rechokeTimer, isSeed, torError,
                    pool, peers, outgoingHandshakes, incomingHandshakes,
                    finishedHandshakes, optimistic, now, prevTime,
                    newConnectionsThisSecond, incomingBudget, eventBudget, startBudget >>

(* bandwidthPulse: frees the finished handshakes (pumpAllPeers and the     *)
(* bandwidth allocation are not modelled).                                 *)
BandwidthPulse ==
    /\ finishedHandshakes > 0
    /\ finishedHandshakes' = 0
    /\ UNCHANGED << torrentExists, removeBudget, isRunning, reconnectTimer, rechokeTimer, refillTimer,
                    isSeed, torError, pool, peers, outgoingHandshakes,
                    incomingHandshakes, optimistic, now, prevTime,
                    newConnectionsThisSecond, incomingBudget, eventBudget, startBudget >>

-----------------------------------------------------------------------------
(* peerCallbackFunc: the events a live peer's message layer delivers.      *)

PeerVarsBut == << torrentExists, removeBudget, isRunning, reconnectTimer, rechokeTimer, refillTimer,
                  isSeed, torError, outgoingHandshakes, incomingHandshakes,
                  finishedHandshakes, optimistic, now, prevTime,
                  newConnectionsThisSecond, incomingBudget, startBudget >>

(* Each peer event uses up one unit of the environment's event budget.     *)
Deliver == eventBudget > 0 /\ eventBudget' = eventBudget - 1

(* TR_PEER_UPLOAD_ONLY.                                                    *)
PeerUploadOnly(a, b) ==
    /\ a \in Live
    /\ Deliver
    /\ pool' = [pool EXCEPT ![a].uploadOnly = IF b THEN "yes" ELSE "no"]
    /\ UNCHANGED << peers >> /\ UNCHANGED PeerVarsBut

(* TR_PEER_NEED_REQ, from a peer or a webseed: refillSoon.                 *)
PeerNeedRequests ==
    /\ Live /= {} \/ (HasWebseeds /\ torrentExists)
    /\ Deliver
    /\ refillTimer' = TRUE
    /\ UNCHANGED << torrentExists, removeBudget, isRunning, reconnectTimer, rechokeTimer, isSeed, torError,
                    pool, peers, outgoingHandshakes, incomingHandshakes,
                    finishedHandshakes, optimistic, now, prevTime,
                    newConnectionsThisSecond, incomingBudget, startBudget >>

(* TR_PEER_PEER_GOT_DATA / TR_PEER_CLIENT_GOT_DATA carrying piece data.    *)
PeerGotPieceData(a) ==
    /\ a \in Live
    /\ Deliver
    /\ pool' = [pool EXCEPT ![a].pdt = now]
    /\ UNCHANGED << peers >> /\ UNCHANGED PeerVarsBut

(* TR_PEER_PEER_PROGRESS: the message layer has set peer->progress, and    *)
(* the handler copies seedness to the atom.                                *)
PeerProgress(a, s) ==
    /\ a \in Live
    /\ Deliver
    /\ pool' = [pool EXCEPT ![a].seed = s]
    /\ peers' = [peers EXCEPT ![a].seed = s]
    /\ UNCHANGED PeerVarsBut

(* The message layer records an INTERESTED / NOT_INTERESTED message.       *)
PeerInterest(a, b) ==
    /\ a \in Live
    /\ Deliver
    /\ peers' = [peers EXCEPT ![a].interested = b]
    /\ UNCHANGED << pool >> /\ UNCHANGED PeerVarsBut

(* TR_PEER_ERROR with EINVAL: a strike and a purge.                        *)
PeerErrorInvalid(a) ==
    /\ a \in Live
    /\ Deliver
    /\ peers[a].strikes < MAX_BAD_PIECES_PER_PEER
    /\ pool' = StrikeAtoms(pool, {a}, peers)
    /\ peers' = [addStrike(peers, {a}) EXCEPT ![a].doPurge = TRUE]
    /\ UNCHANGED PeerVarsBut

(* TR_PEER_ERROR with ERANGE, EMSGSIZE or ENOTCONN: a purge.               *)
PeerErrorProtocol(a) ==
    /\ a \in Live
    /\ Deliver
    /\ peers' = [peers EXCEPT ![a].doPurge = TRUE]
    /\ UNCHANGED << pool >> /\ UNCHANGED PeerVarsBut

(* TR_PEER_ERROR with a local error: record it and stop the torrent       *)
(* (tr_torrentStop reaches stopTorrent).                                   *)
PeerErrorLocal(a) ==
    /\ a \in Live
    /\ Deliver
    /\ torError' = TRUE
    /\ stopTorrent
    /\ UNCHANGED << torrentExists, removeBudget, refillTimer, isSeed, incomingHandshakes, optimistic, now,
                    prevTime, newConnectionsThisSecond, incomingBudget, startBudget >>

(* TR_PEER_CLIENT_GOT_BLOCK completing a piece.  A failed checksum runs   *)
(* tr_peerMgrSetBlame( ..., FALSE ), a strike for every live peer whose    *)
(* blame bit is set (`blamed'); a good piece may complete the torrent.     *)
tr_peerMgrSetBlame(success, blamed) ==
    IF success THEN UNCHANGED << pool, peers >>
    ELSE /\ pool' = StrikeAtoms(pool, blamed, peers)
         /\ peers' = addStrike(peers, blamed)

ClientGotPiece(ok, blamed) ==
    /\ Live /= {}
    /\ Deliver
    /\ IF ok
       THEN /\ blamed = {}
            /\ isSeed' \in {isSeed, TRUE}
       ELSE /\ \A a \in blamed : peers[a].strikes < MAX_BAD_PIECES_PER_PEER
            /\ UNCHANGED isSeed
    /\ tr_peerMgrSetBlame(ok, blamed)
    /\ UNCHANGED << torrentExists, removeBudget, isRunning, reconnectTimer, rechokeTimer, refillTimer,
                    torError, outgoingHandshakes, incomingHandshakes,
                    finishedHandshakes, optimistic, now, prevTime,
                    newConnectionsThisSecond, incomingBudget, startBudget >>

(* The clock advances one second.                                          *)
Tick ==
    /\ now < MaxTime
    /\ now' = now + 1
    /\ UNCHANGED << torrentExists, removeBudget, isRunning, reconnectTimer, rechokeTimer, refillTimer,
                    isSeed, torError, pool, peers, outgoingHandshakes,
                    incomingHandshakes, finishedHandshakes, optimistic,
                    prevTime, newConnectionsThisSecond, incomingBudget, eventBudget, startBudget >>

-----------------------------------------------------------------------------
Next ==
    \/ StartTorrent
    \/ StopTorrent
    \/ RemoveTorrent
    \/ AddTorrent
    \/ \E a \in Addrs : AddIncoming(a)
    \/ \E a \in Addrs, from \in PexFroms, s \in BOOLEAN : AddPex(a, from, s)
    \/ \E a \in Addrs, inc, known, ok \in BOOLEAN : HandshakeDone(a, inc, known, ok)
    \/ ReconnectPulse
    \/ RechokePulse
    \/ RefillPulse
    \/ BandwidthPulse
    \/ \E a \in Addrs, b \in BOOLEAN :
          PeerUploadOnly(a, b) \/ PeerProgress(a, b) \/ PeerInterest(a, b)
    \/ PeerNeedRequests
    \/ \E a \in Addrs :
          \/ PeerGotPieceData(a)
          \/ PeerErrorInvalid(a)
          \/ PeerErrorProtocol(a)
          \/ PeerErrorLocal(a)
    \/ \E ok \in BOOLEAN, blamed \in SUBSET Live : ClientGotPiece(ok, blamed)
    \/ Tick

(* The reconnect timer fires every RECONNECT_PERIOD_MSEC while it exists:  *)
(* libevent runs every armed timer, so the pulse is weakly fair.           *)
Spec == Init /\ [][Next]_vars /\ WF_vars(ReconnectPulse)

-----------------------------------------------------------------------------
(* Peer exchange (PEX) lists.  An address and a port are the bytes of the *)
(* in_addr and the tr_port in network order; the host reads them as       *)
(* little-endian integers.                                                 *)

HostInt(bytes) == FoldRight(LAMBDA b, acc : b + 256 * acc, bytes, 0)

(* net.c: s_addr compared as an integer, not the dotted order.             *)
tr_compareAddresses(a, b) ==
    IF HostInt(a) /= HostInt(b) THEN IF HostInt(a) < HostInt(b) THEN -1 ELSE 1
    ELSE 0

ADDED_F_ENCRYPTION_FLAG == 1
ADDED_F_SEED_FLAG == 2

\* Mutation: the port compared before the address.
tr_pexCompare_PortFirst(x, y) ==
    IF x.port /= y.port THEN IF HostInt(x.port) < HostInt(y.port) THEN -1 ELSE 1
    ELSE tr_compareAddresses(x.addr, y.addr)

tr_pexCompare(x, y) ==
    LET i == tr_compareAddresses(x.addr, y.addr)
    IN  IF i /= 0 THEN i
        ELSE IF x.port /= y.port THEN IF HostInt(x.port) < HostInt(y.port) THEN -1 ELSE 1
        ELSE 0

(* tr_peerMgrGetPeers: one tr_pex per live peer, flagged encryption when   *)
(* peerPrefersCrypto (`prefersCrypto', an input per address) and seed when *)
(* its atom is upload-only or its progress is 1, then qsorted by           *)
(* tr_pexCompare.  `addrOf' and `portOf' give the peers' addresses.        *)
tr_peerMgrGetPeers(addrOf, portOf, prefersCrypto) ==
    IF ~torrentExists THEN <<>>
    ELSE LET pex(a) == [addr |-> addrOf[a], port |-> portOf[a],
                        flags |-> (IF prefersCrypto[a] THEN ADDED_F_ENCRYPTION_FLAG ELSE 0)
                                  + (IF pool[a].uploadOnly = "yes" \/ peers[a].seed
                                     THEN ADDED_F_SEED_FLAG ELSE 0)]
         IN  SortSeq(SetToSeq({pex(a) : a \in Live}),
                     LAMBDA x, y : tr_pexCompare(x, y) < 0)

(* tr_peerMgrCompactToPex: one tr_pex per 6-byte record (4 address bytes,  *)
(* 2 port bytes); the flags come from added_f only if it has one byte per  *)
(* record, and are 0 otherwise.  <<>> stands for a NULL added_f.           *)
tr_peerMgrCompactToPex(compact, added_f) ==
    LET n == Len(compact) \div 6
        rec(i) == SubSeq(compact, 6 * (i - 1) + 1, 6 * i)
    IN  [i \in 1 .. n |->
            [addr |-> SubSeq(rec(i), 1, 4), port |-> SubSeq(rec(i), 5, 6),
             flags |-> IF added_f /= <<>> /\ n = Len(added_f) THEN added_f[i] ELSE 0]]

(* The PEX message encoding of peer-msgs.c: the records end to end, and    *)
(* the flags one byte each.                                                *)
PexToCompact(l) == FlattenSeq([i \in 1 .. Len(l) |-> l[i].addr \o l[i].port])
PexToAddedF(l) == [i \in 1 .. Len(l) |-> l[i].flags]

-----------------------------------------------------------------------------
(* Properties.                                                             *)

TypeOK ==
    /\ isRunning \in BOOLEAN /\ reconnectTimer \in BOOLEAN
    /\ rechokeTimer \in BOOLEAN /\ refillTimer \in BOOLEAN
    /\ isSeed \in BOOLEAN /\ torError \in BOOLEAN
    /\ DOMAIN pool \subseteq Addrs /\ \A a \in DOMAIN pool : pool[a] \in Atom
    /\ Live \subseteq DOMAIN pool /\ \A a \in Live : peers[a] \in Peer
    /\ outgoingHandshakes \subseteq DOMAIN pool
    /\ incomingHandshakes \subseteq Addrs \ Blocked
    /\ finishedHandshakes \in Nat
    /\ optimistic \in Addrs \cup {None}
    /\ now \in Epoch..MaxTime /\ prevTime \in 0..MaxTime
    /\ newConnectionsThisSecond \in 0..MAX_CONNECTIONS_PER_SECOND
    /\ incomingBudget \in 0..MaxIncoming
    /\ eventBudget \in 0..MaxPeerEvents
    /\ startBudget \in 0..MaxStarts
    /\ torrentExists \in BOOLEAN /\ removeBudget \in 0..MaxRemoves

(* The per-torrent connection cap: live peers plus outgoing handshakes     *)
(* never exceed maxConnectedPeers, whatever order reconnectPulse's dialing *)
(* loop and myHandshakeDoneCB's incoming-admission check interleave in.    *)
PeerCapRespected ==
    getPeerCount(peers, outgoingHandshakes) <= MaxConnectedPeers

(* A live peer whose atom is banned (by addStrike, on this or an earlier   *)
(* connection) is marked doPurge, so the next reconnectPulse closes it:    *)
(* no banned address keeps a session, whichever of its handshakes lands.   *)
BannedPeerIsPurged ==
    \A a \in Live : pool[a].banned => peers[a].doPurge

(* The assertion of tr_peerMgrStartTorrent (the reconnect and rechoke      *)
(* timers exist exactly while the torrent runs) and spec invariant 6 for   *)
(* peers and outgoing handshakes: a stopped torrent has no connections,    *)
(* even when handshakes started before stopTorrent complete afterwards.    *)
StoppedTorrentHasNoConnections ==
    /\ isRunning = reconnectTimer
    /\ isRunning = rechokeTimer
    /\ ~isRunning => Live = {} /\ outgoingHandshakes = {}

(* Spec invariant 6 in full: a stopped torrent's three timers are all      *)
(* null.  stopTorrent frees the rechoke and reconnect timers only.         *)
StoppedTorrentHasNoTimers ==
    ~isRunning => ~reconnectTimer /\ ~rechokeTimer /\ ~refillTimer

(* tr_peerMgrTorrentStats' peersGettingFromUs: the connected peers that   *)
(* clientIsUploadingTo, i.e. interested and not choked by us.             *)
clientIsUploadingTo(pr) == pr.interested /\ ~pr.choked

PeersGettingFromUs(ps) == {a \in DOMAIN ps : clientIsUploadingTo(ps[a])}

(* The steps that run rechoke: tr_peerMgrStartTorrent, the only one that   *)
(* sets t->isRunning, and rechokePulse, the only one that changes nothing  *)
(* but t->peers and t->optimistic.                                         *)
RechokeStep ==
    \/ ~isRunning /\ isRunning'
    \/ rechokeTimer /\ UNCHANGED << torrentExists, removeBudget, isRunning, reconnectTimer,
                                   rechokeTimer, refillTimer, isSeed, torError, pool,
                                   outgoingHandshakes, incomingHandshakes, finishedHandshakes,
                                   now, prevTime, newConnectionsThisSecond, incomingBudget,
                                   eventBudget, startBudget >>

(* Spec 5, steps 4-5: a rechoke (rechokePulse, or the one that             *)
(* tr_peerMgrStartTorrent runs) leaves at most MAX_UNCHOKED_PEERS         *)
(* interested peers unchoked besides t->optimistic: uninterested peers     *)
(* unchoked on rate do not count, and the one extra upload slot is the     *)
(* optimistic one.  When no draw happens t->optimistic keeps the peer of   *)
(* an earlier pulse, which must then not let the count exceed the cap.     *)
RechokeRespectsUploadSlots ==
    [][RechokeStep =>
          Cardinality(PeersGettingFromUs(peers') \ {optimistic'}) <= MAX_UNCHOKED_PEERS]_vars

(* Spec invariant 7: t->optimistic, if set, is a live peer.  rechoke sets  *)
(* it; removePeer and stopTorrent never clear it.                          *)
OptimisticIsLive ==
    optimistic /= None => optimistic \in Live

(* Spec 4.5: an evicted peer that ever transferred piece data has its      *)
(* failures forgiven, which needs its atom's piece_data_time to survive    *)
(* while the peer is live.  myHandshakeDoneCB resets it for every          *)
(* successful handshake of the address, also one that is then refused     *)
(* as a duplicate of the live peer.                                        *)
PieceDataCreditKept ==
    [][\A a \in Live \cap DOMAIN peers' :
          pool[a].pdt /= 0 => pool'[a].pdt /= 0]_vars

(* Every purged peer is eventually closed by a reconnect pulse (or by      *)
(* stopTorrent): doPurge is never lost before the peer goes.               *)
PurgedPeerIsClosed ==
    \A a \in Addrs :
        (a \in DOMAIN peers /\ peers[a].doPurge) ~> a \notin DOMAIN peers


-----------------------------------------------------------------------------
(* The refinement: a registered torrent is `exists', t->isRunning is      *)
(* `running', the addresses of t->peers are the connections, and the       *)
(* atoms with the banned flag are the bans.                                *)
TC == INSTANCE TorrentConnections
        WITH exists  <- torrentExists,
             running <- isRunning,
             conns   <- Live,
             banned  <- {a \in DOMAIN pool : pool[a].banned}

(* The whole peer manager, every handler and pulse together, implements   *)
(* TorrentConnections: a session is only admitted while the torrent runs,  *)
(* from an address neither blocklisted (tr_peerMgrAddIncoming,             *)
(* tr_peerMgrAddPex, getPeerCandidates) nor banned (myHandshakeDoneCB),    *)
(* within the cap however incoming and outgoing completions race; bans    *)
(* only grow until tr_peerMgrRemoveTorrent frees the pool; stopTorrent    *)
(* and removal close every session.                                        *)
TorrentConnectionsRefined == TC!Spec

=============================================================================
