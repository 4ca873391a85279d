---------------------------- MODULE MCPeerMgr ----------------------------
(* PeerMgr instantiated for TLC: two reachable addresses and a blocked  *)
(* one, room for one connection, and the time constants scaled down      *)
(* with their ratios kept (see README).                                   *)
EXTENDS PeerMgr, TLC

CONSTANTS a1, a2, b1

MCAddrs == {a1, a2, b1}
MCBlocked == {b1}

\* numFails -> backoff: 0, MIN, then growing, as 0, 5, 120, 900, ... s
MCReconnectBackoff == [n \in 0..6 |-> IF n = 0 THEN 0 ELSE IF n = 1 THEN 1 ELSE 3]

MCSymmetry == Permutations({a1, a2})

(* Addresses whose dotted order and host-integer order disagree, and two  *)
(* ports likewise: 1.0.0.2 / 2.0.0.1 and ports 1 / 256.                    *)
PexAddrs == {<<1, 0, 0, 2>>, <<2, 0, 0, 1>>}
PexPorts == {<<0, 1>>, <<1, 0>>}

(* What peer-msgs.c relies on when it diffs two tr_peerMgrGetPeers lists,  *)
(* and the spec's PEX round-trip law: whatever addresses and ports the     *)
(* live peers have, the list holds each live peer once, in strictly        *)
(* increasing s_addr order, seed-flagged exactly when its atom is          *)
(* upload-only or its progress is 1; encoding it as a compact PEX message  *)
(* and decoding it with tr_peerMgrCompactToPex gives it back.  Stated for  *)
(* every assignment of addresses and ports (a peer on port 1 prefers       *)
(* encryption), so it is invariant under the symmetry.                    *)
PexListRoundTrips ==
    \A addrOf \in Injection(Live, PexAddrs), portOf \in [Live -> PexPorts] :
        LET crypto == [a \in Live |-> portOf[a] = <<0, 1>>]
            l == tr_peerMgrGetPeers(addrOf, portOf, crypto)
        IN  /\ Len(l) = Cardinality(Live)
            /\ \A i \in 1 .. Len(l) - 1 : HostInt(l[i].addr) < HostInt(l[i + 1].addr)
            /\ \A a \in Live : \E i \in 1 .. Len(l) :
                   /\ l[i].addr = addrOf[a]
                   /\ (l[i].flags \div ADDED_F_SEED_FLAG) % 2 = 1
                        <=> (pool[a].uploadOnly = "yes" \/ peers[a].seed)
            /\ tr_peerMgrCompactToPex(PexToCompact(l), PexToAddedF(l)) = l
(* The real bounds of shouldPeerBeClosed (MIN_UPLOAD_IDLE_SECS = 30,       *)
(* MAX_UPLOAD_IDLE_SECS = 300) and per-torrent peer limits up to 60.       *)
RealMinIdle == 30
RealMaxIdle == 300
PeerLimitSamples == 1 .. 60

(* The sliding scale of shouldPeerBeClosed for one peer limit `max' and  *)
(* bounds lo, hi at peer count pc: the limit is hi with no peers, lo from  *)
(* relaxStrictnessIfFewerThanN on, never grows with one more peer, and     *)
(* falls by at most one share of the span per peer.                        *)
SlidesAt(max, lo, hi, pc) ==
    LET L(n) == IdleLimitFor(max, lo, hi, n)
        relax == (max * 9 + 5) \div 10
        share == (hi - lo + relax - 1) \div relax
    IN  /\ L(0) = hi
        /\ pc >= relax => L(pc) = lo
        /\ L(pc + 1) <= L(pc)
        /\ L(pc) - L(pc + 1) <= share

SlidesAtRealBounds ==
    \A max \in PeerLimitSamples : \A pc \in 0 .. max :
        SlidesAt(max, RealMinIdle, RealMaxIdle, pc)

(* Spec section 8 and the comment of shouldPeerBeClosed ("a sliding scale  *)
(* based on number of available peers"): at the real 30 s / 300 s bounds, *)
(* for every peer limit up to 60 and every peer count, and at the model's  *)
(* own bounds for the live peers of the current state, the idle limit      *)
(* starts at MAX_UPLOAD_IDLE_SECS, never grows as peers are added, is      *)
(* MIN_UPLOAD_IDLE_SECS from the relax threshold on, and drops by at most  *)
(* one share of the span per peer, never in one cliff.                     *)
IdleLimitSlides ==
    /\ SlidesAtRealBounds
    /\ SlidesAt(MaxConnectedPeers, MIN_UPLOAD_IDLE_SECS, MAX_UPLOAD_IDLE_SECS,
                Cardinality(Live))
====
