------------------------- MODULE TorrentConnections -------------------------
(***************************************************************************)
(* What the peer manager promises one torrent, with none of its machinery:*)
(* the torrent is added, started, stopped and removed; while it runs it   *)
(* gains connections one at a time, never to a blocklisted or banned       *)
(* address and never past the cap; connections end at any time and all at *)
(* once on stop or removal; a ban is sticky until the torrent is removed   *)
(* with its atoms.  PeerMgr is checked to implement this specification.    *)
(***************************************************************************)
EXTENDS Naturals, FiniteSets

CONSTANTS
    Addrs,              \* addresses of remote peers
    Blocked,            \* the session's blocklist
    MaxConnectedPeers   \* the per-torrent connection cap

VARIABLES
    exists,     \* the torrent is registered with the peer manager
    running,    \* the torrent is started
    conns,      \* the addresses with a live, handshake-completed session
    banned      \* the addresses whose atom is banned

absVars == << exists, running, conns, banned >>

TypeOK ==
    /\ exists \in BOOLEAN /\ running \in BOOLEAN
    /\ conns \subseteq Addrs /\ banned \subseteq Addrs

Init ==
    /\ exists = TRUE
    /\ running = FALSE
    /\ conns = {}
    /\ banned = {}

Add ==
    /\ ~exists
    /\ exists' = TRUE
    /\ UNCHANGED << running, conns, banned >>

Start ==
    /\ exists /\ ~running
    /\ running' = TRUE
    /\ UNCHANGED << exists, conns, banned >>

(* Stopping ends every session but keeps what is known of the addresses.  *)
Stop ==
    /\ running
    /\ running' = FALSE
    /\ conns' = {}
    /\ UNCHANGED << exists, banned >>

(* Removal is a stop and the loss of everything the torrent knew.         *)
Remove ==
    /\ exists
    /\ exists' = FALSE
    /\ running' = FALSE
    /\ conns' = {}
    /\ banned' = {}

Connect(a) ==
    /\ exists /\ running
    /\ a \notin conns
    /\ a \notin Blocked
    /\ a \notin banned
    /\ Cardinality(conns) < MaxConnectedPeers
    /\ conns' = conns \cup {a}
    /\ UNCHANGED << exists, running, banned >>

(* Any number of sessions end together, as one eviction pass closes them. *)
Disconnect(S) ==
    /\ S /= {} /\ S \subseteq conns
    /\ conns' = conns \ S
    /\ UNCHANGED << exists, running, banned >>

(* Strikes ban connected addresses; the session itself may live on.       *)
Ban(S) ==
    /\ S \subseteq conns
    /\ banned' = banned \cup S
    /\ UNCHANGED << exists, running, conns >>

Next ==
    \/ Add \/ Start \/ Stop \/ Remove
    \/ \E a \in Addrs : Connect(a)
    \/ \E S \in SUBSET Addrs : Disconnect(S) \/ Ban(S)

Spec == Init /\ [][Next]_absVars

====
