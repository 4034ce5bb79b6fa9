---------------------------- MODULE PeerLimits -----------------------------
(***************************************************************************)
(* check_rate_limit_for_peer of src/rate_limit.rs, called for every        *)
(* request by rate_limit_middleware: one token bucket per peer address in  *)
(* an LRU map behind a mutex.  The mutex is held over the whole call, so   *)
(* the bucket of RateLimiter is used here as one atomic step.              *)
(***************************************************************************)
EXTENDS Integers, Sequences, FiniteSets

CONSTANTS
    Peers,             \* addresses
    MAX_PEER_BUCKETS,
    PeerBurst,         \* whole tokens in a full bucket
    PeerRate,          \* tokens per tick of the clock
    MaxPeerClock,      \* bound
    MaxChecks          \* bound: requests

ASSUME PeerAssumption ==
    /\ MAX_PEER_BUCKETS \in Nat \ {0}
    /\ PeerBurst \in Nat
    /\ PeerRate \in Nat

VARIABLES
    peerClock,
    lru,      \* PEER_LIMITERS, most recently used first
    bucket,   \* peer -> [tokens, last]; meaningful for the peers in lru
    checks,
    passed,   \* history: requests let through, per peer
    refused,  \* history: the peers that were ever turned away
    born,     \* history: buckets made, per peer
    since     \* history: per peer, the other peers seen since its last request

peerVars == <<peerClock, lru, bucket, checks, passed, refused, born, since>>

Tracked == {lru[i] : i \in DOMAIN lru}
FullBucket == [tokens |-> PeerBurst, last |-> peerClock]

PeerInit ==
    /\ peerClock = 0
    /\ lru = <<>>
    /\ bucket = [p \in Peers |-> FullBucket]
    /\ checks = 0
    /\ passed = [p \in Peers |-> 0]
    /\ refused = {}
    /\ born = [p \in Peers |-> 0]
    /\ since = [p \in Peers |-> Peers]

PeerTick ==
    /\ peerClock < MaxPeerClock
    /\ peerClock' = peerClock + 1
    /\ UNCHANGED <<lru, bucket, checks, passed, refused, born, since>>

\* Faulty variant: a hit does not move the peer to the front.
TouchedInPlace(p) ==
    IF p \in Tracked THEN lru
    ELSE SubSeq(<<p>> \o lru, 1, IF Len(lru) < MAX_PEER_BUCKETS
                                   THEN Len(lru) + 1 ELSE MAX_PEER_BUCKETS)

\* get_or_insert_mut: the peer moves or comes to the front, and a new one pushes
\* out the peer at the back of a full map.
Touched(p) ==
    IF p \in Tracked
      THEN LET i == CHOOSE i \in DOMAIN lru : lru[i] = p
           IN <<p>> \o SubSeq(lru, 1, i - 1) \o SubSeq(lru, i + 1, Len(lru))
      ELSE <<p>> \o SubSeq(lru, 1, IF Len(lru) < MAX_PEER_BUCKETS
                                     THEN Len(lru) ELSE MAX_PEER_BUCKETS - 1)

\* Faulty variant: the time of the refill is not stored.
RefilledForever(b) ==
    LET t == b.tokens + (peerClock - b.last) * PeerRate
    IN [tokens |-> IF t < PeerBurst THEN t ELSE PeerBurst, last |-> b.last]

\* refill, uncontended under the mutex.
RefilledBucket(b) ==
    LET t == b.tokens + (peerClock - b.last) * PeerRate
    IN [tokens |-> IF t < PeerBurst THEN t ELSE PeerBurst, last |-> peerClock]

\* Faulty variant: all peers draw from the bucket of the peer seen last.
CheckShared(p) ==
    LET q == IF lru = <<>> THEN p ELSE lru[1]
        b == RefilledBucket(bucket[q])
        ok == b.tokens >= 1
    IN /\ checks < MaxChecks
       /\ checks' = checks + 1
       /\ lru' = Touched(p)
       /\ bucket' = [bucket EXCEPT ![p] = IF ok THEN [b EXCEPT !.tokens = @ - 1] ELSE b]
       /\ passed' = IF ok THEN [passed EXCEPT ![p] = @ + 1] ELSE passed
       /\ refused' = IF ok THEN refused ELSE refused \cup {p}
       /\ born' = IF p \in Tracked THEN born ELSE [born EXCEPT ![p] = @ + 1]
       /\ since' = [q2 \in Peers |-> IF q2 = p THEN {} ELSE since[q2] \cup {p}]
       /\ UNCHANGED peerClock

\* check_rate_limit_for_peer: the peer's bucket, or a full one if it has none,
\* is refilled and a token is taken if there is one.
CheckPeer(p) ==
    LET b == RefilledBucket(IF p \in Tracked THEN bucket[p] ELSE FullBucket)
        ok == b.tokens >= 1
    IN /\ checks < MaxChecks
       /\ checks' = checks + 1
       /\ lru' = Touched(p)
       /\ bucket' = [bucket EXCEPT ![p] = IF ok THEN [b EXCEPT !.tokens = @ - 1] ELSE b]
       /\ passed' = IF ok THEN [passed EXCEPT ![p] = @ + 1] ELSE passed
       /\ refused' = IF ok THEN refused ELSE refused \cup {p}
       /\ born' = IF p \in Tracked THEN born ELSE [born EXCEPT ![p] = @ + 1]
       /\ since' = [q \in Peers |-> IF q = p THEN {} ELSE since[q] \cup {p}]
       /\ UNCHANGED peerClock

PeerNext == PeerTick \/ \E p \in Peers : CheckPeer(p)

PeerSpec == PeerInit /\ [][PeerNext]_peerVars

-----------------------------------------------------------------------------
\* A peer is turned away only after requests of its own worth a whole burst: no
\* sequence of requests by others, evictions included, throttles it.
PeerIsolated == \A p \in refused : passed[p] >= PeerBurst

\* What a peer is let through is bounded by one burst for each bucket it was given
\* and the refill of the elapsed time: being pushed out of the map is the only way
\* to more.
PeerGrantBounded == \A p \in Peers : passed[p] <= born[p] * PeerBurst + PeerRate * peerClock

\* Peers do not share a budget: none is throttled by the requests of others, and none
\* gets more than its own buckets hold and the time refills.
PeersApart == PeerIsolated /\ PeerGrantBounded

\* The bucket of a peer survives as long as fewer than MAX_PEER_BUCKETS other peers
\* have called since.
RecentTracked ==
    \A p \in Peers : Cardinality(since[p] \ {p}) < MAX_PEER_BUCKETS /\ born[p] > 0
                         => p \in Tracked

-----------------------------------------------------------------------------
(* A claim the code does not satisfy: "Each peer gets the same rate and burst the
   global limiter uses".  A peer that was pushed out comes back with a full bucket. *)
PeerBudget == \A p \in Peers : passed[p] <= PeerBurst + PeerRate * peerClock
=============================================================================
