------------------------------- MODULE Peers -------------------------------
(***************************************************************************)
(* Peer slots against eclipse (network::eclipse) and peer scores.  No code *)
(* of the node calls them yet: the caller here admits, drops and rotates   *)
(* peers in any order, whose addresses change in between.                  *)
(*                                                                         *)
(* An address is its octets, an IPv6 address its first six; a peer id is a *)
(* number because ties are broken by its bytes.                            *)
(***************************************************************************)
EXTENDS Integers, Sequences, FiniteSets, FiniteSetsExt, SequencesExt, Maps

CONSTANTS
    PeerIds, Addresses,
    PeerStats,          \* what may be known of a peer: messages and latency
    PrefixLens,         \* settings of AsnCap::v4_prefix_len
    max_per_prefix, max_slots

ASSUME PeersAssumption ==
    /\ PeerIds \subseteq Nat /\ IsFiniteSet(PeerIds)
    /\ PrefixLens \subseteq 0 .. 255
    /\ max_per_prefix \in Nat /\ max_slots \in Nat

VARIABLES
    peers,              \* peer -> the prefix it was admitted with
    by_prefix           \* prefix -> slots taken

peer_vars == <<peers, by_prefix>>

----------------------------------------------------------------------------
prefix_of(ip) == IF Len(ip) = 4 THEN SubSeq(ip, 1, 3) ELSE ip

\* The first len bits of an IPv4 address, in the three octets of a prefix.
asn_bucket(ip, len) ==
    LET bits(i) == Max({0, Min({8, len - 8 * (i - 1)})})
    IN  IF Len(ip) = 4 THEN [i \in 1 .. 3 |-> ip[i] - (ip[i] % (2 ^ (8 - bits(i))))] ELSE ip

score(s) ==
    3 * Min({s.valid_msgs, 1000}) - 12 * Min({s.invalid_msgs, 1000})
      - Min({s.latency_ms \div 50, 40})

count_prefix(counts, p) == CountOf(counts, p)

\* A slot table: the two maps.
Table == [peers |-> peers, by_prefix |-> by_prefix]

Become(t) == peers' = t.peers /\ by_prefix' = t.by_prefix

\* Mutant: a peer that is in the table is counted again where it is now.
admit_again(t, peer, ip) ==
    LET p == prefix_of(ip)
        n == count_prefix(t.by_prefix, p)
    IN  IF Cardinality(DOMAIN t.peers) >= max_slots \/ n >= max_per_prefix
        THEN t
        ELSE [peers |-> Put(t.peers, peer, p), by_prefix |-> Put(t.by_prefix, p, n + 1)]

\* A peer that has a slot keeps it, under the prefix it was admitted with.
admit(t, peer, ip) ==
    LET p == prefix_of(ip)
        n == count_prefix(t.by_prefix, p)
    IN  IF \/ peer \in DOMAIN t.peers
           \/ Cardinality(DOMAIN t.peers) >= max_slots
           \/ n >= max_per_prefix
        THEN t
        ELSE [peers |-> Put(t.peers, peer, p), by_prefix |-> Put(t.by_prefix, p, n + 1)]

remove(t, peer) ==
    IF peer \notin DOMAIN t.peers THEN t
    ELSE LET p == t.peers[peer]
             n == count_prefix(t.by_prefix, p)
         IN  [peers |-> Without(t.peers, peer),
              by_prefix |-> IF n <= 1 THEN Without(t.by_prefix, p)
                            ELSE Put(t.by_prefix, p, n - 1)]

\* rotate_peers: of the peers listed with their addresses now, those with the
\* lowest score go first, then those of the fullest bucket, then by id.
EvictionOrder(t, listed, stats, len) ==
    LET rows == DOMAIN listed \cap DOMAIN t.peers
        bucket(p) == asn_bucket(listed[p], len)
        occupancy(p) == Cardinality({q \in rows : bucket(q) = bucket(p)})
        points(p) == IF p \in DOMAIN stats THEN score(stats[p]) ELSE 0
        Before(p, q) ==
            \/ points(p) < points(q)
            \/ points(p) = points(q) /\ occupancy(p) > occupancy(q)
            \/ points(p) = points(q) /\ occupancy(p) = occupancy(q) /\ p < q
    IN  SetToSortSeq(rows, Before)

rotate_peers(t, listed, stats, len, evict_count) ==
    LET order == EvictionOrder(t, listed, stats, len)
        rest[n \in 0 .. evict_count] ==
            IF n = 0 THEN t
            ELSE IF n > Len(order) THEN rest[n - 1] ELSE remove(rest[n - 1], order[n])
    IN  rest[evict_count]

----------------------------------------------------------------------------
PeersInit == peers = <<>> /\ by_prefix = <<>>

AdmitPeer(peer, ip) == Become(admit(Table, peer, ip))

RemovePeer(peer) == Become(remove(Table, peer))

RotatePeers(listed, stats, len, evict_count) ==
    Become(rotate_peers(Table, listed, stats, len, evict_count))

PeersNext ==
    \/ \E peer \in PeerIds, ip \in Addresses : AdmitPeer(peer, ip)
    \/ \E peer \in PeerIds : RemovePeer(peer)
    \/ \E listed \in [PeerIds -> Addresses], stats \in [PeerIds -> PeerStats],
          len \in PrefixLens, evict_count \in 1 .. 2 :
           RotatePeers(listed, stats, len, evict_count)

PeersSpec == PeersInit /\ [][PeersNext]_peer_vars

----------------------------------------------------------------------------
\* However peers come, come back from another address, leave and are rotated out,
\* by_prefix counts exactly the peers of the table and forgets prefixes without one
\* (admit, remove, rotate_peers in eclipse.rs): no prefix has more slots than its
\* cap, and none is lost to a peer that left.
SlotsAccounted ==
    /\ \A p \in DOMAIN by_prefix :
          /\ by_prefix[p] = Cardinality({k \in DOMAIN peers : peers[k] = p})
          /\ by_prefix[p] \in 1 .. max_per_prefix
    /\ \A k \in DOMAIN peers : peers[k] \in DOMAIN by_prefix
    /\ Cardinality(DOMAIN peers) <= max_slots
=============================================================================
