------------------------------- MODULE Merkle -------------------------------
(***************************************************************************)
(* The generic Merkle tree of the `state` crate, over ideal hashes: the    *)
(* hash of a node is the tagged tuple of what is hashed.                   *)
(***************************************************************************)
EXTENDS Naturals, Sequences

\* A sequence of anything.
IsSeq(s) == s \in Seq({s[i] : i \in DOMAIN s})

\* Option<T>, and Result<T, E> where the error does not matter.
Absent == <<>>
Some(x) == <<x>>

hash_leaf(x) == <<0, x>>
hash_branch(l, r) == <<1, l, r>>

\* An odd layer repeats its last hash.
Evened(layer) == IF Len(layer) % 2 = 1 THEN Append(layer, layer[Len(layer)]) ELSE layer

NextLayer(layer) ==
    LET e == Evened(layer)
    IN  [i \in 1..(Len(e) \div 2) |-> hash_branch(e[2 * i - 1], e[2 * i])]

LeafLayer(leaves) == [i \in 1..Len(leaves) |-> hash_leaf(leaves[i])]

\* A round of compute_root's loop, which ends when one hash is left: as many rounds as
\* there are leaves are enough.
Rise(layer) == IF Len(layer) = 1 THEN layer ELSE NextLayer(layer)

compute_root(leaves) ==
    LET at[k \in 0..Len(leaves)] == IF k = 0 THEN LeafLayer(leaves) ELSE Rise(at[k - 1])
    IN  IF leaves = <<>> THEN <<>> ELSE at[Len(leaves)][1]

\* A round of prove's loop: the sibling of the hash at idx, from 0, then the layer above.
Ascend(s) ==
    LET sib == IF s.idx % 2 = 0 THEN s.idx + 1 ELSE s.idx - 1
    IN  IF Len(s.layer) = 1 THEN s
        ELSE [layer |-> NextLayer(s.layer), idx |-> s.idx \div 2,
              siblings |-> Append(s.siblings, Evened(s.layer)[sib + 1])]

merkle_prove(leaves, index) ==
    LET at[k \in 0..Len(leaves)] ==
          IF k = 0 THEN [layer |-> LeafLayer(leaves), idx |-> index, siblings |-> <<>>]
          ELSE Ascend(at[k - 1])
    IN  [leaf_index |-> index, siblings |-> at[Len(leaves)].siblings]

\* A round of verify's loop.
Climb(s, sib) ==
    [acc |-> IF s.idx % 2 = 0 THEN hash_branch(s.acc, sib) ELSE hash_branch(sib, s.acc),
     idx |-> s.idx \div 2]

merkle_verify(x, proof, root) ==
    LET at[k \in 0..Len(proof.siblings)] ==
          IF k = 0 THEN [acc |-> hash_leaf(x), idx |-> proof.leaf_index]
          ELSE Climb(at[k - 1], proof.siblings[k])
    IN  at[Len(proof.siblings)].acc = root
=============================================================================
