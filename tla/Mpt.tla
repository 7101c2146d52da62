-------------------------------- MODULE Mpt --------------------------------
(***************************************************************************)
(* The hexary Merkle Patricia trie of the `state` crate with its proofs.   *)
(* Hashes are ideal: the hash of a node is its serialized payload, so a    *)
(* root determines the whole trie and the node store, which only grows,    *)
(* holds every hash a trie refers to.  A byte is the pair of its nibbles;  *)
(* a payload starts with its tag byte.                                     *)
(***************************************************************************)
EXTENDS FiniteSets, SequencesExt, Merkle

CONSTANT Radix      \* bound: the nibbles keys are made of, 16 in the code

ASSUME RadixAssumption == Radix \in 2..16

Nibbles == 0..(Radix - 1)
Bytes == Seq(Nibbles \X Nibbles)

----------------------------------------------------------------------------
(* Paths.                                                                  *)

bytes_to_nibbles(key) == [i \in 1..(2 * Len(key)) |-> key[(i + 1) \div 2][2 - (i % 2)]]

\* Hex prefix: the flag nibble says leaf (2) and odd (1); an odd path starts in
\* the flag byte, an even one after it.
pack_hex_prefix(path, is_leaf) ==
    LET odd == Len(path) % 2
        nibbles == <<(IF is_leaf THEN 2 ELSE 0) + odd>>
                       \o (IF odd = 1 THEN path ELSE <<0>> \o path)
    IN  [i \in 1..(Len(nibbles) \div 2) |-> <<nibbles[2 * i - 1], nibbles[2 * i]>>]

unpack_hex_prefix(packed) ==
    LET nibbles == bytes_to_nibbles(packed)
        odd == nibbles[1] % 2 = 1
    IN  [path |-> SubSeq(nibbles, IF odd THEN 2 ELSE 3, Len(nibbles)),
         is_leaf |-> nibbles[1] >= 2]

StartsWith(key, path) == IsPrefix(path, key)

From(s, n) == SubSeq(s, n, Len(s))

common_prefix_len(a, b) == Len(LongestCommonPrefix({a, b}))

----------------------------------------------------------------------------
(* Nodes.                                                                  *)

Empty == [kind |-> "Empty"]
leaf(path, value) == [kind |-> "Leaf", path |-> path, value |-> value]
extension(path, next) == [kind |-> "Extension", path |-> path, next |-> next]
branch(children, value) == [kind |-> "Branch", children |-> children, value |-> value]

\* The payload of a node, which is also its hash.
serialize_node(n) ==
    CASE n.kind = "Empty" -> <<0>>
      [] n.kind = "Leaf" -> <<1, pack_hex_prefix(n.path, TRUE), n.value>>
      [] n.kind = "Extension" -> <<2, pack_hex_prefix(n.path, FALSE), n.next>>
      [] n.kind = "Branch" -> <<3, n.children, n.value>>

\* Every payload met here was made by serialize_node, so the length checks and
\* the leaf-flag checks of the code pass.
deserialize_node(p) ==
    CASE p[1] = 0 -> Empty
      [] p[1] = 1 -> leaf(unpack_hex_prefix(p[2]).path, p[3])
      [] p[1] = 2 -> extension(unpack_hex_prefix(p[2]).path, p[3])
      [] p[1] = 3 -> branch(p[2], p[3])

EmptyRoot == serialize_node(Empty)
NoChildren == [n \in Nibbles |-> Absent]

----------------------------------------------------------------------------
(* Lookup and update.  `h` is the hash of the subtrie.                     *)

\* Where a lookup goes next from a position: a subtrie and the rest of the key.
Down(s) ==
    LET n == deserialize_node(s.h) IN
    CASE n.kind = "Extension" /\ StartsWith(s.key, n.path) ->
            Some([h |-> n.next, key |-> From(s.key, Len(n.path) + 1)])
      [] n.kind = "Branch" /\ s.key # <<>> /\ n.children[s.key[1]] # Absent ->
            Some([h |-> n.children[s.key[1]][1], key |-> Tail(s.key)])
      [] OTHER -> Absent

\* The recursion of get_at, insert and remove: the positions from a subtrie down to
\* where the key or the trie ends.  Each takes nibbles off the key.
Way(h, key) ==
    LET upto[k \in 0..Len(key)] ==
          IF k = 0 THEN <<[h |-> h, key |-> key]>>
          ELSE upto[k - 1] \o Down(Last(upto[k - 1]))
    IN  upto[Len(key)]

\* What is found at the end of it.
Found(s) ==
    LET n == deserialize_node(s.h) IN
    CASE n.kind = "Leaf" /\ n.path = s.key -> Some(n.value)
      [] n.kind = "Branch" /\ s.key = <<>> -> n.value
      [] OTHER -> Absent

get_at(h, key) == Found(Last(Way(h, key)))

trie_get(root, key) == get_at(root, bytes_to_nibbles(key))

\* Two diverging rests under one branch; a rest that ends is the branch value.
split_to_branch(a_rest, a_val, b_rest, b_val) ==
    LET Child(rest, val) == Some(serialize_node(leaf(Tail(rest), val)))
        With(children, rest, val) ==
            IF rest = <<>> THEN children ELSE [children EXCEPT ![rest[1]] = Child(rest, val)]
    IN  serialize_node(branch(
            With(With(NoChildren, a_rest, a_val), b_rest, b_val),
            IF a_rest = <<>> THEN Some(a_val)
            ELSE IF b_rest = <<>> THEN Some(b_val) ELSE Absent))

\* A branch under the prefix its two sides share.
Prefixed(prefix, h) ==
    IF prefix = <<>> THEN h ELSE serialize_node(extension(prefix, h))

\* A key that leaves an extension in its middle.
split_extension(n, key, value) ==
    LET cp == common_prefix_len(n.path, key)
        rest == From(n.path, cp + 2)
        ext_child == Prefixed(rest, n.next)
        children == [NoChildren EXCEPT ![n.path[cp + 1]] = Some(ext_child)]
    IN  IF Len(key) = cp
        THEN Prefixed(key, serialize_node(branch(children, Some(value))))
        ELSE Prefixed(SubSeq(n.path, 1, cp), serialize_node(branch(
                [children EXCEPT ![key[cp + 1]] =
                    Some(serialize_node(leaf(From(key, cp + 2), value)))],
                Absent)))

\* insert where the way ends.
InsertHere(s, value) ==
    LET n == deserialize_node(s.h)
        key == s.key
    IN  CASE n.kind = "Empty" -> serialize_node(leaf(key, value))
          [] n.kind = "Leaf" /\ n.path = key -> serialize_node(leaf(key, value))
          [] n.kind = "Leaf" /\ n.path # key ->
                LET cp == common_prefix_len(n.path, key)
                IN  Prefixed(SubSeq(n.path, 1, cp),
                             split_to_branch(From(n.path, cp + 1), n.value,
                                             From(key, cp + 1), value))
          [] n.kind = "Extension" -> split_extension(n, key, value)
          [] n.kind = "Branch" /\ key = <<>> -> serialize_node(branch(n.children, Some(value)))
          [] n.kind = "Branch" /\ key # <<>> ->
                serialize_node(branch(
                    [n.children EXCEPT ![key[1]] = Some(serialize_node(leaf(Tail(key), value)))],
                    n.value))

\* The node on the way with a new subtrie below it.
Linked(s, h) ==
    LET n == deserialize_node(s.h) IN
    CASE n.kind = "Extension" -> serialize_node(extension(n.path, h))
      [] n.kind = "Branch" ->
            serialize_node(branch([n.children EXCEPT ![s.key[1]] = Some(h)], n.value))

insert(h, key, value) ==
    LET way == Way(h, key)
        up[k \in 0..(Len(way) - 1)] ==
          IF k = 0 THEN InsertHere(Last(way), value) ELSE Linked(way[Len(way) - k], up[k - 1])
    IN  up[Len(way) - 1]

trie_put(root, key, value) == insert(root, bytes_to_nibbles(key), value)

prefix_child(nibble, h) ==
    LET n == deserialize_node(h) IN
    serialize_node(
        CASE n.kind = "Leaf" -> leaf(<<nibble>> \o n.path, n.value)
          [] n.kind = "Extension" -> extension(<<nibble>> \o n.path, n.next)
          [] n.kind = "Branch" -> extension(<<nibble>>, h)
          [] n.kind = "Empty" -> Empty)

normalize_extension(path, h) ==
    LET n == deserialize_node(h) IN
    serialize_node(
        CASE n.kind = "Leaf" -> leaf(path \o n.path, n.value)
          [] n.kind = "Extension" -> extension(path \o n.path, n.next)
          [] n.kind = "Branch" -> extension(path, h)
          [] n.kind = "Empty" -> Empty)

\* Mutant: a branch left with one child stays a branch.
collapse_to_branch(children, value) ==
    LET present == {n \in Nibbles : children[n] # Absent} IN
    CASE present = {} /\ value = Absent -> Absent
      [] present = {} /\ value # Absent -> Some(serialize_node(leaf(<<>>, value[1])))
      [] OTHER -> Some(serialize_node(branch(children, value)))

\* What is left of a branch; Absent when nothing is.
collapse_branch(children, value) ==
    LET present == {n \in Nibbles : children[n] # Absent} IN
    CASE present = {} /\ value = Absent -> Absent
      [] present = {} /\ value # Absent -> Some(serialize_node(leaf(<<>>, value[1])))
      [] Cardinality(present) = 1 /\ value = Absent ->
            LET nibble == CHOOSE n \in present : TRUE
            IN  Some(prefix_child(nibble, children[nibble][1]))
      [] OTHER -> Some(serialize_node(branch(children, value)))

\* remove where the way ends; Absent when the subtrie became empty.
RemoveHere(s) ==
    LET n == deserialize_node(s.h) IN
    CASE n.kind = "Empty" -> Absent
      [] n.kind = "Leaf" /\ n.path = s.key -> Absent
      [] n.kind = "Branch" /\ s.key = <<>> /\ n.value # Absent -> collapse_branch(n.children, Absent)
      [] OTHER -> Some(s.h)

\* The node on the way with what is left of the subtrie below it.
Unlinked(s, left) ==
    LET n == deserialize_node(s.h) IN
    CASE n.kind = "Extension" ->
            IF left = Absent THEN Absent ELSE Some(normalize_extension(n.path, left[1]))
      [] n.kind = "Branch" ->
            LET children == [n.children EXCEPT ![s.key[1]] = left]
            IN  IF left = Absent THEN collapse_branch(children, n.value)
                ELSE Some(serialize_node(branch(children, n.value)))

remove(h, key) ==
    LET way == Way(h, key)
        up[k \in 0..(Len(way) - 1)] ==
          IF k = 0 THEN RemoveHere(Last(way)) ELSE Unlinked(way[Len(way) - k], up[k - 1])
    IN  up[Len(way) - 1]

trie_delete(root, key) ==
    IF trie_get(root, key) = Absent THEN root
    ELSE LET left == remove(root, bytes_to_nibbles(key))
         IN  IF left = Absent THEN EmptyRoot ELSE left[1]

----------------------------------------------------------------------------
(* Trie proofs.                                                            *)

\* The payloads from the root towards the key.
ChainOf(h, key) == LET way == Way(h, key) IN [i \in 1..Len(way) |-> way[i].h]

\* bind_chain: the list of payloads under a generic Merkle proof of the first.
Bound(nodes, value) ==
    [nodes |-> nodes, value |-> value,
     chain_merkle |-> merkle_prove(nodes, 0), chain_merkle_root |-> compute_root(nodes)]

prove(root, key) ==
    Bound(ChainOf(root, bytes_to_nibbles(key)), trie_get(root, key))

\* Absent when the key is present.
prove_exclusion(root, key) ==
    LET p == prove(root, key) IN IF p.value = Absent THEN Some(p) ELSE Absent

\* The position after i payloads, if each leads to the next; as a set of one or none.
Follow(nodes, key, i) ==
    LET upto[k \in 1..i] ==
          IF k = 1 THEN {[h |-> nodes[1], key |-> key]}
          ELSE {s \in UNION {Range(Down(r)) : r \in upto[k - 1]} : s.h = nodes[k]}
    IN  upto[i]

\* Mutant: a chain that stops above the subtrie of the key proves that it is absent.
walk_short(nodes, key, expected) ==
    \E s \in Follow(nodes, key, Len(nodes)) :
        expected = IF Down(s) = Absent THEN Found(s) ELSE Absent

\* Follows the chain; the last payload must settle the claim.
walk_verify(nodes, key, expected) ==
    \E s \in Follow(nodes, key, Len(nodes)) : Down(s) = Absent /\ expected = Found(s)

\* mpt::proof::verify
verify(key, proof, root) ==
    /\ proof.nodes # <<>>
    /\ proof.nodes[1] = root
    /\ compute_root(proof.nodes) = proof.chain_merkle_root
    /\ merkle_verify(proof.nodes[1], proof.chain_merkle, proof.chain_merkle_root)
    /\ walk_verify(proof.nodes, bytes_to_nibbles(key), proof.value)
=============================================================================
