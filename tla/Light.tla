------------------------------- MODULE Light -------------------------------
(***************************************************************************)
(* The committed state and those who check it from outside: the account    *)
(* and contract-storage tries, rent expiry and reactivation, the headers   *)
(* that commit to both roots, checkpoints and snapshots, and the light     *)
(* client, which believes a header with a certificate and an account with  *)
(* a proof, whoever sends them.                                            *)
(***************************************************************************)
EXTENDS Mpt, Consensus

CONSTANTS
    Addresses,          \* account keys: bytes, all of one length
    Slots,              \* contract-storage keys: bytes, of any length
    Balances,           \* what an account can hold
    Words,              \* what a slot can hold
    Genesis,            \* accounts the genesis funds, with balances
    Rent,               \* rent_due of an account, by balance
    Prepaid,            \* what the account prepaid
    Packets,            \* packet lists a counterparty commits to
    CHECKPOINT_INTERVAL,
    Minority,           \* validators that also sign headers nobody committed
    Claims,             \* signers and power a source may write into a certificate
    MaxHeight,          \* bound: the last height
    MaxRecords,         \* bound: expiries
    MaxWrites           \* bound: writes to the tries

VARIABLES
    accounts, storage,  \* the roots of the two tries
    live, slots,        \* what was put and not deleted, by key
    records,            \* ExpiryRecords handed out
    last,               \* the account as it was when it last expired
    chain,              \* committed headers, by height from 0
    writes              \* writes so far

light_vars == <<accounts, storage, live, slots, records, last, chain, writes>>

ASSUME LightAssumption ==
    /\ Addresses \subseteq Bytes /\ IsFiniteSet(Addresses)
    /\ \A a, b \in Addresses : Len(a) = Len(b)
    /\ Slots \subseteq Bytes /\ IsFiniteSet(Slots)
    /\ Genesis \in [Addresses -> {Absent} \cup {Some(b) : b \in Balances}]
    /\ \A p \in Packets : IsSeq(p) /\ Len(p) < Radix * Radix
    /\ CHECKPOINT_INTERVAL \in Nat /\ Rent \in [Balances -> Nat] /\ Prepaid \in Nat
    /\ Minority \subseteq Validators
    /\ \A S \in SUBSET Minority : ~has_quorum(PowerOf(S), total_power)
    /\ \A c \in Claims : IsSeq(c.signers) /\ c.power \in Nat

----------------------------------------------------------------------------
(* Headers, certificates, checkpoints.                                     *)

\* Account::encode: three fixed-width fields.  Nonce and code do not matter here.
encode(balance) == <<balance, 0, "no code">>
decode(raw) == raw[1]

\* block::state_root: two leaves of the generic Merkle tree.
state_root(account_root, storage_root) == compute_root(<<account_root, storage_root>>)

\* A header, which is also its hash, and what its height's state was.
HeaderAt(height, root) == [height |-> height, round |-> 0, state_root |-> root]

\* vote::signed_message of a precommit.
signed_message(height, round, block) == <<height, round, block>>

\* An ideal aggregate of BLS signatures: the keys that signed, and what.  Two orders
\* of the same keys are not told apart by the code; here they are, which only
\* refuses more.
agg_sig(keys, message) == [keys |-> keys, message |-> message]

\* A QuorumCertificate on a block, whoever wrote it: signers and power are what it
\* says, the aggregate is that of its signers on some header.
Certificate(block, signers, power, signed) ==
    [height |-> block.height, round |-> block.round, block |-> block,
     signers |-> signers, power |-> power,
     agg_sig |-> agg_sig(signers, signed_message(signed.height, signed.round, signed))]

\* The one qc::aggregate makes of all validators' precommits for a header.
aggregate(header) ==
    Certificate(header, SetToSeq(Validators), Saturated(PowerOf(Validators)), header)

\* qc::verify reads the power the certificate states and takes the key out of each
\* signer id: it neither adds the power up nor looks the signers up.  An empty list
\* of signers is never accepted.
qc_verify(qc) ==
    /\ has_quorum(qc.power, total_power)
    /\ qc.signers # <<>>
    /\ qc.agg_sig = agg_sig(qc.signers, signed_message(qc.height, qc.round, qc.block))

\* Mutant: any well-formed certificate will do.
verify_any_qc(header, qc) == qc_verify(qc)

\* light::header::verify_qc
verify_qc(header, qc) ==
    /\ qc.block = header
    /\ qc.height = header.height /\ qc.round = header.round
    /\ qc_verify(qc)

\* Height and header hash, where the height falls on the interval.
record_checkpoint(header) ==
    IF CHECKPOINT_INTERVAL # 0 /\ header.height % CHECKPOINT_INTERVAL = 0
    THEN Some([height |-> header.height, header_hash |-> header])
    ELSE Absent

\* The anchor is the first announced header at the checkpoint's height; from
\* there on every header is certified and one above the last.  Absent is an Err.
sync_checkpoints(checkpoint, announced) ==
    LET at == SelectInSeq(announced,
                          LAMBDA a : a.header.height = checkpoint.height)
        tail == From(announced, at)
    IN  IF /\ at # 0
           /\ announced[at].header = checkpoint.header_hash
           /\ \A i \in 1..Len(tail) : verify_qc(tail[i].header, tail[i].qc)
           /\ \A i \in 2..Len(tail) : tail[i].header.height = tail[i - 1].header.height + 1
        THEN Some(Last(tail).header)
        ELSE Absent

----------------------------------------------------------------------------
(* Account proofs.                                                         *)

\* l1_getProof: the state root is the header's at the height asked for, the two
\* trie roots and the proof are those of the world as it is now.
get_proof(account_root, storage_root, address) ==
    [accountRoot |-> account_root, storageRoot |-> storage_root,
     proof |-> prove(account_root, address)]

\* light::verify_account; Absent is an Err.
verify_account(header, qc, resp, address) ==
    IF /\ verify_qc(header, qc)
       /\ state_root(resp.accountRoot, resp.storageRoot) = header.state_root
       /\ verify(address, resp.proof, resp.accountRoot)
       /\ resp.proof.value # Absent
    THEN Some(decode(resp.proof.value[1]))
    ELSE Absent

\* A trie of packets by index, anchored to a certified header.
packet_key(index) == <<<<0, 0>>, <<index \div Radix, index % Radix>>>>

PutAll(root, entries) ==
    LET upto[k \in 0..Len(entries)] ==
          IF k = 0 THEN root ELSE trie_put(upto[k - 1], entries[k][1], entries[k][2])
    IN  upto[Len(entries)]

commitment(header, qc, packets) ==
    IF verify_qc(header, qc)
    THEN Some([header_hash |-> header, height |-> header.height,
               merkle_root |-> compute_root(packets),
               mpt_root |-> PutAll(EmptyRoot,
                   [i \in 1..Len(packets) |-> <<packet_key(i - 1), packets[i]>>])])
    ELSE Absent

verify_packet(commit, index, proof, expected) ==
    /\ verify(packet_key(index), proof, commit.mpt_root)
    /\ proof.value = Some(expected)

----------------------------------------------------------------------------
(* Snapshots.                                                              *)

\* Bytes of one length in their order.
Before(a, b) ==
    LET x == bytes_to_nibbles(a) y == bytes_to_nibbles(b)
    IN  \E i \in 1..Len(x) : x[i] < y[i] /\ \A j \in 1..(i - 1) : x[j] = y[j]

\* The accounts' encodings in address order.
Encodings(content) ==
    LET present == {a \in Addresses : content[a] # Absent}
        order == [i \in 1..Cardinality(present) |->
                    CHOOSE a \in present : Cardinality({b \in present : Before(b, a)}) = i - 1]
    IN  [i \in 1..Len(order) |-> <<order[i], encode(content[order[i]][1])>>]

\* The root committed to, with the accounts.
take_snapshot ==
    [commit_root |-> state_root(accounts, storage), accounts |-> Encodings(live)]

\* restore_account_encodings, put into a fresh trie.
restore_account_encodings(snap) == PutAll(EmptyRoot, snap.accounts)

----------------------------------------------------------------------------
(* Expiry.                                                                 *)

\* state::expiry::expire, as rent::expire_if_unpaid calls it with rent_gas; the
\* record's inclusion proof verifies, or there is no record.
expire(address) ==
    LET key == address
        inclusion == prove(accounts, key)
    IN  IF /\ Rent[live[address][1]] > Prepaid
           /\ trie_get(accounts, key) # Absent
           /\ verify(key, inclusion, accounts)
        THEN Some([address |-> address, encoded |-> trie_get(accounts, key)[1],
                   inclusion |-> inclusion, root |-> accounts])
        ELSE Absent

\* Mutant: the root of the record has to be the live one.
reactivate_live_root(record, exclusion) ==
    /\ trie_get(accounts, record.address) = Absent
    /\ record.inclusion.value = Some(record.encoded)
    /\ verify(record.address, record.inclusion, accounts)
    /\ verify(record.address, exclusion, accounts)

\* state::expiry::reactivate succeeds.
reactivate(record, exclusion) ==
    /\ trie_get(accounts, record.address) = Absent
    /\ record.inclusion.value = Some(record.encoded)
    /\ verify(record.address, record.inclusion, record.root)
    /\ verify(record.address, exclusion, accounts)
    /\ Some(exclusion) = prove_exclusion(accounts, record.address)

----------------------------------------------------------------------------
(* Actions.                                                                *)

LightInit ==
    /\ accounts = PutAll(EmptyRoot, Encodings(Genesis)) /\ storage = EmptyRoot
    /\ live = Genesis
    /\ slots = [k \in Slots |-> Absent]
    /\ records = {} /\ chain = <<>> /\ writes = 0
    /\ last = [a \in Addresses |-> Absent]

\* Writes are counted, for the bound.
CountedWrite == writes < MaxWrites /\ writes' = writes + 1

\* AccountTrie::put
PutAccount(a, balance) ==
    /\ CountedWrite
    /\ accounts' = trie_put(accounts, a, encode(balance))
    /\ live' = [live EXCEPT ![a] = Some(balance)]
    /\ UNCHANGED <<storage, slots, records, last, chain>>

\* ContractStorageTrie::put
PutSlot(k, word) ==
    /\ CountedWrite
    /\ storage' = trie_put(storage, k, word)
    /\ slots' = [slots EXCEPT ![k] = Some(word)]
    /\ UNCHANGED <<accounts, live, records, last, chain>>

Expire(a) ==
    /\ CountedWrite /\ Cardinality(records) < MaxRecords
    /\ live[a] # Absent
    /\ expire(a) # Absent
    /\ records' = records \cup {expire(a)[1]}
    /\ accounts' = trie_delete(accounts, a)
    /\ live' = [live EXCEPT ![a] = Absent]
    /\ last' = [last EXCEPT ![a] = live[a]]
    /\ UNCHANGED <<storage, slots, chain>>

\* The owner of a record brings it back with an exclusion proof of the moment.
Reactivate(record) ==
    /\ CountedWrite
    /\ reactivate(record, prove(accounts, record.address))
    /\ accounts' = trie_put(accounts, record.address, record.encoded)
    /\ live' = [live EXCEPT ![record.address] = Some(decode(record.encoded))]
    /\ UNCHANGED <<storage, slots, records, last, chain>>

\* A block commits to both roots.
CommitHeader ==
    /\ Len(chain) =< MaxHeight
    /\ chain' = Append(chain, [header |-> HeaderAt(Len(chain), state_root(accounts, storage)),
                               live |-> live, accounts |-> accounts, storage |-> storage])
    /\ UNCHANGED <<accounts, storage, live, slots, records, last, writes>>

LightNext ==
    \/ \E a \in Addresses, b \in Balances : PutAccount(a, b)
    \/ \E k \in Slots, w \in Words : PutSlot(k, w)
    \/ \E a \in Addresses : Expire(a)
    \/ \E r \in records : Reactivate(r)
    \/ CommitHeader

LightSpec == LightInit /\ [][LightNext]_light_vars

----------------------------------------------------------------------------
(* Reference: the one trie that holds given values by path.                *)

Lookup(f, x) == IF x \in DOMAIN f THEN Some(f[x]) ELSE Absent

\* What lies under a prefix, the prefix taken off.
Under(content, q) ==
    [r \in {From(k, Len(q) + 1) : k \in {p \in DOMAIN content : IsPrefix(q, p)}} |-> content[q \o r]]

\* The node over what lies under a prefix: a leaf for one path, else a branch below what
\* all paths share, over the subtries one nibble further on.
NodeAt(content, q, subtries) ==
    LET under == Under(content, q)
        shared == LongestCommonPrefix(DOMAIN under)
    IN  IF DOMAIN under = {shared} THEN serialize_node(leaf(shared, under[shared]))
        ELSE Prefixed(shared, serialize_node(branch(
                [n \in Nibbles |-> Lookup(subtries, q \o Append(shared, n))],
                Lookup(under, shared))))

\* Level by level, as many as the longest path has nibbles.
TrieOf(content) ==
    LET prefixes == UNION {Prefixes(k) : k \in DOMAIN content}
        depth == Max({Len(k) : k \in DOMAIN content})
        at[d \in 0..depth] ==
          [q \in prefixes |-> NodeAt(content, q, IF d = 0 THEN <<>> ELSE at[d - 1])]
    IN  IF DOMAIN content = {} THEN EmptyRoot ELSE at[depth][<<>>]

\* What a trie with these keys holds, by path.
ByPath(content) ==
    [p \in {bytes_to_nibbles(k) : k \in {j \in DOMAIN content : content[j] # Absent}} |->
        content[CHOOSE k \in DOMAIN content : bytes_to_nibbles(k) = p][1]]

\* Accounts as the trie holds them.
Encoded(content) ==
    [a \in Addresses |-> IF content[a] = Absent THEN Absent ELSE Some(encode(content[a][1]))]

----------------------------------------------------------------------------
(* What an untrusted source can put together out of what it has seen: the  *)
(* chain of any key, cut short or not, with any value claimed.             *)

Offers(root, keys, values, Ok(_)) ==
    \A nodes \in {ChainOf(root, bytes_to_nibbles(k)) : k \in keys} :
        \A n \in 1..Len(nodes), v \in {Absent} \cup values : Ok(Bound(SubSeq(nodes, 1, n), v))

AccountValues == {Some(encode(b)) : b \in Balances}

\* Tries a source can show: the live one and those of past headers.
ShownTries == {<<accounts, storage>>} \cup {<<chain[i].accounts, chain[i].storage>> : i \in 1..Len(chain)}

Headers == {chain[i].header : i \in 1..Len(chain)}
CheckpointOf(i) == record_checkpoint(chain[i].header)
Forged(h) == [h EXCEPT !.state_root = <<"another history">>]
Candidates == Headers \cup {Forged(h) : h \in Headers}
LastCheckpoint == CHOOSE i \in 1..Len(chain) :
    /\ CheckpointOf(i) # Absent
    /\ \A j \in (i + 1)..Len(chain) : CheckpointOf(j) = Absent

\* What a key may have signed: a validator outside the minority only committed
\* headers, or anything up to the last checkpoint (old keys); any other key anything.
Signed(key, header) ==
    \/ header \in Headers
    \/ key \notin Validators \ Minority
    \/ header.height =< chain[LastCheckpoint].header.height

\* Certificates on any header of a height, with a claim as to signers and power and
\* an aggregate those signers can have made.
AtHeight(n) == {h \in Candidates : h.height = n}
Signable(n, signers) == {h \in AtHeight(n) : \A key \in Range(signers) : Signed(key, h)}
Certificates(n, claim) ==
    {Certificate(b, claim.signers, claim.power, m) : b \in AtHeight(n), m \in Signable(n, claim.signers)}

\* A header and any of those for its height.
Announced ==
    UNION {[header : {h}, qc : UNION {Certificates(h.height, c) : c \in Claims}] : h \in Candidates}

\* The certificate states more power than the validators among its signers have.
Overstates(qc) == qc.power > Saturated(PowerOf(Range(qc.signers) \cap Validators))

----------------------------------------------------------------------------
(* Properties.                                                             *)

\* A root depends on what the trie holds and on nothing else, whatever the order
\* of the puts and deletes that led there (Trie::insert, remove and the two
\* normalisations): two nodes that executed differently agree on the state root,
\* and so does one that restored the accounts from a snapshot instead of replaying.
CanonicalRoot ==
    /\ accounts = TrieOf(ByPath(Encoded(live)))
    /\ storage = TrieOf(ByPath(slots))
    /\ state_root(restore_account_encodings(take_snapshot), storage) = take_snapshot.commit_root

\* proof::verify accepts exactly the truth: the proof made for a key verifies, and
\* no chain of nodes of the same trie, whole or cut short, shows a key with
\* a value it has not, or absent while it is there.
ProofsSound ==
    /\ \A a \in Addresses : verify(a, prove(accounts, a), accounts)
    /\ \A k \in Slots : verify(k, prove(storage, k), storage)
    /\ Offers(accounts, Addresses, AccountValues, LAMBDA p : \A a \in Addresses :
            verify(a, p, accounts) => p.value = Encoded(live)[a])
    /\ Offers(storage, Slots, {Some(w) : w \in Words}, LAMBDA p : \A k \in Slots :
            verify(k, p, storage) => p.value = slots[k])

\* What the light client learns.  From a checkpoint it reaches only committed headers,
\* whatever headers and certificates are announced, unless one of the certificates
\* states more power than its signers have: qc::verify takes the power as stated.
\* The account it accepts under a committed header is the one of that height, not
\* of the live state or of another header.  A packet it accepts is the one
\* committed to.
LightSees ==
    chain # <<>> =>
        /\ LET Announcements == {a \in Announced : ~Overstates(a.qc)}
           IN  \A s \in UNION {[1..n -> Announcements] : n \in 1..2}, c \in Range(CheckpointOf(LastCheckpoint)) :
                 Range(sync_checkpoints(c, s)) \subseteq Headers
        /\ LET Certified == {<<chain[i], aggregate(chain[i].header)>> : i \in 1..Len(chain)}
           IN  \A s \in ShownTries : Offers(s[1], Addresses, AccountValues, LAMBDA p :
                 \A c \in Certified, t \in ShownTries, a \in Addresses :
                    LET resp == [accountRoot |-> s[1], storageRoot |-> t[2], proof |-> p]
                        seen == verify_account(c[1].header, c[2], resp, a)
                    IN  seen # Absent => seen = c[1].live[a])
        /\ \A packets \in Packets :
              LET h == chain[1].header
              IN  \A commit \in Range(commitment(h, aggregate(h), packets)), i \in 0..Len(packets) :
                     LET proof == prove(commit.mpt_root, packet_key(i))
                     IN  {p \in Range(packets) : verify_packet(commit, i, proof, p)} =
                            {packets[j] : j \in {i + 1} \cap (1..Len(packets))}

\* Expiry loses nothing: an account that is gone can be brought back exactly as it
\* was when it expired, however the trie has changed since.
ExpiredRecoverable ==
    \A a \in Addresses :
        live[a] = Absent /\ last[a] # Absent =>
            \E r \in records :
                /\ r.address = a /\ decode(r.encoded) = last[a][1]
                /\ reactivate(r, prove(accounts, a))
=============================================================================
