-------------------------------- MODULE Sync --------------------------------
(***************************************************************************)
(* What a node that is not a validator takes from gossip: the body offers  *)
(* it catches up with, the chunks of an erasure-coded body, and headers,   *)
(* votes, proposals and transactions.  Frames arrive late, repeated, in    *)
(* any order, cut off, longer than sent or with their contents changed.    *)
(* The catch-up checks no certificate: an offer need not be of a block the *)
(* validators committed.                                                   *)
(***************************************************************************)
EXTENDS Codec, FiniteSets, FiniteSetsExt, Maps

CONSTANTS
    Bodies,             \* the transactions of each block, from height 0
    Validators, Outsider,
    DATA_SHARDS, PARITY_SHARDS, SAMPLE_COUNT,
    Subscriptions,      \* sets of kinds a node may listen to; handlers of different
                        \* kinds share no state here, so small sets are enough
    Stray,              \* offers other than the validators': of a committed header with
                        \* something else in them, or of a block nobody committed
    Forged,             \* messages other than the ones sent, each with its kind
    MaxDamage,          \* bound: stray offers that arrive
    None

VARIABLES
    topics,             \* the kinds this node listens to
    published,          \* how many blocks the validators have committed and offer
    sync_offers,        \* by height: the offer last heard and the frame it came in
    store,              \* the blocks on disk by height, and the tip
    node,               \* Live: world, height, last_hash, last_ts
    adopted,            \* history: the offers the node's state was replayed from
    held,               \* chunks of block 0 by index
    heard,              \* the message just ingested, and its frame
    damage

vars == <<topics, published, sync_offers, store, node, adopted, held, heard, damage>>

Heights == 0..(Len(Bodies) - 1)

ASSUME SyncAssumption ==
    /\ DATA_SHARDS \in Nat \ {0} /\ PARITY_SHARDS \in Nat \ {0}
    /\ SAMPLE_COUNT \in 0..(DATA_SHARDS + PARITY_SHARDS)
    /\ Outsider \notin Validators
    /\ \A o \in Stray : IsOffer(o) /\ o.header.fields.height \in Nat

----------------------------------------------------------------------------
(* The committed chain.                                                    *)

\* A signature holds for the signed message and key only.
Signature(key, message) == <<"sig", key, message>>

SignedTx(key, tx) ==
    [tx |-> tx, signature |-> Signature(key, tx_encode(tx)), public_key |-> key]

\* Execution: the world is what was applied, its hash is ideal.
apply_block(world, block) == world \o [i \in 1..Len(block.txs) |-> block.txs[i].tx]
app_hash(world) == <<"app", world>>

WorldAt(n) == FlattenSeq([h \in 1..n |-> [i \in 1..Len(Bodies[h]) |-> Bodies[h][i].tx]])

ReceiptOf(tx) ==
    receipt_encode([success |-> 1, gas_used |-> tx.tx.gas_limit, reason |-> 0,
                    events |-> <<[kind |-> "Stake", from |-> tx.public_key, amount |-> 1]>>])

FieldsAt(h) == [height |-> h, round |-> 0, proposer |-> "p", timestamp_ms |-> 10 + h]
BlockAt(h) == [header_fields |-> FieldsAt(h), txs |-> Bodies[h + 1]]
ReceiptsAt(h) == [i \in 1..Len(Bodies[h + 1]) |-> ReceiptOf(Bodies[h + 1][i])]

CommittedHeader(h) ==
    [fields |-> FieldsAt(h),
     tx_root |-> tx_root([i \in 1..Len(Bodies[h + 1]) |-> Bodies[h + 1][i].tx]),
     state_root |-> app_hash(WorldAt(h + 1)),
     receipts_root |-> receipts_root(ReceiptsAt(h)),
     validators_hash |-> Validators, da_root |-> 0]

\* BodyOffer, as the validators publish it
Committed(h) ==
    [header |-> CommittedHeader(h), block |-> BlockAt(h), receipts |-> ReceiptsAt(h),
     app_hash |-> app_hash(WorldAt(h + 1))]

Chain == [h \in Heights |-> Committed(h)]

OfferFrame(offer) == encode_frame("Block", encode_body_offer(offer))
ChainFrames == [h \in Heights |-> OfferFrame(Chain[h])]

----------------------------------------------------------------------------
(* Erasure coding and sampling.                                            *)

Shards == DATA_SHARDS + PARITY_SHARDS

\* The length, the data, zeros up to a multiple of k.
pad_len(len, k) == ((1 + len + k - 1) \div k) * k
Padded(data) ==
    <<Len(data)>> \o data
      \o [i \in 1..(pad_len(Len(data), DATA_SHARDS) - 1 - Len(data)) |-> 0]

\* rs::encode: k data shards, then parity shards, each a function of all of them.
rs_encode(data) ==
    LET buf == Padded(data)
        size == Len(buf) \div DATA_SHARDS
        DataShard(i) == SubSeq(buf, i * size + 1, (i + 1) * size)
        all == [i \in 1..DATA_SHARDS |-> DataShard(i - 1)]
    IN  all \o [j \in 1..PARITY_SHARDS |-> <<"parity", j, all>>]

\* ReedSolomon::reconstruct: k shards of one code word give its data shards.
RsReconstruct(slots) ==
    LET present == {i \in 1..Shards : slots[i] # Absent}
        parity == {i \in present : i > DATA_SHARDS}
    IN  IF Cardinality(present) < DATA_SHARDS THEN Err
        ELSE IF 1..DATA_SHARDS \subseteq present
             THEN Ok([i \in 1..DATA_SHARDS |-> slots[i][1]])
             ELSE Ok(slots[CHOOSE i \in parity : TRUE][1][3])

\* Mutant: the length in front of the data is not looked at.
rs_decode_padded(slots) ==
    Then(RsReconstruct(slots), LAMBDA data : Ok(Tail(FlattenSeq(data))))

rs_decode(slots) ==
    Then(RsReconstruct(slots), LAMBDA data :
      LET buf == FlattenSeq(data)
      IN  IF buf[1] > Len(buf) - 1 THEN Err ELSE Ok(SubSeq(buf, 2, 1 + buf[1])))

split(block) == [i \in 1..Shards |-> [index |-> i - 1,
                                      payload |-> rs_encode(encode_block_body(block))[i]]]

reconstruct(slots) == Then(rs_decode(slots), decode_block_body)

leaf_bytes(shard) == <<shard.index>> \o shard.payload

\* da::root::commit; the KZG commitment beside the Merkle root is checked by nobody.
da_commit(block) ==
    LET shards == split(block)
        leaves == [i \in 1..Shards |-> leaf_bytes(shards[i])]
    IN  [root |-> compute_root(leaves),
         proven |-> [i \in 1..Shards |-> [shard |-> shards[i],
                                          proof |-> merkle_prove(leaves, i - 1)]]]

\* publish_da_chunks of block 0, after its commit.
Published == da_commit(BlockAt(0))

verify_chunk(root, proven) == merkle_verify(leaf_bytes(proven.shard), proven.proof, root)

\* das::sample and das::fail_closed of the indices a root selects.
sample(root, chunks, queried) ==
    {i \in queried : /\ i \in DOMAIN chunks
                     /\ chunks[i].shard.index = i
                     /\ verify_chunk(root, chunks[i])}

fail_closed(successes) == Cardinality(successes) >= SAMPLE_COUNT

----------------------------------------------------------------------------
(* Gates of the topics.                                                    *)

\* ingest_block: the body and the receipts are the ones the header commits to.
ingest_block(header, block, receipts) ==
    /\ header.fields = block.header_fields
    /\ tx_root([i \in 1..Len(block.txs) |-> block.txs[i].tx]) = header.tx_root
    /\ receipts_root(receipts) = header.receipts_root

\* mempool verify, as far as the envelope goes
ingest_tx(s) == s.signature = Signature(s.public_key, tx_encode(s.tx))

\* The blocks hold signed transactions, and there is one to gossip.
ASSUME BodiesAssumption ==
    /\ IsSeq(Bodies) /\ Len(Bodies) > 0 /\ Len(Bodies[1]) > 0
    /\ \A h \in 1..Len(Bodies) :
          /\ IsSeq(Bodies[h])
          /\ \A i \in 1..Len(Bodies[h]) : IsSignedTx(Bodies[h][i]) /\ ingest_tx(Bodies[h][i])

proposal_message(header) == <<"proposal", hash_preimage(header)>>

\* validator_mesh and topics: a validator's, for the height and round of its header, which
\* is what is signed.
ingest_validator_proposal(p) ==
    /\ p.proposer \in Validators
    /\ p.height = p.header.fields.height /\ p.round = p.header.fields.round
    /\ p.signature = Signature(p.proposer, proposal_message(p.header))

VoteMessage(v) == <<"vote", v.height, v.round, v.kind, v.block>>

\* The same for a vote; its replay log is the one of Live.
ingest_validator_vote(v) ==
    v.signer \in Validators /\ v.signature = Signature(v.signer, VoteMessage(v))

\* A topic's decoder and its gate.
Gate(result, Pass(_)) == {m \in result : Pass(m)}

ingest(kind, inner) ==
    CASE kind = "Tx" -> Gate(decode_signed_tx(inner), ingest_tx)
      [] kind = "Proposal" -> Gate(decode_proposal(inner), ingest_validator_proposal)
      [] kind = "Vote" -> Gate(decode_vote(inner), ingest_validator_vote)
      [] kind = "Header" -> decode_header(inner)
      [] kind = "DaChunk" ->
            Gate(decode_da_chunk(inner),
                 LAMBDA c : verify_chunk(Published.root, c))
      [] OTHER -> Err

----------------------------------------------------------------------------
(* Catching up.                                                            *)

\* The offers as try_catchup reads them: in order of height, if they run from 0.
Contiguous(offers) == DOMAIN offers = 0..(Cardinality(DOMAIN offers) - 1)

\* headers_then_bodies into a scratch store: nothing is kept unless all pass.
headers_then_bodies(offers) ==
    \A h \in DOMAIN offers :
        ingest_block(offers[h].header, offers[h].block, offers[h].receipts)

\* Mutant: what is stored stays.
wire_sync_missing(st, offers) ==
    [blocks |-> PutAll(offers, st.blocks), tip |-> Some(Max(DOMAIN offers))]

\* wire_sync persists every offer again, over what is stored, so the last one is the tip.
wire_sync(st, offers) ==
    [blocks |-> PutAll(st.blocks, offers), tip |-> Some(Max(DOMAIN offers))]

\* replay_from_genesis: every height up to the tip, its app hash compared.
Replayed(blocks, n) ==
    FlattenSeq([h \in 1..n |-> apply_block(<<>>, blocks[h - 1].block)])

replay_from_genesis(st) ==
    IF \A h \in 0..st.tip[1] :
          h \in DOMAIN st.blocks /\ app_hash(Replayed(st.blocks, h + 1)) = st.blocks[h].app_hash
    THEN Ok(Replayed(st.blocks, st.tip[1] + 1))
    ELSE Err

\* The nodes a catch-up may leave: none if the replay fails.
Adopt(st, offers) ==
    LET last == offers[Max(DOMAIN offers)]
    IN  Then(replay_from_genesis(st), LAMBDA world :
          Ok([world |-> world,
              height |-> last.header.fields.height + 1,
              last_hash |-> hash_preimage(last.header),
              last_ts |-> last.header.fields.timestamp_ms]))

\* try_catchup, called with each offer.
try_catchup(offers) ==
    IF Contiguous(offers) /\ headers_then_bodies(offers)
    THEN /\ store' = wire_sync(store, offers)
         /\ LET caught_up == Adopt(store', offers)
            IN  IF caught_up = Err THEN UNCHANGED <<node, adopted>>
                ELSE node' \in caught_up /\ adopted' = offers
    ELSE UNCHANGED <<store, node, adopted>>

\* Mutant: an offer that is there already stays.
Insert_once(offers, height, entry) == PutAll(Put(offers, height, entry), offers)

\* sync_offers.insert: a later offer for the height takes the place of an earlier one.
Insert(offers, height, entry) == Put(offers, height, entry)

\* A Block frame in handle_bytes.
handle_block(frame) ==
    LET decoded == Then(decode_frame(frame), LAMBDA f :
                     IF f.kind = "Block" THEN decode_body_offer(f.inner) ELSE Err)
    IN  IF decoded = Err THEN UNCHANGED <<sync_offers, store, node, adopted>>
        ELSE \E offer \in decoded :
                /\ sync_offers' = Insert(sync_offers, offer.header.fields.height,
                                         [offer |-> offer, frame |-> frame])
                /\ try_catchup([h \in DOMAIN sync_offers' |-> sync_offers'[h].offer])

\* ws::bootstrap: refuse offers that do not have the trusted header at its height.  The
\* others are persisted, whatever the replay says then, and the world is left to the caller.
bootstrap(checkpoint) ==
    LET offers == [h \in DOMAIN sync_offers |-> sync_offers[h].offer]
    IN  /\ checkpoint.height \in DOMAIN offers
        /\ hash_preimage(offers[checkpoint.height].header) = checkpoint.header_hash
        /\ headers_then_bodies(offers)
        /\ store' = wire_sync(store, offers)
        /\ UNCHANGED <<topics, published, sync_offers, node, adopted, held, heard, damage>>

----------------------------------------------------------------------------
(* Gossip.                                                                 *)

\* A frame cut off at the end, or with a symbol more.
Misframed(frame) == {SubSeq(frame, 1, Len(frame) - 1), Append(frame, 0)}

StrayFrames ==
    {OfferFrame(o) : o \in Stray} \cup UNION {Misframed(ChainFrames[h]) : h \in Heights}

\* What the validators sent about block 0, other than the offer, by kind.
TheTx == Bodies[1][1]
TheVote == LET v == [height |-> 0, round |-> 0, kind |-> 1,
                     block |-> Some(hash_preimage(CommittedHeader(0))),
                     signer |-> CHOOSE v \in Validators : TRUE, signature |-> 0]
           IN  [v EXCEPT !.signature = Signature(v.signer, VoteMessage(v))]
NilVote == LET v == [TheVote EXCEPT !.block = Absent]
           IN  [v EXCEPT !.signature = Signature(v.signer, VoteMessage(v))]
TheProposal == [height |-> 0, round |-> 0, header |-> CommittedHeader(0),
                app_hash |-> app_hash(WorldAt(1)), proposer |-> TheVote.signer,
                vrf_source |-> TheVote.signer, vrf_proof |-> 0,
                signature |-> Signature(TheVote.signer, proposal_message(CommittedHeader(0)))]

Sent == {<<"Tx", TheTx>>, <<"Header", CommittedHeader(0)>>, <<"Vote", TheVote>>,
         <<"Vote", NilVote>>, <<"Proposal", TheProposal>>}

\* A key signs what its owner sent, and nobody else signs with it: what is made by others
\* has a signature that was seen on the way, or one of their own.
MadeBy(key, signature) == signature = Signature(key, signature[3])
BlsSeen == {TheVote.signature, NilVote.signature, TheProposal.signature}

ASSUME ForgedAssumption ==
    \A m \in Forged :
        /\ m = <<m[1], m[2]>>
        /\ \/ /\ m[1] = "Tx" /\ IsSignedTx(m[2])
              /\ m[2].signature = TheTx.signature \/ MadeBy(Outsider, m[2].signature)
           \/ /\ m[1] = "Vote" /\ IsVote(m[2])
              /\ m[2].signature \in BlsSeen \/ MadeBy(Outsider, m[2].signature)
           \/ /\ m[1] = "Proposal" /\ IsProposal(m[2])
              /\ m[2].signature \in BlsSeen \/ MadeBy(Outsider, m[2].signature)
           \/ /\ m[1] = "Header" /\ IsHeader(m[2])

FrameOf(m) ==
    encode_frame(m[1], CASE m[1] = "Tx" -> encode_signed_tx(m[2])
                         [] m[1] = "Header" -> encode_header(m[2])
                         [] m[1] = "Vote" -> encode_vote(m[2])
                         [] m[1] = "Proposal" -> encode_proposal(m[2]))

Frames == {FrameOf(m) : m \in Sent \cup Forged} \cup UNION {Misframed(FrameOf(m)) : m \in Sent}

ChunkFrame(c) == encode_frame("DaChunk", encode_da_chunk(c))
BadChunks == {[c EXCEPT !.shard.index = (@ + 1) % Shards] : c \in Range(Published.proven)}
ChunkFrames == {ChunkFrame(c) : c \in Range(Published.proven) \cup BadChunks}

----------------------------------------------------------------------------
Init ==
    /\ topics \in Subscriptions
    /\ published = 0
    /\ sync_offers = <<>>
    /\ store = [blocks |-> <<>>, tip |-> Absent]
    /\ node = [world |-> <<>>, height |-> 0, last_hash |-> None, last_ts |-> 0]
    /\ adopted = <<>>
    /\ held = <<>>
    /\ heard = None
    /\ damage = 0

\* The validators commit the next block and keep offering it.
Publish ==
    /\ published < Len(Bodies)
    /\ published' = published + 1
    /\ UNCHANGED <<topics, sync_offers, store, node, adopted, held, heard, damage>>

DeliverOffer(h) ==
    /\ "Block" \in topics /\ h < published
    /\ handle_block(ChainFrames[h])
    /\ UNCHANGED <<topics, published, held, heard, damage>>

\* Any peer offers a block, of any height.
DeliverStray(frame) ==
    /\ "Block" \in topics /\ damage < MaxDamage
    /\ damage' = damage + 1
    /\ handle_block(frame)
    /\ UNCHANGED <<topics, published, held, heard>>

\* A message of another kind goes through its topic's gate.
Hear(frame) ==
    /\ topics \cap {"Tx", "Header", "Vote", "Proposal"} # {}
    /\ LET ingested == Then(decode_frame(frame), LAMBDA f :
                         {[kind |-> f.kind, message |-> m, frame |-> frame] :
                             m \in ingest(f.kind, f.inner)})
       IN  IF ingested = Err THEN heard' = None ELSE heard' \in ingested
    /\ UNCHANGED <<topics, published, sync_offers, store, node, adopted, held, damage>>

\* A chunk of block 0, kept under its index.
HearChunk(frame) ==
    /\ "DaChunk" \in topics /\ published > 0
    /\ \E f \in decode_frame(frame) : \E c \in ingest(f.kind, f.inner) :
          held' = Put(held, c.shard.index, c)
    /\ UNCHANGED <<topics, published, sync_offers, store, node, adopted, heard, damage>>

Next ==
    \/ Publish
    \/ \E h \in Heights : DeliverOffer(h)
    \/ \E f \in StrayFrames : DeliverStray(f)
    \/ \E h \in Heights : bootstrap([height |-> h, header_hash |-> hash_preimage(Chain[h].header)])
    \/ \E f \in Frames : Hear(f)
    \/ \E f \in ChunkFrames : HearChunk(f)

\* Validators publish what they committed again and again, so every offer keeps arriving.
Spec == Init /\ [][Next]_vars /\ \A h \in Heights : WF_vars(DeliverOffer(h))

----------------------------------------------------------------------------
(* Properties.                                                             *)

\* Whatever offers try_catchup was called with, the node's world is the replay of a
\* run of offers from height 0, each with a body and receipts that belong to its
\* header and with the app hash the replay came to, and its tip is the last of them.
\* It is not in the committed state only if one of them has another block than the
\* committed one under another app hash.
FollowerFollows ==
    LET n == node.height
    IN  /\ DOMAIN adopted = 0..(n - 1)
        /\ node.world = Replayed(adopted, n)
        /\ \A h \in 0..(n - 1) :
              /\ adopted[h].header.fields.height = h
              /\ ingest_block(adopted[h].header, adopted[h].block, adopted[h].receipts)
              /\ app_hash(Replayed(adopted, h + 1)) = adopted[h].app_hash
        /\ n > 0 => /\ node.last_hash = hash_preimage(adopted[n - 1].header)
                    /\ node.last_ts = adopted[n - 1].header.fields.timestamp_ms
        /\ (\A h \in 0..(n - 1) :
                /\ h \in Heights
                /\ adopted[h].block = BlockAt(h) \/ adopted[h].app_hash = Chain[h].app_hash)
              => node.world = WorldAt(n)

\* Catch-up needs every offer from height 0 (main.rs try_catchup): offers that come
\* late, or others that took their place, hold it up and do not stop it, unless one
\* is for a height that was not published.
CatchesUp ==
    \A n \in 1..Len(Bodies) :
        "Block" \in topics /\ published = n
          ~> \/ node.height \in n..Len(Bodies) /\ node.world = WorldAt(node.height)
             \/ \E h \in DOMAIN sync_offers : h >= published

\* What passes a topic's gate has the canonical frame.  A transaction under the
\* sender's key and a vote are what was sent; a proposal has what its signature
\* covers, the header with its height and round, from the validator that signed it
\* (its app_hash, vrf_source and vrf_proof may be another's), and any header passes.
HeardIntact ==
    /\ heard # None =>
          LET m == heard.message
          IN  /\ heard.frame = FrameOf(<<heard.kind, m>>)
              /\ heard.kind = "Tx" => m = TheTx \/ m.public_key = Outsider
              /\ heard.kind = "Vote" => m \in {TheVote, NilVote}
              /\ heard.kind = "Proposal" =>
                    /\ m.proposer = TheProposal.proposer /\ m.header = TheProposal.header
                    /\ m.height = TheProposal.height /\ m.round = TheProposal.round
    /\ \A h \in DOMAIN sync_offers : OfferFrame(sync_offers[h].offer) = sync_offers[h].frame

\* Any k of the chunks let in rebuild the body of the block and fewer do not, and
\* sampling (das::fail_closed) is passed exactly if all sampled chunks are there.
ChunksRebuild ==
    /\ \A S \in SUBSET DOMAIN held :
          LET slots == [i \in 1..Shards |-> IF (i - 1) \in S THEN Some(held[i - 1].shard.payload)
                                            ELSE Absent]
          IN  reconstruct(slots) = IF Cardinality(S) >= DATA_SHARDS THEN Ok(BlockAt(0)) ELSE Err
    /\ \A q \in kSubset(SAMPLE_COUNT, 0..(Shards - 1)) :
          fail_closed(sample(Published.root, held, q)) <=> q \subseteq DOMAIN held
=============================================================================
