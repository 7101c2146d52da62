------------------------------- MODULE Codec -------------------------------
(***************************************************************************)
(* The canonical codec and what is sent and stored with it: transactions,  *)
(* headers, bodies, votes, proposals, body offers, chunks and the gossip   *)
(* frame around them.  A fixed-width field is one symbol of a byte string, *)
(* a u32 length is the number of symbols that follow.  A decoder gives     *)
(* Ok(value), or Err for any of its errors.                                *)
(***************************************************************************)
EXTENDS SequencesExt, Merkle

\* Result<T, E>: a set of one value or none.  Then is `?`: an error ends the decoder.
Ok(x) == {x}
Err == {}
Then(result, Op(_)) == UNION {Op(x) : x \in result}

----------------------------------------------------------------------------
(* types::encoding: version, length, payload.                              *)

CODEC_VERSION == 1

encode(payload) == <<CODEC_VERSION, Len(payload)>> \o payload

\* Mutant: bytes after the payload are let through.
decode_loose(buf) ==
    IF Len(buf) < 2 \/ buf[1] # CODEC_VERSION \/ Len(buf) < buf[2] + 2 THEN Err
    ELSE Ok(SubSeq(buf, 3, buf[2] + 2))

decode(buf) ==
    IF Len(buf) < 2 \/ buf[1] # CODEC_VERSION \/ Len(buf) # buf[2] + 2 THEN Err
    ELSE Ok(SubSeq(buf, 3, Len(buf)))

\* A length, then that many symbols; lists repeat it.
prefixed(bytes) == <<Len(bytes)>> \o bytes
prefixed_all(list) == FlattenSeq([i \in 1..Len(list) |-> prefixed(list[i])])

\* The next prefixed string from position i: the string and what follows it.
take(p, i) ==
    IF i > Len(p) \/ i + p[i] > Len(p) THEN Err
    ELSE Ok([item |-> SubSeq(p, i + 1, i + p[i]), next |-> i + p[i] + 1])

\* n of them one after the other.
take_all(p, i, n) ==
    LET upto[k \in 0..n] ==
          IF k = 0 THEN Ok([items |-> <<>>, next |-> i])
          ELSE Then(upto[k - 1], LAMBDA got :
                 Then(take(p, got.next), LAMBDA one :
                   Ok([items |-> Append(got.items, one.item), next |-> one.next])))
    IN  upto[n]

\* Each of a list decoded, or an error if one of them is.
DecodeEach(items, Dec(_)) ==
    Then(Ok([i \in DOMAIN items |-> Dec(items[i])]), LAMBDA results :
      IF \E i \in DOMAIN items : results[i] = Err THEN Err
      ELSE Ok([i \in DOMAIN items |-> CHOOSE x \in results[i] : TRUE]))

----------------------------------------------------------------------------
(* Transactions.                                                           *)

\* Tx: the fields of the envelope before the payload, then the payload.
Tx(envelope, payload) ==
    [chain_id |-> envelope[1], nonce |-> envelope[2], gas_limit |-> envelope[3],
     max_fee |-> envelope[4], payload |-> payload]

\* The payload variants by tag: transfer 0, staking 1 to 4, withdraw 5, deploy 6, call 7.
transfer(envelope, to, amount) == Tx(envelope, [tag |-> 0, to |-> to, amount |-> amount])

StakeKind == [Bond |-> 1, Unbond |-> 2, Delegate |-> 3, Undelegate |-> 4, Withdraw |-> 5]

stake(envelope, kind, validator, amount) ==
    Tx(envelope, [tag |-> StakeKind[kind], validator |-> validator, amount |-> amount])

stake_withdraw(envelope, amount) == Tx(envelope, [tag |-> StakeKind.Withdraw, amount |-> amount])

deploy(envelope, code) == Tx(envelope, [tag |-> 6, code |-> code])

call_contract(envelope, to, data) == Tx(envelope, [tag |-> 7, to |-> to, data |-> data])

\* The struct and the enum behind them.
IsPayload(p) ==
    \/ p.tag = 0 /\ p = [tag |-> 0, to |-> p.to, amount |-> p.amount]
    \/ p.tag \in 1..4 /\ p = [tag |-> p.tag, validator |-> p.validator, amount |-> p.amount]
    \/ p.tag = 5 /\ p = [tag |-> 5, amount |-> p.amount]
    \/ p.tag = 6 /\ p = [tag |-> 6, code |-> p.code] /\ IsSeq(p.code)
    \/ p.tag = 7 /\ p = [tag |-> 7, to |-> p.to, data |-> p.data] /\ IsSeq(p.data)

IsTx(tx) ==
    /\ tx = [chain_id |-> tx.chain_id, nonce |-> tx.nonce, gas_limit |-> tx.gas_limit,
             max_fee |-> tx.max_fee, payload |-> tx.payload]
    /\ tx.max_fee \in Nat
    /\ IsPayload(tx.payload)

IsSignedTx(s) ==
    /\ s = [tx |-> s.tx, signature |-> s.signature, public_key |-> s.public_key]
    /\ IsTx(s.tx)

Variant(p) ==
    CASE p.tag = 0 -> <<p.to, p.amount>>
      [] p.tag \in 1..4 -> <<p.validator, p.amount>>
      [] p.tag = 5 -> <<p.amount>>
      [] p.tag = 6 -> prefixed(p.code)
      [] p.tag = 7 -> <<p.to>> \o prefixed(p.data)

payload_bytes(tx) ==
    <<tx.chain_id, tx.nonce, tx.gas_limit, tx.max_fee, tx.payload.tag>> \o Variant(tx.payload)

tx_encode(tx) == encode(payload_bytes(tx))

\* The variant with a tag in the symbols after the tag, all of which it has to use.
DecodeVariant(tag, v) ==
    CASE tag = 0 /\ Len(v) = 2 -> Ok([tag |-> 0, to |-> v[1], amount |-> v[2]])
      [] tag \in 1..4 /\ Len(v) = 2 -> Ok([tag |-> tag, validator |-> v[1], amount |-> v[2]])
      [] tag = 5 /\ Len(v) = 1 -> Ok([tag |-> 5, amount |-> v[1]])
      [] tag = 6 /\ Len(v) >= 1 /\ Len(v) = 1 + v[1] -> Ok([tag |-> 6, code |-> Tail(v)])
      [] tag = 7 /\ Len(v) >= 2 /\ Len(v) = 2 + v[2] ->
            Ok([tag |-> 7, to |-> v[1], data |-> SubSeq(v, 3, Len(v))])
      [] OTHER -> Err

tx_decode(buf) ==
    Then(decode(buf), LAMBDA raw :
      IF Len(raw) < 5 THEN Err
      ELSE Then(DecodeVariant(raw[5], SubSeq(raw, 6, Len(raw))), LAMBDA payload :
             Ok([chain_id |-> raw[1], nonce |-> raw[2], gas_limit |-> raw[3],
                   max_fee |-> raw[4], payload |-> payload])))

encode_signed_tx(s) ==
    encode(prefixed(tx_encode(s.tx)) \o <<s.signature, s.public_key>>)

decode_signed_tx(buf) ==
    Then(decode(buf), LAMBDA p :
      IF Len(p) < 3 \/ Len(p) # 3 + p[1] THEN Err
      ELSE Then(tx_decode(SubSeq(p, 2, 1 + p[1])), LAMBDA tx :
             Ok([tx |-> tx, signature |-> p[Len(p) - 1], public_key |-> p[Len(p)]])))

\* The hash of the envelope, which has neither the signature nor the key in it.
tx_hash(tx) == tx_encode(tx)

----------------------------------------------------------------------------
(* Headers, bodies, receipts.                                              *)

IsFields(f) ==
    f = [height |-> f.height, round |-> f.round, proposer |-> f.proposer,
         timestamp_ms |-> f.timestamp_ms]

IsHeader(h) ==
    /\ h = [fields |-> h.fields, tx_root |-> h.tx_root, state_root |-> h.state_root,
            receipts_root |-> h.receipts_root, validators_hash |-> h.validators_hash,
            da_root |-> h.da_root]
    /\ IsFields(h.fields)

IsBlock(b) ==
    /\ b = [header_fields |-> b.header_fields, txs |-> b.txs]
    /\ IsFields(b.header_fields)
    /\ IsSeq(b.txs) /\ \A i \in 1..Len(b.txs) : IsSignedTx(b.txs[i])

field_bytes(f) == <<f.height, f.round, f.proposer, f.timestamp_ms>>
fields_of(p) == [height |-> p[1], round |-> p[2], proposer |-> p[3], timestamp_ms |-> p[4]]

\* What Header::hash hashes; the hash is ideal, so it is the hash too.
hash_preimage(h) ==
    field_bytes(h.fields)
      \o <<h.tx_root, h.state_root, h.receipts_root, h.validators_hash, h.da_root>>

header_from_preimage(p) ==
    IF Len(p) # 9 THEN Err
    ELSE Ok([fields |-> fields_of(p), tx_root |-> p[5], state_root |-> p[6],
               receipts_root |-> p[7], validators_hash |-> p[8], da_root |-> p[9]])

encode_block_body(block) ==
    encode(field_bytes(block.header_fields) \o <<Len(block.txs)>>
             \o prefixed_all([i \in 1..Len(block.txs) |-> encode_signed_tx(block.txs[i])]))

decode_block_body(buf) ==
    Then(decode(buf), LAMBDA p :
      IF Len(p) < 5 THEN Err
      ELSE Then(take_all(p, 6, p[5]), LAMBDA raw :
             IF raw.next # Len(p) + 1 THEN Err
             ELSE Then(DecodeEach(raw.items, decode_signed_tx), LAMBDA txs :
                    Ok([header_fields |-> fields_of(p), txs |-> txs]))))

\* Receipt::encode, with the events as they are tagged and laid out.
EventBytes(e) ==
    CASE e.kind = "Transfer" -> <<0, e.from, e.to, e.amount>>
      [] e.kind = "Stake" -> <<1, e.from, e.amount>>
      [] e.kind = "Wasm" -> <<2, e.from, e.contract>>

receipt_encode(r) ==
    encode(<<r.success, r.gas_used, r.reason, Len(r.events)>>
             \o FlattenSeq([i \in 1..Len(r.events) |-> EventBytes(r.events[i])]))

tx_root(txs) == compute_root([i \in 1..Len(txs) |-> tx_encode(txs[i])])
receipts_root(receipts) == compute_root(receipts)

----------------------------------------------------------------------------
(* What is gossiped.                                                       *)

IsVote(v) ==
    /\ v = [signer |-> v.signer, height |-> v.height, round |-> v.round, kind |-> v.kind,
            block |-> v.block, signature |-> v.signature]
    /\ v.kind \in {0, 1}
    /\ v.block = Absent \/ v.block = Some(v.block[1])

IsProposal(p) ==
    /\ p = [height |-> p.height, round |-> p.round, header |-> p.header,
            app_hash |-> p.app_hash, proposer |-> p.proposer, vrf_source |-> p.vrf_source,
            vrf_proof |-> p.vrf_proof, signature |-> p.signature]
    /\ IsHeader(p.header)

Strings(list) == IsSeq(list) /\ \A i \in 1..Len(list) : IsSeq(list[i])

IsOffer(o) ==
    /\ o = [header |-> o.header, block |-> o.block, receipts |-> o.receipts,
            app_hash |-> o.app_hash]
    /\ IsHeader(o.header) /\ IsBlock(o.block) /\ Strings(o.receipts)

Kinds == [Tx |-> 1, Proposal |-> 2, Vote |-> 3, Block |-> 4, Evidence |-> 5,
          Header |-> 6, DaChunk |-> 7]

encode_frame(kind, inner) == encode(<<Kinds[kind]>> \o inner)

decode_frame(buf) ==
    Then(decode(buf), LAMBDA p :
      IF p = <<>> \/ p[1] \notin 1..7 THEN Err
      ELSE Ok([kind |-> CHOOSE k \in DOMAIN Kinds : Kinds[k] = p[1], inner |-> Tail(p)]))

\* A vote for nil is shorter by the block hash.
encode_vote(v) ==
    encode(<<v.signer, v.height, v.round, v.kind>>
             \o (IF v.block = Absent THEN <<0>> ELSE <<1, v.block[1]>>) \o <<v.signature>>)

decode_vote(buf) ==
    Then(decode(buf), LAMBDA p :
      IF Len(p) < 6 \/ p[4] \notin {0, 1} \/ p[5] \notin {0, 1} \/ Len(p) # 6 + p[5] THEN Err
      ELSE Ok([signer |-> p[1], height |-> p[2], round |-> p[3], kind |-> p[4],
                 block |-> IF p[5] = 0 THEN Absent ELSE Some(p[6]),
                 signature |-> p[Len(p)]]))

encode_proposal(p) ==
    encode(<<p.height, p.round>> \o prefixed(hash_preimage(p.header))
             \o <<p.app_hash, p.proposer, p.vrf_source, p.vrf_proof, p.signature>>)

decode_proposal(buf) ==
    Then(decode(buf), LAMBDA p :
      IF Len(p) < 3 \/ Len(p) # 8 + p[3] THEN Err
      ELSE Then(header_from_preimage(SubSeq(p, 4, 3 + p[3])), LAMBDA header :
             LET n == Len(p)
             IN  Ok([height |-> p[1], round |-> p[2], header |-> header,
                       app_hash |-> p[n - 4], proposer |-> p[n - 3], vrf_source |-> p[n - 2],
                       vrf_proof |-> p[n - 1], signature |-> p[n]])))

encode_header(header) == encode(hash_preimage(header))
decode_header(buf) == Then(decode(buf), header_from_preimage)

encode_da_chunk(c) ==
    encode(<<c.shard.index>> \o prefixed(c.shard.payload) \o <<c.proof.leaf_index>>
             \o prefixed(c.proof.siblings))

decode_da_chunk(buf) ==
    Then(decode(buf), LAMBDA p :
      IF Len(p) < 2 \/ 2 + p[2] + 2 > Len(p) THEN Err
      ELSE LET i == 3 + p[2]
           IN  IF i + 1 + p[i + 1] # Len(p) THEN Err
               ELSE Ok([shard |-> [index |-> p[1], payload |-> SubSeq(p, 3, i - 1)],
                          proof |-> [leaf_index |-> p[i], siblings |-> SubSeq(p, i + 2, Len(p))]]))

\* The payload of a Block frame: header, body, app hash, receipts.
encode_body_offer(o) ==
    prefixed(hash_preimage(o.header)) \o prefixed(encode_block_body(o.block))
      \o <<o.app_hash, Len(o.receipts)>> \o prefixed_all(o.receipts)

decode_body_offer(inner) ==
    Then(take(inner, 1), LAMBDA pre :
      Then(header_from_preimage(pre.item), LAMBDA header :
        Then(take(inner, pre.next), LAMBDA body :
          Then(decode_block_body(body.item), LAMBDA block :
            IF body.next + 1 > Len(inner) THEN Err
            ELSE Then(take_all(inner, body.next + 2, inner[body.next + 1]), LAMBDA rest :
                   IF rest.next # Len(inner) + 1 THEN Err
                   ELSE Ok([header |-> header, block |-> block, app_hash |-> inner[body.next],
                              receipts |-> rest.items]))))))
=============================================================================
