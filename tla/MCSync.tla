------------------------------- MODULE MCSync -------------------------------
(* Three blocks: a transfer and a bond, a withdrawal, a deployment and a call. *)
EXTENDS Sync

\* Chain 1, gas limit 2, maximum fee 3.
MCEnvelope(nonce) == <<1, nonce, 2, 3>>

MCBodies ==
    <<<<SignedTx(8, transfer(MCEnvelope(0), 9, 5)),
        SignedTx(9, stake(MCEnvelope(0), "Bond", 1, 5))>>,
      <<SignedTx(9, stake_withdraw(MCEnvelope(1), 5))>>,
      <<SignedTx(8, deploy(MCEnvelope(1), <<7, 7>>)),
        SignedTx(8, call_contract(MCEnvelope(2), 6, <<4>>))>>>>

MCSubscriptions == {{"Block"}, {"DaChunk"}, {"Tx", "Header", "Vote", "Proposal"}}

----------------------------------------------------------------------------
\* Offers with something else under a committed header.
MCDamaged(h) ==
    {[Chain[h] EXCEPT !.app_hash = app_hash(<<>>)],
     [Chain[h] EXCEPT !.block.txs = SubSeq(@, 2, Len(@))],
     [Chain[h] EXCEPT !.receipts = Append(@, receipt_encode(
         [success |-> 0, gas_used |-> 0, reason |-> 1, events |-> <<>>]))]}

\* A peer's own block on a world, with a header and an app hash that go with it.
MCOwn(h, world, txs) ==
    LET block == [header_fields |-> [FieldsAt(h) EXCEPT !.proposer = "q"], txs |-> txs]
        receipts == [i \in 1..Len(txs) |-> ReceiptOf(txs[i])]
        after == app_hash(apply_block(world, block))
    IN  [header |-> [fields |-> block.header_fields,
                     tx_root |-> tx_root([i \in 1..Len(txs) |-> txs[i].tx]),
                     state_root |-> after, receipts_root |-> receipts_root(receipts),
                     validators_hash |-> Validators, da_root |-> 0],
         block |-> block, receipts |-> receipts, app_hash |-> after]

MCOwnTxs == <<SignedTx(Outsider, transfer(MCEnvelope(0), Outsider, 5))>>

\* A chain of its own, a block on the committed chain, and one above it.
MCStray ==
    UNION {MCDamaged(h) : h \in Heights}
      \cup {MCOwn(0, <<>>, MCOwnTxs), MCOwn(1, apply_block(<<>>, [txs |-> MCOwnTxs]), <<>>),
            MCOwn(1, WorldAt(1), MCOwnTxs), MCOwn(3, WorldAt(3), <<>>)}

----------------------------------------------------------------------------
\* Any of the fields of a message replaced by the ones of another.
MCMixed(m, other) ==
    {[f \in DOMAIN m |-> IF f \in S THEN other[f] ELSE m[f]] : S \in SUBSET DOMAIN m}

MCHeader == [fields |-> FieldsAt(1), tx_root |-> tx_root(<<>>), state_root |-> app_hash(<<>>),
             receipts_root |-> receipts_root(<<>>), validators_hash |-> {Outsider}, da_root |-> 1]

MCForged ==
    {<<"Tx", s>> : s \in MCMixed(TheTx, MCOwnTxs[1])}
      \cup {<<"Tx", [TheTx EXCEPT !.tx.max_fee = @ + 1]>>}
      \cup UNION {{<<"Vote", v>> : v \in
              MCMixed(TheVote, [height |-> 1, round |-> 1, kind |-> 0, block |-> Absent,
                                signer |-> Outsider, signature |-> g])} :
              g \in {NilVote.signature, TheProposal.signature,
                     Signature(Outsider, VoteMessage(TheVote))}}
      \cup {<<"Header", h>> : h \in MCMixed(CommittedHeader(0), MCHeader)}
      \cup {<<"Proposal", p>> : p \in
              MCMixed(TheProposal, [height |-> 1, round |-> 0, header |-> MCHeader,
                                    app_hash |-> app_hash(<<>>), proposer |-> Outsider,
                                    vrf_source |-> Outsider, vrf_proof |-> 1,
                                    signature |-> Signature(Outsider, proposal_message(MCHeader))])}
=============================================================================
