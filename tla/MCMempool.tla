----------------------------- MODULE MCMempool -----------------------------
(* Instances of Mempool for TLC. *)
EXTENDS Mempool

\* Of a block that was built the future only depends on which nonces it has.
Slots == IF block = None THEN {None}
         ELSE {<<block[i].from, block[i].nonce>> : i \in DOMAIN block}

View == <<queued, account_nonce, chain, Slots, gossip>>
=============================================================================
