------------------------------ MODULE Mempool ------------------------------
(***************************************************************************)
(* The mempool of one node (the `mempool` crate), the block builder that   *)
(* empties it and the account nonces of the chain it follows.              *)
(*                                                                         *)
(* A transaction is its sender, nonce, fee priority and size.  The size    *)
(* stands for its encoded bytes and for its gas: pool and block bound sums *)
(* of them.  Only transactions that pass the checks on signature, gas and  *)
(* balance are offered; the checks on the nonce are in the model.          *)
(***************************************************************************)
EXTENDS Sums, Sequences

CONSTANTS
    Accounts,       \* addresses, as numbers because ties are broken by address
    MaxNonce,       \* bound: nonces 0 .. MaxNonce are explored
    Prios,          \* fee_priority of transactions
    Sizes,          \* encoded size of transactions
    MaxTxs,         \* MEMPOOL_MAX_TXS
    MaxBytes,       \* MAX_BLOCK_BYTES as the cap of the pool
    BlockCap,       \* genesis.params MaxGas and MaxBlockBytes
    MayGossip,      \* whether the pool may be fed by wire_mempool
    None

ASSUME PoolAssumption ==
    /\ Accounts \subseteq Nat /\ IsFiniteSet(Accounts)
    /\ MaxNonce \in Nat
    /\ Prios \subseteq Nat /\ Sizes \subseteq Nat
    /\ MaxTxs \in Nat /\ MaxBytes \in Nat /\ BlockCap \in Nat
    /\ MayGossip \in BOOLEAN

Nonces == 0 .. MaxNonce
Tx == [from : Accounts, nonce : Nonces, prio : Prios, size : Sizes]

ASSUME NoneAssumption == None \notin Seq(Tx)

VARIABLES
    queued,         \* the transactions in the pool, one per sender and nonce
    account_nonce,  \* the nonce of each account as the pool last observed it
    chain,          \* the nonce of each account in the world
    block,          \* the transactions of the block being proposed, or None
    gossip          \* fed by gossip (admit_preverified) or by Mempool::insert

vars == <<queued, account_nonce, chain, block, gossip>>

byte_size(held) == MapThenSumSet(LAMBDA t : t.size, held)

SameSlot(t, u) == t.from = u.from /\ t.nonce = u.nonce

----------------------------------------------------------------------------
(* Mempool::insert.                                                        *)

\* observe_account drops what is below the account's nonce.
Observed(held, a) == {t \in held : t.from = a => t.nonce >= chain[a]}

rbf_allowed(old, new) ==
    IF old.prio = 0 THEN new.prio > 0 ELSE 10 * new.prio >= 11 * old.prio

\* Mutant: the cap is checked before the transaction is counted.
HasRoomLate(held, tx) ==
    Cardinality(held) <= MaxTxs /\ byte_size(held) + tx.size <= MaxBytes

HasRoom(held, tx) ==
    Cardinality(held) < MaxTxs /\ byte_size(held) + tx.size <= MaxBytes

\* Mutant: the dearest transaction is evicted first.
EvictedDearest(t, u) ==
    t.prio > u.prio \/ (t.prio = u.prio /\ t.from < u.from)

\* lowest_priority: the order in which transactions are evicted.
EvictedBefore(t, u) ==
    \/ t.prio < u.prio
    \/ t.prio = u.prio /\ t.from < u.from
    \/ t.prio = u.prio /\ t.from = u.from /\ t.nonce < u.nonce

\* ensure_room: evict one after the other until there is room, or the next one is
\* not below the incoming transaction.  What was evicted stays evicted.
ensure_room(held, tx) ==
    LET Evicted(t) == Cardinality({u \in held : EvictedBefore(u, t)})
        Rest(k) == {t \in held : Evicted(t) >= k}
        Stops(k) == HasRoom(Rest(k), tx) \/ \A t \in Rest(k) : t.prio >= tx.prio
    IN  Rest(Min({k \in 0 .. Cardinality(held) : Stops(k)}))

\* The pool after tx, which the account's state allows, was offered to it.
Inserted(held, tx) ==
    LET seen == Observed(held, tx.from)
        old == {t \in seen : SameSlot(t, tx)}
        room == ensure_room(seen, tx)
    IN  IF old # {}
        THEN IF \A t \in old : rbf_allowed(t, tx) THEN (seen \ old) \cup {tx} ELSE seen
        ELSE IF HasRoom(room, tx) THEN room \cup {tx} ELSE room

----------------------------------------------------------------------------
(* take_ready.                                                             *)

Ready(s) ==
    {t \in s.pool : t.nonce = s.local[t.from] /\ t \notin s.skip}

\* Mutant: ready transactions are taken by address alone.
BestByAddress(S) == CHOOSE t \in S : \A u \in S : t.from <= u.from

\* peek_best_ready: the highest priority, ties by address.  An account has one
\* ready transaction at a time.
Best(S) ==
    CHOOSE t \in S : \A u \in S : t.prio > u.prio \/ (t.prio = u.prio /\ t.from <= u.from)

\* Mutant: the first transaction that does not fit ends the block.
TakeOrStop(s) ==
    IF Ready(s) = {} THEN s
    ELSE LET t == Best(Ready(s)) IN
         IF s.used + t.size > BlockCap
         THEN [s EXCEPT !.skip = s.pool]
         ELSE [s EXCEPT !.pool = @ \ {t},
                        !.local[t.from] = t.nonce + 1,
                        !.used = @ + t.size,
                        !.out = Append(@, t)]

\* One turn of the loop: what does not fit is skipped for good, what fits is taken
\* and makes the sender's next nonce ready.
Take(s) ==
    IF Ready(s) = {} THEN s
    ELSE LET t == Best(Ready(s)) IN
         IF s.used + t.size > BlockCap
         THEN [s EXCEPT !.skip = @ \cup {t}]
         ELSE [s EXCEPT !.pool = @ \ {t},
                        !.local[t.from] = t.nonce + 1,
                        !.used = @ + t.size,
                        !.out = Append(@, t)]

\* Every turn takes or skips one transaction, so the pool bounds the turns.
take_ready(held) ==
    LET turn[n \in 0 .. Cardinality(held)] ==
            IF n = 0 THEN [pool |-> held, local |-> account_nonce, skip |-> {}, used |-> 0,
                           out |-> <<>>]
            ELSE Take(turn[n - 1])
    IN  turn[Cardinality(held)]

----------------------------------------------------------------------------
(* The specification.                                                      *)

Init ==
    /\ queued = {}
    /\ account_nonce = [a \in Accounts |-> 0]
    /\ chain = [a \in Accounts |-> 0]
    /\ block = None
    /\ gossip \in {FALSE, MayGossip}

\* verify rejects a nonce below the account's before anything is changed.
insert(tx) ==
    /\ ~gossip
    /\ tx.nonce >= chain[tx.from]
    /\ queued' = Inserted(queued, tx)
    /\ account_nonce' = [account_nonce EXCEPT ![tx.from] = chain[tx.from]]
    /\ UNCHANGED <<chain, block, gossip>>

\* Gossip and RPC: verify, then replace whatever has the slot.  The account's nonce
\* is not observed.
wire_mempool(tx) ==
    /\ gossip
    /\ tx.nonce >= chain[tx.from]
    /\ queued' = {t \in queued : ~SameSlot(t, tx)} \cup {tx}
    /\ UNCHANGED <<account_nonce, chain, block, gossip>>

\* The leader builds its block; what is taken leaves the pool.
build_local ==
    LET taken == take_ready(queued) IN
    /\ block = None
    /\ queued' = taken.pool
    /\ block' = taken.out
    /\ UNCHANGED <<account_nonce, chain, gossip>>

\* The block is committed.  Of an account's transactions those are executed that
\* match its nonce in turn, until one of them fails on the balance.
RunOf(a) == {n \in Nonces : \A k \in chain[a] .. n :
                 \E i \in DOMAIN block : block[i].from = a /\ block[i].nonce = k}

apply_block ==
    /\ block # None
    /\ \E upto \in [Accounts -> 0 .. MaxNonce + 1] :
           /\ \A a \in Accounts : upto[a] >= chain[a] /\ chain[a] .. upto[a] - 1 \subseteq RunOf(a)
           /\ chain' = upto
    /\ block' = None
    /\ UNCHANGED <<queued, account_nonce, gossip>>

\* The proposal is never committed (a restart, another block wins the height).
Abandon ==
    /\ block # None
    /\ block' = None
    /\ UNCHANGED <<queued, account_nonce, chain, gossip>>

\* Another leader's block, committed when this node has none under way, executes a
\* transaction of the account.
OtherBlock(a) ==
    /\ block = None
    /\ chain[a] <= MaxNonce
    /\ chain' = [chain EXCEPT ![a] = @ + 1]
    /\ UNCHANGED <<queued, account_nonce, block, gossip>>

Next ==
    \/ \E tx \in Tx : insert(tx) \/ wire_mempool(tx)
    \/ build_local
    \/ apply_block
    \/ Abandon
    \/ \E a \in Accounts : OtherBlock(a)

Spec == Init /\ [][Next]_vars

----------------------------------------------------------------------------
(* Properties.                                                             *)

\* One transaction per sender and nonce; the pool's view of a nonce is never ahead
\* of the chain.
PoolTypeOK ==
    /\ queued \subseteq Tx
    /\ \A t, u \in queued : SameSlot(t, u) => t = u
    /\ account_nonce \in [Accounts -> 0 .. MaxNonce + 1]
    /\ chain \in [Accounts -> 0 .. MaxNonce + 1]
    /\ \A a \in Accounts : account_nonce[a] <= chain[a]
    /\ block \in Seq(Tx) \cup {None}
    /\ gossip \in BOOLEAN

\* A pool fed by insert never holds more transactions than its cap, however
\* evictions, replacements, stale drops and blocks follow each other (limits.rs).
WithinCount == ~gossip => Cardinality(queued) <= MaxTxs

\* Whatever leaves the pool was taken for a block, is below the account's nonce, gave
\* way in its slot, or was evicted and then nothing cheaper stays (limits.rs,
\* "evict that lowest tx").
EvictsLowest ==
    [][~gossip =>
        \A t \in queued \ queued' :
            \/ block' # block
            \/ t.nonce < chain[t.from]
            \/ \E u \in queued' : SameSlot(t, u) /\ rbf_allowed(t, u)
            \/ \A u \in queued \cap queued' : u.prio >= t.prio]_vars

Used(txs) == SumOf([i \in DOMAIN txs |-> txs[i].size], DOMAIN txs)

\* How far the first n transactions take the nonce of an account.
NextNonce(a, txs, n) == account_nonce[a] + Cardinality({i \in 1 .. n : txs[i].from = a})

\* A new block fits, takes each account's nonces in order without a gap from where
\* the pool believes the account is, and is full: the next transaction of an account
\* that stays behind would not fit (builder.rs, ReadyTxs: "already nonce-ordered").
BuildsFullBlocks ==
    [][block = None /\ block' # None =>
        /\ Used(block') <= BlockCap
        /\ \A i \in DOMAIN block' : block'[i].nonce = NextNonce(block'[i].from, block', i - 1)
        /\ \A t \in queued' :
               t.nonce = NextNonce(t.from, block', Len(block'))
                   => Used(block') + t.size > BlockCap]_vars

\* A transaction that comes before another one in a new block has the higher
\* priority, unless the other one was not ready yet: an earlier nonce of its sender
\* is in between (order.rs).
BuildsByFee ==
    [][block = None /\ block' # None =>
        \A j \in DOMAIN block' : \A i \in 1 .. j - 1 :
            \/ block'[i].prio > block'[j].prio
            \/ block'[i].prio = block'[j].prio /\ block'[i].from <= block'[j].from
            \/ \E k \in i .. j - 1 : block'[k].from = block'[j].from]_vars
=============================================================================
