------------------------------ MODULE Services ------------------------------
(***************************************************************************)
(* What clients see of a node: JSON-RPC over the shared chain view, the    *)
(* subscriptions, the SDK's wait for finality, and the faucet with its     *)
(* rate limits.  Every request holds the server's lock from decoding to    *)
(* the reply; replies and requests over HTTP may be lost or late.  Blocks  *)
(* are committed the way the end-to-end test of the SDK does it.           *)
(*                                                                         *)
(* A signed transfer is its sender, nonce and receiver.  Its hash covers   *)
(* the envelope alone, so equal transfers of two senders share it.         *)
(***************************************************************************)
EXTENDS Sums, Sequences, Functions, Maps

CONSTANTS
    Client, Faucet,         \* the two funded accounts
    Recipients, IPs,
    MAX_BLOCK_BYTES, MAX_TX_BYTES, MEMPOOL_MAX_TXS,
    max_per_window, window, \* the faucet's limits
    wait_timeout,           \* how long the SDK polls
    retain,                 \* bodies kept by pruning
    MaxTime, MaxBlocks, MaxSubs, MaxDrips,  \* bounds of the exploration
    ClientSets,             \* sets of clients that are explored together: those of
                            \* gated_faucet, http_faucet (one process is one of them),
                            \* sdk, subscriber
    Nothing

ASSUME ServicesAssumption ==
    /\ {max_per_window, window, wait_timeout, MaxTime, MaxBlocks, MaxSubs, MaxDrips} \subseteq Nat
    /\ {MAX_BLOCK_BYTES, MAX_TX_BYTES, MEMPOOL_MAX_TXS, retain} \subseteq Nat \ {0}
    /\ Client # Faucet
    /\ \A c \in ClientSets : ~({"gated_faucet", "http_faucet"} \subseteq c)

\* A signed transfer of one of the two accounts.
Payers == {Client, Faucet}
Transfers == [from : Payers, tx : [nonce : Nat, to : Recipients]]

ASSUME NothingAssumption == Nothing \notin Nat \cup {"ok"} /\ Nothing \notin Transfers

VARIABLES
    \* RpcInner
    pool,           \* transfers queued, one per sender and nonce
    nonces,         \* nonce of each account in the world
    bodies,         \* height -> transfers of the block, while not pruned
    tx_index,       \* hash -> height and position
    receipts,       \* hash -> receipt, here the position it is for
    last_finalized, \* height of the last block, or Nothing
    msgs,           \* what the rate limiter counted for the node's own id
    subs,           \* subscription id -> active, mailbox
    \* clients
    clients,        \* who uses the node
    next_nonce, hits,
    call,           \* the drip that waits for its HTTP reply, or Nothing
    in_flight,      \* requests that have not reached the server
    waiter,         \* the SDK's wait: its state or outcome, and since when
    clock,
    granted         \* history: the drips that were paid

rpc_vars == <<pool, nonces, bodies, tx_index, receipts, last_finalized, msgs, subs>>
client_vars == <<clients, next_nonce, hits, call, in_flight, waiter, clock, granted>>
service_vars == <<rpc_vars, client_vars>>

Transfer(from, nonce, to) == [from |-> from, tx |-> [nonce |-> nonce, to |-> to]]
hash_of(signed) == signed.tx

----------------------------------------------------------------------------
(* l1_submitTx.                                                            *)

peer_msg_limit == Min({Max({MAX_BLOCK_BYTES \div MAX_TX_BYTES, 1}), MEMPOOL_MAX_TXS})

\* The limiter counts what it lets through, and never forgets.
allow == msgs < peer_msg_limit

\* wire_mempool: not below the account's nonce; it takes the slot whoever has it.
admissible(signed) == signed.tx.nonce >= nonces[signed.from]

Slot(signed) == <<signed.from, signed.tx.nonce>>

\* submit_tx of a request that decodes; the limiter counts also what the pool refuses.
Accepted(signed) == allow /\ admissible(signed)

submit_tx(signed) ==
    /\ msgs' = IF allow THEN msgs + 1 ELSE msgs
    /\ pool' = IF Accepted(signed)
               THEN {s \in pool : Slot(s) # Slot(signed)} \cup {signed}
               ELSE pool
    /\ UNCHANGED <<nonces, bodies, tx_index, receipts, last_finalized, subs>>

----------------------------------------------------------------------------
(* The indexes of a block, l1_getTransaction.                              *)

Tip == IF last_finalized = Nothing THEN -1 ELSE last_finalized

\* Mutant: a hash that has a locator keeps it.
tx_index_once(index, height, body) ==
    [hash \in DOMAIN index \cup {hash_of(body[i]) : i \in DOMAIN body} |->
        IF hash \in DOMAIN index THEN index[hash]
        ELSE [height |-> height,
              position |-> Max({i \in DOMAIN body : hash_of(body[i]) = hash})]]

\* One put per transaction, in order: the last transaction with a hash has it.
tx_index_ops(index, height, body) ==
    LET hashes == {hash_of(body[i]) : i \in DOMAIN body}
    IN  [hash \in DOMAIN index \cup hashes |->
            IF hash \in hashes
            THEN [height |-> height,
                  position |-> Max({i \in DOMAIN body : hash_of(body[i]) = hash})]
            ELSE index[hash]]

\* Found, or Nothing for a missing entry, body or position and for another hash there.
get_tx_by_hash(hash) ==
    IF hash \notin DOMAIN tx_index THEN Nothing
    ELSE LET at == tx_index[hash]
         IN  IF \/ at.height \notin DOMAIN bodies
                \/ at.position > Len(bodies[at.height])
                \/ hash_of(bodies[at.height][at.position]) # hash
             THEN Nothing
             ELSE bodies[at.height][at.position]

----------------------------------------------------------------------------
(* The chain.                                                              *)

\* take_ready of a pool that never observes an account's nonce: runs from nonce 0.
ReadyRun(a) == {s \in pool : /\ s.from = a
                          /\ \A n \in 0 .. s.tx.nonce : \E r \in pool : Slot(r) = <<a, n>>}

\* notify_new_head
Notified(height) ==
    [id \in DOMAIN subs |-> IF subs[id].active
                            THEN [subs[id] EXCEPT !.mailbox = Append(@, height)]
                            ELSE subs[id]]

\* The order of a block: by sender, then by nonce.
Before(s, r) == IF s.from = r.from THEN s.tx.nonce < r.tx.nonce ELSE s.from = Client

InOrder(taken) ==
    [i \in 1 .. Cardinality(taken) |->
        CHOOSE s \in taken : Cardinality({r \in taken : Before(r, s)}) = i - 1]

\* How far a block with these transfers takes the nonce of an account.
Applied(a, taken) ==
    {n \in 0 .. Cardinality(taken) :
        \A k \in nonces[a] .. n : \E s \in taken : Slot(s) = <<a, k>>}

\* wire_propose to wire_commit on the shared view, then observe_finalized.  Transfers
\* that are not the account's next are in the block too, and fail there.
Produce ==
    LET taken == UNION {ReadyRun(a) : a \in Payers}
        body == InOrder(taken)
        height == Tip + 1
    IN  /\ height < MaxBlocks
        /\ pool' = pool \ taken
        /\ nonces' = [a \in Payers |-> Max({nonces[a]} \cup {n + 1 : n \in Applied(a, taken)})]
        /\ bodies' = Put(bodies, height, body)
        /\ tx_index' = tx_index_ops(tx_index, height, body)
        /\ receipts' = tx_index_ops(receipts, height, body)
        /\ last_finalized' = height
        /\ subs' = Notified(height)
        /\ UNCHANGED <<msgs, client_vars>>

\* prune: bodies below the retained window go, the indexes stay.
Prune ==
    /\ \E h \in DOMAIN bodies : h + retain <= Tip
    /\ bodies' = Restrict(bodies, {h \in DOMAIN bodies : h + retain > Tip})
    /\ UNCHANGED <<pool, nonces, tx_index, receipts, last_finalized, msgs, subs, client_vars>>

----------------------------------------------------------------------------
(* Subscriptions.  What a socket flushes it copies, so mailboxes only grow. *)

Subscribe ==
    LET id == Cardinality(DOMAIN subs) + 1
    IN  /\ "subscriber" \in clients /\ id <= MaxSubs
        /\ subs' = Put(subs, id, [active |-> TRUE, mailbox |-> <<>>])
        /\ UNCHANGED <<pool, nonces, bodies, tx_index, receipts, last_finalized, msgs, client_vars>>

Unsubscribe(id) ==
    /\ id \in DOMAIN subs
    /\ subs' = [subs EXCEPT ![id] = [active |-> FALSE, mailbox |-> <<>>]]
    /\ UNCHANGED <<pool, nonces, bodies, tx_index, receipts, last_finalized, msgs, client_vars>>

----------------------------------------------------------------------------
(* The SDK.                                                                *)

\* wait_finality: sign, submit, then poll if the node took it.
WaitFinality(to) ==
    LET signed == Transfer(Client, 0, to)
    IN  /\ "sdk" \in clients /\ waiter.is = "idle"
        /\ submit_tx(signed)
        /\ waiter' = [is |-> IF Accepted(signed) THEN "polling" ELSE "rejected", since |-> clock]
        /\ UNCHANGED <<clients, next_nonce, hits, call, in_flight, clock, granted>>

\* One turn of the loop: any finalized height will do, otherwise the clock is read.
Poll ==
    /\ waiter.is = "polling"
    /\ waiter' = [waiter EXCEPT !.is = IF last_finalized # Nothing THEN "final"
                                       ELSE IF clock - waiter.since >= wait_timeout THEN "timeout"
                                       ELSE "polling"]
    /\ UNCHANGED <<rpc_vars, clients, next_nonce, hits, call, in_flight, clock, granted>>

----------------------------------------------------------------------------
(* The faucet.                                                             *)

\* Mutant: a window that has passed since the first hit starts a new count.
recent_fixed(times, now) ==
    IF times # <<>> /\ now - Min(DOMAIN times) >= window THEN <<>> ELSE times

\* What admit retains of a key's hits, which are counted by their time.
recent(times, now) == Restrict(times, {t \in DOMAIN times : now - t < window})

\* admit: refused with the window full; charged when let through.
admit_key(hs, key, now) ==
    LET kept == recent(IF key \in DOMAIN hs THEN hs[key] ELSE <<>>, now)
        ok == SumOf(kept, DOMAIN kept) < max_per_window
    IN  [ok |-> ok,
         hits |-> Put(hs, key, IF ok THEN Put(kept, now, CountOf(kept, now) + 1) ELSE kept)]

Pay(to, ip) == granted' = Append(granted, [to |-> to, ip |-> ip, at |-> clock])

\* RateLimitedFaucet::drip.  The address is charged even if the IP is refused, both
\* are charged even if the transfer is; the nonce moves on only if it was taken.
Drip(to, ip) ==
    LET by_address == admit_key(hits, <<"a", to>>, clock)
        by_ip == admit_key(by_address.hits, <<"ip", ip>>, clock)
        signed == Transfer(Faucet, next_nonce, to)
    IN  /\ "gated_faucet" \in clients
        /\ hits' = IF by_address.ok THEN by_ip.hits ELSE by_address.hits
        /\ IF by_address.ok /\ by_ip.ok
           THEN /\ submit_tx(signed)
                /\ next_nonce' = IF Accepted(signed) THEN next_nonce + 1 ELSE next_nonce
                /\ IF Accepted(signed) THEN Pay(to, ip) ELSE UNCHANGED granted
           ELSE UNCHANGED <<rpc_vars, next_nonce, granted>>
        /\ UNCHANGED <<clients, call, in_flight, waiter, clock>>

\* Faucet::drip_http sends its request and waits.
DripHttp(to) ==
    LET signed == Transfer(Faucet, next_nonce, to)
    IN  /\ "http_faucet" \in clients /\ call = Nothing /\ Cardinality(in_flight) < MaxDrips
        /\ in_flight' = in_flight \cup {signed}
        /\ call' = [signed |-> signed, reply |-> Nothing]
        /\ UNCHANGED <<rpc_vars, clients, next_nonce, hits, waiter, clock, granted>>

\* http_rpc takes a request, which may have been given up on; only the caller that
\* still waits gets the reply.
HandleHttp(signed) ==
    /\ signed \in in_flight
    /\ in_flight' = in_flight \ {signed}
    /\ submit_tx(signed)
    /\ call' = IF call # Nothing /\ call.signed = signed
               THEN [call EXCEPT !.reply = IF Accepted(signed) THEN "ok" ELSE "error"]
               ELSE call
    /\ UNCHANGED <<clients, next_nonce, hits, waiter, clock, granted>>

\* Mutant: the nonce is spent whatever the answer.
Return_spent ==
    /\ call # Nothing
    /\ call' = Nothing
    /\ next_nonce' = next_nonce + 1
    /\ UNCHANGED <<rpc_vars, clients, hits, in_flight, waiter, clock, granted>>

\* The reply arrives, or the five seconds pass first, with the request handled or not.
Return ==
    /\ call # Nothing
    /\ call' = Nothing
    /\ \/ call.reply = "ok" /\ next_nonce' = next_nonce + 1
       \/ UNCHANGED next_nonce
    /\ UNCHANGED <<rpc_vars, clients, hits, in_flight, waiter, clock, granted>>

\* Time matters to the gated faucet and to a client that polls.
Tick ==
    /\ clock < MaxTime
    /\ "gated_faucet" \in clients \/ waiter.is = "polling"
    /\ clock' = clock + 1
    /\ UNCHANGED <<rpc_vars, clients, next_nonce, hits, call, in_flight, waiter, granted>>

----------------------------------------------------------------------------
ServicesInit ==
    /\ pool = {} /\ nonces = [a \in Payers |-> 0]
    /\ bodies = <<>> /\ tx_index = <<>> /\ receipts = <<>>
    /\ last_finalized = Nothing /\ msgs = 0 /\ subs = <<>>
    /\ clients \in ClientSets
    /\ next_nonce = 0 /\ hits = <<>> /\ call = Nothing /\ in_flight = {}
    /\ waiter = [is |-> "idle", since |-> 0] /\ clock = 0 /\ granted = <<>>

ServicesNext ==
    \/ Produce
    \/ Prune
    \/ Subscribe
    \/ \E id \in DOMAIN subs : Unsubscribe(id)
    \/ \E to \in Recipients : WaitFinality(to)
    \/ Poll
    \/ \E to \in Recipients, ip \in IPs : Drip(to, ip)
    \/ \E to \in Recipients : DripHttp(to)
    \/ \E signed \in in_flight : HandleHttp(signed)
    \/ Return
    \/ Tick

ServicesSpec == ServicesInit /\ [][ServicesNext]_service_vars

----------------------------------------------------------------------------
(* Properties.                                                             *)

\* Looking up the hash of a transaction in a body that is still stored never comes
\* back empty (index.rs get_tx_by_hash), although pruning takes bodies and leaves
\* the indexes, and what is found stands at its height or a later one.  Hashes leave
\* the sender out, so it may be another sender's transfer.
StoredTxsFound ==
    \A h \in DOMAIN bodies : \A i \in DOMAIN bodies[h] :
        /\ get_tx_by_hash(hash_of(bodies[h][i])) # Nothing
        /\ h <= tx_index[hash_of(bodies[h][i])].height

\* No address and no IP is paid more often in any stretch of one window than
\* max_per_window (ratelimit.rs), wherever in time the window is laid.
DripQuota ==
    \A d \in Range(granted) :
        LET inside == {i \in DOMAIN granted : granted[i].at \in d.at .. d.at + window - 1}
        IN  /\ Cardinality({i \in inside : granted[i].to = d.to}) <= max_per_window
            /\ Cardinality({i \in inside : granted[i].ip = d.ip}) <= max_per_window

\* Whatever requests are lost, late or refused, the faucet leaves no hole in its
\* nonces (service.rs next_nonce): each one it has moved past is in the pool or in
\* the chain.  That the pool takes the later ones is another matter (README).
NoNonceGap ==
    \A n \in 0 .. next_nonce - 1 :
        n < nonces[Faucet] \/ \E s \in pool : Slot(s) = <<Faucet, n>>
=============================================================================
