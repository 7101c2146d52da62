------------------------------ MODULE BlockStm ------------------------------
(***************************************************************************)
(* Block-STM: every transaction of a block is speculated on the world      *)
(* before the block, in threads; then the block is committed in order,     *)
(* each transaction either by merging its speculation or, when a slot it   *)
(* saw has a newer version, by executing it again.  Transactions are those *)
(* of seq::apply_tx: transfers, staking, deployment and calls of contracts *)
(* that load and store slots through the WASM host.                        *)
(***************************************************************************)
EXTENDS Integers, Sequences, FiniteSets, Functions

CONSTANTS
    Users,          \* accounts with keys
    Installed,      \* contracts deployed by earlier blocks, with their code
    Txs,            \* the transactions blocks are made of
    BlockLen,       \* bound: transactions in a block
    Genesis,        \* balances before the block
    Fee,            \* max_fee of every transaction
    Trap            \* the slot value at which a counter contract traps

MaxNonce == BlockLen
\* create_address: a hash of the deployer and its nonce.
create_address(u, n) == <<u, n>>
Addresses == Users \cup DOMAIN Installed \cup {create_address(u, n) : u \in Users, n \in 0..MaxNonce}

TransferTx == [kind : {"transfer"}, from : Users, nonce : 0..MaxNonce,
               to : Addresses, amount : Nat]
StakeTx == [kind : {"bond", "unbond"}, from : Users, nonce : 0..MaxNonce, amount : Nat]
DeployTx == [kind : {"deploy"}, from : Users, nonce : 0..MaxNonce,
             code : {"counter", "reenter", "invalid"}]
CallTx == [kind : {"call"}, from : Users, nonce : 0..MaxNonce, to : Addresses]

ASSUME StmAssumption ==
    /\ Txs \subseteq TransferTx \cup StakeTx \cup DeployTx \cup CallTx
    /\ Genesis \in [Users -> Nat]
    /\ Installed \in [DOMAIN Installed -> {"counter", "reenter"}]
    /\ BlockLen \in Nat /\ Fee \in Nat /\ Trap \in Nat

VARIABLES
    block,          \* the block
    specs,          \* speculations by index, as far as their threads are done
    slots,          \* VersionedSlots: the latest version of each key
    stale,          \* indices to execute again
    world,          \* committed world
    receipts,       \* receipts so far
    phase           \* "speculate", "commit"

vars == <<block, specs, slots, stale, world, receipts, phase>>

----------------------------------------------------------------------------
(* The world and seq::apply_tx.                                            *)

\* The world before the block; the last two fields are what host calls of the
\* current transaction have read and written.
PreBlock ==
    [bal |-> [a \in Addresses |-> IF a \in Users THEN Genesis[a] ELSE 0],
     nonce |-> [a \in Addresses |-> 0],
     bonded |-> [u \in Users |-> 0],
     code |-> Installed,
     slot |-> [a \in Addresses |-> 0],
     reads |-> {}, writes |-> {}]

Cleared(w) == [w EXCEPT !.reads = {}, !.writes = {}]

Fails(w, reason) == [world |-> w, receipt |-> reason]
Succeeds(w) == [world |-> w, receipt |-> "ok"]

\* The sender pays and its nonce moves on.
Paid(w, tx, pay) == [w EXCEPT !.bal[tx.from] = @ - pay, !.nonce[tx.from] = @ + 1]

apply_stake(w, tx) ==
    IF tx.kind = "unbond" /\ w.bonded[tx.from] < tx.amount
    THEN Fails(w, "stake")
    ELSE LET debit == IF tx.kind = "bond" THEN tx.amount ELSE 0
             signed == IF tx.kind = "bond" THEN tx.amount ELSE -tx.amount
         IN  Succeeds([Paid(w, tx, debit + Fee) EXCEPT !.bonded[tx.from] = @ + signed])

apply_transfer(w, tx) ==
    Succeeds([Paid(w, tx, tx.amount + Fee) EXCEPT !.bal[tx.to] = @ + tx.amount])

\* deploy::prepare and install: invalid code is found before anything is paid.
apply_deploy(w, tx) ==
    IF tx.code = "invalid" THEN Fails(w, "wasm_invalid")
    ELSE LET a == create_address(tx.from, tx.nonce)
         IN  Succeeds([Paid(w, tx, Fee) EXCEPT
                 !.code = [x \in DOMAIN @ \cup {a} |-> IF x = a THEN tx.code ELSE @[x]]])

\* sstore(0, sload(0) + 1): the host notes the key as read and as written.
Counted(w, c) ==
    [w EXCEPT !.slot[c] = @ + 1, !.reads = @ \cup {c}, !.writes = @ \cup {c}]

\* wasm::call.  A counter contract counts, and traps at Trap after it has
\* loaded its slot; the other kind stores and then enters itself, which the set
\* of executing contracts refuses.
execute(w, c) ==
    LET counted == Counted(w, c)
    IN  CASE w.code[c] = "reenter" -> Fails(counted, "wasm_reentrancy")
          [] w.code[c] = "counter" /\ w.slot[c] >= Trap ->
                 Fails([w EXCEPT !.reads = @ \cup {c}], "wasm_invalid")
          [] OTHER -> Succeeds(counted)

\* Mutant: a failed call keeps what it paid and stored.
apply_call_unrestored(w, tx) ==
    IF tx.to \notin DOMAIN w.code THEN Fails(w, "wasm_no_code")
    ELSE execute(Paid(w, tx, Fee), tx.to)

\* A failed call is undone by restoring the snapshot, its reads included.
apply_call(w, tx) ==
    IF tx.to \notin DOMAIN w.code THEN Fails(w, "wasm_no_code")
    ELSE LET r == execute(Paid(w, tx, Fee), tx.to)
         IN  IF r.receipt = "ok" THEN r ELSE Fails(w, r.receipt)

Debit(tx) == IF tx.kind \in {"transfer", "bond"} THEN tx.amount ELSE 0

apply_tx(w0, tx) ==
    LET w == Cleared(w0)
    IN  CASE tx.nonce # w.nonce[tx.from] -> Fails(w, "nonce")
          [] tx.nonce = w.nonce[tx.from] /\ w.bal[tx.from] < Debit(tx) + Fee -> Fails(w, "balance")
          [] OTHER ->
                CASE tx.kind \in {"bond", "unbond"} -> apply_stake(w, tx)
                  [] tx.kind = "deploy" -> apply_deploy(w, tx)
                  [] tx.kind = "call" -> apply_call(w, tx)
                  [] OTHER -> apply_transfer(w, tx)

\* seq::apply_block, after each prefix of the block.
Sequential ==
    LET run[n \in 0..Len(block)] ==
            IF n = 0 THEN [world |-> PreBlock, receipts |-> <<>>]
            ELSE LET r == apply_tx(run[n - 1].world, block[n])
                 IN  [world |-> r.world, receipts |-> Append(run[n - 1].receipts, r.receipt)]
    IN  run

----------------------------------------------------------------------------
(* Keys and speculation.                                                   *)

AccountKey(a) == <<"account", a>>
StakingSlot == <<"stm.staking">>
StorageKey(c) == <<"storage", c>>

Keys == {AccountKey(a) : a \in Addresses} \cup {StorageKey(a) : a \in Addresses}
          \cup {StakingSlot}

inferred_keys(tx) ==
    {AccountKey(tx.from)}
      \cup (CASE tx.kind \in {"transfer", "call"} -> {AccountKey(tx.to)}
              [] tx.kind = "deploy" -> {AccountKey(create_address(tx.from, tx.nonce))}
              [] OTHER -> {StakingSlot})

\* speculate_one: the keys with the versions they have now, and the outcome on
\* the world before the block.  On success everything read counts as written.
speculate_one(i) ==
    LET r == apply_tx(PreBlock, block[i])
        reads == inferred_keys(block[i]) \cup {StorageKey(c) : c \in r.world.reads}
    IN  [reads |-> reads,
         writes |-> (IF r.receipt = "ok" THEN reads ELSE {})
                      \cup {StorageKey(c) : c \in r.world.writes},
         observed |-> [k \in reads |-> slots[k]],
         world |-> r.world,
         receipt |-> r.receipt]

\* stale_from_earlier_writes: an earlier speculation writes what this one
\* reads or writes.
stale_from_earlier_writes(s) ==
    {j \in 1..Len(block) :
        \E i \in 1..(j - 1) : s[i].writes \cap (s[j].reads \cup s[j].writes) # {}}

\* validate: a key that was read has a newer version.
validate(s, from, versions) ==
    {j \in from..Len(block) : \E k \in s[j].reads : versions[k] # s[j].observed[k]}

----------------------------------------------------------------------------
(* The conflict graph and the schedule of waves.                           *)

Adjacent(s, i, j) ==
    /\ i # j
    /\ \/ s[i].writes \cap (s[j].reads \cup s[j].writes) # {}
       \/ s[j].writes \cap (s[i].reads \cup s[i].writes) # {}

\* Mutant: only writes of the earlier transaction make an edge.
next_wave_directed(s, remaining) ==
    LET wave[i \in 0..Len(block)] ==
            IF i = 0 THEN {}
            ELSE IF i \in remaining /\ \A j \in wave[i - 1] : s[j].writes \cap s[i].writes = {}
                 THEN wave[i - 1] \cup {i} ELSE wave[i - 1]
    IN  wave[Len(block)]

\* One turn of the loop in `schedule`: in index order, whoever is not blocked by
\* a member already taken.
next_wave(s, remaining) ==
    LET wave[i \in 0..Len(block)] ==
            IF i = 0 THEN {}
            ELSE IF i \in remaining /\ \A j \in wave[i - 1] : ~Adjacent(s, j, i)
                 THEN wave[i - 1] \cup {i} ELSE wave[i - 1]
    IN  wave[Len(block)]

schedule(s) ==
    LET turn[n \in 0..Len(block)] ==
            IF n = 0 THEN [waves |-> <<>>, remaining |-> 1..Len(block)]
            ELSE IF turn[n - 1].remaining = {} THEN turn[n - 1]
            ELSE LET w == next_wave(s, turn[n - 1].remaining)
                 IN  [waves |-> Append(turn[n - 1].waves, w),
                      remaining |-> turn[n - 1].remaining \ w]
    IN  turn[Len(block)].waves

----------------------------------------------------------------------------
(* Commit.                                                                 *)

\* merge_spec: accounts, code, storage and staking of the written keys.
merge_spec(w, s) ==
    [w EXCEPT
        !.bal = [a \in Addresses |-> IF AccountKey(a) \in s.writes THEN s.world.bal[a] ELSE @[a]],
        !.nonce = [a \in Addresses |-> IF AccountKey(a) \in s.writes THEN s.world.nonce[a] ELSE @[a]],
        !.code = [a \in DOMAIN @ \cup {x \in DOMAIN s.world.code : AccountKey(x) \in s.writes} |->
                     IF AccountKey(a) \in s.writes /\ a \in DOMAIN s.world.code
                     THEN s.world.code[a] ELSE @[a]],
        !.slot = [a \in Addresses |-> IF StorageKey(a) \in s.writes THEN s.world.slot[a] ELSE @[a]],
        !.bonded = IF StakingSlot \in s.writes THEN s.world.bonded ELSE @]

bump_writes(versions, writes) ==
    [k \in Keys |-> IF k \in writes THEN versions[k] + 1 ELSE versions[k]]

\* seed_and_read: accounts that exist are written once, so they start at 1.
seed_and_read ==
    LET keys == UNION {inferred_keys(block[i]) : i \in 1..Len(block)}
    IN  [k \in Keys |->
            IF k \in keys /\ \E a \in Users \cup DOMAIN Installed : k = AccountKey(a) THEN 1 ELSE 0]

Init ==
    /\ block \in [1..BlockLen -> Txs]
    /\ specs = [i \in {} |-> 0]
    /\ slots = seed_and_read
    /\ stale = {}
    /\ world = PreBlock
    /\ receipts = <<>>
    /\ phase = "speculate"

\* A thread of `speculate` ends; nothing it reads changes meanwhile.
Speculate ==
    /\ phase = "speculate"
    /\ \E i \in (1..Len(block)) \ DOMAIN specs :
           specs' = [j \in DOMAIN specs \cup {i} |-> IF j = i THEN speculate_one(i) ELSE specs[j]]
    /\ UNCHANGED <<block, slots, stale, world, receipts, phase>>

\* All threads have joined: the first set of stale transactions.
Validate ==
    /\ phase = "speculate"
    /\ DOMAIN specs = 1..Len(block)
    /\ stale' = stale_from_earlier_writes(specs) \cup validate(specs, 1, slots)
    /\ phase' = "commit"
    /\ UNCHANGED <<block, specs, slots, world, receipts>>

\* What follows each commit: new versions, and the rest is validated again.
Settle(i, written) ==
    /\ slots' = bump_writes(slots, written)
    /\ stale' = stale \cup validate(specs, i + 1, slots')

Merge ==
    /\ phase = "commit"
    /\ Len(receipts) < Len(block)
    /\ LET i == Len(receipts) + 1
       IN  /\ i \notin stale
           /\ world' = merge_spec(world, specs[i])
           /\ receipts' = Append(receipts, specs[i].receipt)
           /\ Settle(i, specs[i].writes)
    /\ UNCHANGED <<block, specs, phase>>

\* Mutant: what the second execution wrote gets no new version.
reexec_quiet(r, tx) == {}

\* The keys a second execution has written.
reexec_writes(r, tx) ==
    (IF r.receipt = "ok" THEN inferred_keys(tx) ELSE {})
      \cup {StorageKey(c) : c \in r.world.writes}

Reexecute ==
    /\ phase = "commit"
    /\ Len(receipts) < Len(block)
    /\ LET i == Len(receipts) + 1
           r == apply_tx(world, block[i])
       IN  /\ i \in stale
           /\ world' = r.world
           /\ receipts' = Append(receipts, r.receipt)
           /\ Settle(i, reexec_writes(r, block[i]))
    /\ UNCHANGED <<block, specs, phase>>

Next == Speculate \/ Validate \/ Merge \/ Reexecute

Spec == Init /\ [][Next]_vars

----------------------------------------------------------------------------
(* Properties.                                                             *)

\* What is hashed of a world: everything but the notes of the last transaction.
Hashed(w) == Cleared(w)

\* After every transaction the parallel engine has the world and the receipts
\* of sequential execution (the assertion of stm::apply_block).
SameAsSequential ==
    LET seq == Sequential[Len(receipts)]
    IN  receipts = seq.receipts /\ Hashed(world) = Hashed(seq.world)

\* A transaction whose receipt is a failure leaves no trace in the world.
FailureLeavesNoTrace ==
    [][Len(receipts') > Len(receipts) /\ receipts'[Len(receipts')] # "ok"
         => Hashed(world') = Hashed(world)]_vars

\* stm.schedule: the waves are a partition of the block into sets of
\* transactions that do not conflict.
WavesIndependent ==
    phase = "commit" =>
        LET waves == schedule(specs)
        IN  /\ UNION Range(waves) = 1..Len(block)
            /\ \A m, n \in DOMAIN waves : m # n => waves[m] \cap waves[n] = {}
            /\ \A n \in DOMAIN waves : \A i, j \in waves[n] : ~Adjacent(specs, i, j)
=============================================================================
