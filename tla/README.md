# TLA+ verification of the L1 devnet

This directory models the L1 node and what surrounds it: the validators' event
loop with the BFT voting it drives, the round-based protocol the consensus crate
offers beyond that, the durable block store with its write-ahead log, the mempool
with the block builder, the ledger with staking and slashing, optimistic parallel
execution, the state tries with their proofs and the light client, gossip with its
codec and the catch-up of followers, data availability, peer slots, configuration
files, and the RPC server with its clients. TLC checks small instances. TLAPS proves
every safety property for every value of the constants.

`PROJECT.json` lists the components, runs, mutants, the map from definitions to
source lines, findings, hazards and theorems.

## The system

One process per validator (`crates/node/src/main.rs`) runs a single-threaded
loop: wait at most 15 ms for a gossip message, handle it, run `tick`, publish the
outbox. There are exactly four validators on the devnet, all state is in memory.

| component | state | operations | interacts through |
|---|---|---|---|
| node loop (`node/main.rs`) | `Live`: height, round, last_hash, pending proposal, prevotes, precommits, replay log, commit log, mempool, world | `handle_bytes` (tx, vote, proposal, block), `tick`, `maybe_vote_and_commit`, rebroadcast every 250 ms | gossip messages; direct calls into wiring |
| wiring (`node/wire.rs`, `sync.rs`) | none | `wire_mempool`, `wire_propose`, `wire_vote`, `wire_precommit`, `wire_commit`, `wire_sync`, `catchup` | calls consensus, storage, execution, mempool |
| consensus | replay log, commit log; beyond what the node calls: lock, step timer, consensus WAL, evidence, checkpoints | `propose`, `verify_leader`, `prevote_step`, `polka`, `precommit_step`, `aggregate`, `commit` | pure calls from wiring |
| storage | key-value store, tip, block WAL | `apply_batch`, `put_block`, `write_wal`/`clear_wal`, `recover`, `replay_from_genesis`, `prune_cold_bodies` | called by wiring and by start-up |
| mempool | queued transactions by sender and nonce, observed nonces | `insert` (RBF, eviction), `admit_preverified`, `take_ready` | wiring, block builder |
| execution | world: accounts, staking book, contracts | `apply_tx`, `apply_block`, Block-STM, staking, slashing, rent | block builder, replay |
| state | account and storage tries, expiry records | put, delete, prove, verify, commit root, expire, reactivate | execution, RPC, light client |
| network | frames, peer slots, message counters | encode and decode, one gate per topic, headers then bodies, admit, rotate | node loop, sync |
| data availability | chunks of a body | split, commit, sample, reconstruct | gossip |
| configuration | genesis, keys, bootstrap list, VRF keys as files | write, load, re-read | operator and node share the files |
| rpc | the shared chain view, limiter, subscriptions | submit, look up, subscribe, notify, status, proof | one lock around every request |
| sdk, faucet, light client | nonce, hits per key, trusted checkpoint | wait for finality, drip, sync headers, verify accounts | HTTP or direct calls to rpc |
| crypto, types, observability | none | pure functions, output | everybody |

What is hard: votes and proposals overtaking each other, vote vectors that are
cleared while votes are under way, two proposals at one height, a restart that
forgets what was signed, validators that commit at different times, messages that
are published once and lost, quorum arithmetic, batches cut off by a crash,
recovery from every prefix of a commit, roll backs that fail; locks carried over
rounds that validators leave at different times; speculations that go stale while
the block is being committed; deletes that must leave a trie in its one normal form;
votes counted before anybody has checked who signed them; offers that are damaged, of
a peer's own making or out of order; files read while they are written;
replies that are lost after the request was served. The hazards in `PROJECT.json`
name the lines.

What makes each component correct: one block per height and one vote per height,
round and kind (consensus); progress whenever more than two thirds are up (node);
a stored block stays whole and every crash is recoverable (storage); a bounded
pool that offers nonce-ordered, fee-ordered transactions (mempool); optimistic
execution equal to sequential execution and conserved stake (execution); a root that
depends on the contents alone and proofs that show nothing false (state, light
client); a follower that is in the replay of offers that bear each other out, and
catches up with the committed ones (sync); slots and quotas that stay exact (peers, faucet).

## Modules

| module | models |
|---|---|
| `Consensus` | pure functions of the consensus crate: saturating power, quorum, polka, replay log, vote vectors, certificate, commit log |
| `Finality` | the abstract ledger: heights become final once and in order |
| `Live` | the running validators over gossip; extends `Consensus`, refines `Finality` |
| `ChainStore` | the durable chain of one node, one key-value write at a time |
| `Mempool` | one node's transaction pool, the block builder, the accounts' nonces |
| `Ledger` | balances and the staking book under transactions, commits and evidence |
| `Rounds` | one height of the consensus crate's protocol over several rounds: lottery, locks, timeouts, WAL, evidence; extends `Consensus` |
| `BlockStm` | a block executed by Block-STM, and sequentially as the reference |
| `Merkle`, `Mpt` | the generic Merkle tree and the Patricia trie with its proofs, as operators |
| `Light` | the two tries under writes, expiry and commits, and the light client; extends `Mpt` and `Consensus` |
| `Codec` | the canonical codec and everything encoded with it, as operators |
| `Sync` | what a follower takes from gossip: offers, chunks, messages; extends `Codec` |
| `Peers` | the table of peer slots and its rotation |
| `Config` | the node's files while they are written and read; extends `Codec` |
| `Services` | RPC server, indexes, subscriptions, SDK, faucet |
| `MCLive`, `MCChainStore`, `MCMempool`, `MCLedger`, `MCRounds`, `MCBlockStm`, `MCLight`, `MCSync`, `MCServices` | instances for TLC |
| `Sums`, `Maps` | sums over finite sets and maps as functions, used by the others |
| `BaseProofs` | induction over numbers and finite sets, recursive functions, sums, strings, Merkle trees |
| `ConsensusProofs`, `LiveProofs` | proofs about quorums and the running validators |
| `CommitProofs` | proofs about `Rounds` (what gets committed) and about `Mpt` and `Light` (what a commitment shows) |
| `ExecutionProofs` | proofs about `Ledger` and `BlockStm` |
| `ChainStoreProofs` | proofs about `ChainStore` |
| `EdgeProofs` | proofs about `Mempool`, `Peers` and `Services` |
| `WireProofs` | proofs about `Codec`, `Sync` and `Config` |

### Live

`live[n]` is the record `Live` of validator n's process (`Process`), without what
no decision reads. An action is one iteration of the loop: `Idle`, `RecvTx`,
`RecvVote`, `RecvProposal` apply the handler and then the whole of `tick`
(propose, prevote, precommit, commit) as functions from process state to process
state, and put what was published in `proposals` and `votes`. `decided` is a
history of commits. `Restart` gives a fresh process.

Abstractions:

- A vote or proposal says whether its signature verifies (`signed`); only its signer
  can sign. Messages in anybody's name that nobody signed, and votes of keys that are
  no validator's, turn up as well (`StrayVotes`, `StrayProposals`), and the loop treats
  them as the code does: a vote is counted whatever the outcome of its check
  (`main.rs:144`), a proposal is taken on unchecked and passes
  `ingest_validator_proposal` before it is voted for, and a commit needs an aggregate
  that verifies, so every precommit in the vector must be signed by a validator and
  for the block. A header stands for its hash.
- Gossip may deliver any published message to anyone at any time, any number of
  times, or never. A message that the handler ignores is an idle iteration.
- Timers (2 s after start, minimum block time, 250 ms) may be due or not at any
  iteration: proposing is optional in every iteration that allows it, and
  publishing again adds nothing to a set of messages.
- The lottery is any function of last_hash and the named source.
- `round` is kept and always 0, because the node never assigns another value.
  So the lock in `prevote_step` (never passed by the node) is left out.
- The mempool is a flag "has a ready transaction"; a block has transactions or
  not, which is all that `built_from_proposal` can tell.
- The replay log keeps the process's own votes. Entries of remote votes are
  written by the code too, and the outcome is ignored.
- Validators ignore block messages apart from remembering them, so those are not
  in `Live`.
- Faulty validators propose any empty block and vote for anything. Blocks with
  transactions of theirs are dropped by every receiver.

### ChainStore

The store maps keys to values; a call is a list of batches and each `Write` is
one put or delete. `Crash` may fall anywhere, `WriteFails` makes the batch roll
back, `RestoreFails` skips one write of that roll back. `RecoverReplay`,
`RecoverDrop`, `RecoverFinish`, `RecoverFails` are the branches of `recover`. A
block is its height (consensus decides one per height), a world is the sequence
of applied blocks, an app hash is the world. The running node opens a
`MemoryStore`; this module is about the crate's contract over a durable store
(`RocksStore`, which takes the default `apply_batch`).

Catch-up persists offers, each a block and an app hash, and replays afterwards. An
offer is the decided one of its height or a stray one (`Stray`): a wrong app hash, or a
block that was not decided. A stray one is written like the others, over what is stored,
and the replay then compares every app hash. `stray` remembers the heights with such an
offer until the decided block is put there again: `StoredKept` is about the other
heights and `CrashRecoverable` about stores without one.

`is_validator` and `prune_cold` are chosen in `Init`: a validator commits, another
node catches up. A pruning node is exempt from `CrashRecoverable`, since
replay starts at genesis.

### Mempool

`queued` is the pool as a set of transactions (sender, nonce, fee priority, size),
`account_nonce` what it last observed of each account, `chain` the nonces of the
world, `block` the proposal under way. `insert` is `Mempool::insert` with the
stale drop, replace-by-fee and `ensure_room` in one step, also when it rejects:
evictions made before the rejection stay. `wire_mempool` is the path of gossip and
RPC. `ensure_room` evicts a number of the lowest-ranked transactions, as its loop does
one after the other. `build_local` takes the ready transactions out with `take_ready`, a
recursive function with one `Take` per turn of its loop; there are as many turns as
queued transactions, since each turn takes or skips one. The builder's second pass over the same limits never drops
what `take_ready` chose, so it is not a step of its own.

Abstractions: one size stands for bytes and gas; the checks on signature, gas,
balance and minimum fee are passed by the transactions that are offered; how many
of an account's transactions execute is any prefix, as one may fail on its balance.
A pool is fed by one of the two paths (`gossip`), as in the program: the node and
the RPC server only use `wire_mempool`, `insert` is the crate's own entry.

### Ledger

One action per kind of transaction, with the balance moved by `apply_tx` and the
book changed by `apply_stake_tx` together, since a failing half rejects both;
`epoch_set_update` is an observed commit; `slash_apply` and `tombstone` are the
operations of `slash.rs`. The nonce, signature and gas checks are left out, a
rejected transaction changes nothing. An unbond's epoch is a function of its height
and no decision reads it. `pending_unbond` is the map from unbond keys to entries; a
withdrawal's loop over it is given by what is `left` to take when it reaches a key.
`burnt`, `signalled` and `paid` are history variables for
the properties. Evidence is a double sign with its two votes in one of two orders,
because the hash that makes evidence unique depends on the order.

### Rounds

The node plays round 0 only; the crate's own functions play any number. `Rounds` is
a height of a driver that calls them as their contracts say: `Propose`, then
`PrevoteStep` or, after the timer, `TimeoutNil`, then `PrecommitStep`, `Commit`, and
`round_change_on_timeout`, from any step. Votes come signed to `sign_vote_logged`, which
checks the consensus WAL, logs and hands them out to be sent. `LogThenCrash` is the crash between the last two, and
`Restart` keeps the WAL and loses round, lock and replay log. Votes of a Byzantine
validator are whatever a quorum test needs (`HasPolka` counts it for anything);
`equivocation` is the detector's test on two votes. VRF tickets are a constant per
source. A validator that forgot its lock counts as faulty for `RoundsAgreement`,
because the lock is not in the WAL.

### BlockStm

`Speculate` ends one thread, so threads finish in every order; `Validate` finds the
first stale transactions; `Merge` and `Reexecute` commit the next transaction in
block order and validate the rest against the bumped versions. `apply_tx` covers
transfers, bonding, deployment and calls, each with its failures; `execute` runs one
of three contracts (a counter that traps at a value, one that re-enters, one that is
invalid), as the WASM engine is external. `Sequential` is `seq::apply_block`, a
recursive function over the block. Gas is a constant, the fee is in the balance check.

### Merkle, Mpt, Light

Hashes are ideal: the hash of a node is its serialized payload, so a root is the trie
and proofs are chains of payloads. Keys are bytes as pairs of nibbles, with a radix of
2 in the instance (16 in the code). `Light` puts and deletes accounts and slots,
commits headers with `state_root` of both tries, expires accounts that do not pay
rent and reactivates them by `reactivate`. What `get_at`, `insert`, `remove`, `prove` do
on their way down is the same in the code, so it is stated once: `Way` is the positions
from the root to where the key or the trie ends, and each operation says what it does
there (`Found`, `InsertHere`, `RemoveHere`) and on the way back (`Linked`, `Unlinked`).
`walk_verify` follows given nodes instead (`Follow`). A reference trie (`TrieOf`) is built
from the content, a node for each prefix of its paths from the longest to the shortest,
never by insertion; `CanonicalRoot` compares. Sources show the light client the proof of any trie of the chain, whole or
cut short, and headers with certificates of any make: signers and power are whatever
the source claims (`Claims`), keys of no validator and one key several times over
included, and the aggregate is over any header those signers can have signed. A correct
validator signs committed headers, or anything at or below the last checkpoint (old
keys). `qc_verify` takes the power as stated, as the code does, so `LightSees` is about
certificates that do not overstate it (`Overstates`).

### Codec, Sync

Byte strings are sequences of symbols, one per fixed-width field; a length counts the
symbols that follow. Decoders check what the code checks, so a frame that is cut,
extended or has a wrong count is rejected or not exactly as in the code. `Sync` lets a
follower hear frames in any order, any number of times, and at most `MaxDamage` offers
that the validators did not publish (`Stray`): with something else under a committed
header, or of a chain of a peer's own, at any height. An offer replaces the one of its height in `sync_offers`, `try_catchup` then
needs offers contiguous from 0 that pass `ingest_block`, persists all of them, and
adopts the last one if the replay agrees with every app hash. `bootstrap` is the same
after comparing a trusted checkpoint, and does not ask for contiguous heights. `adopted`
remembers the offers the state came from. Messages other than the ones sent (`Forged`)
are any mix of fields, under a signature that was seen or of an outsider's making. The
gates are those of `topics.rs` and `validator_mesh.rs`: a header has none, and the
signature of a proposal covers its header only, so `HeardIntact` names the fields that
are safe. The validators' loop does not go through them; what it checks is in `Live`. The
erasure code and signatures are ideal, execution is the list of applied transactions.

### Peers, Config, Services

`Peers` is `IpSlotTable` and `rotate_peers` under a caller that admits, removes and
rotates in any order, with addresses that change; the removals of a rotation are a
recursive function over the ranked list. `Config` splits every write into
emptying the file and filling it from the front, so a node that starts or re-reads the
list meets every prefix; the operator may be killed and start over. Symbols stand for
whole fields, which makes a cut inside a field equal to one before it (every reader
needs the whole field).

`Services` has one action per request, since the server's lock is held from decoding
to reply. `DripHttp`, `HandleHttp` and `Return` are the three moments of a faucet's
HTTP call: the reply may be lost and the request may be served after the faucet gave
up. `in_flight` is a set: sending an identical request again adds nothing to it. The
pool is the one fed by `wire_mempool`. `granted` is a history variable. `ClientSets`
names the clients explored together; a faucet is either gated or used over HTTP
(`RateLimitedFaucet` keeps its faucet private). The limiter's hits are counted per key
and time, which is all that its list of times can tell.

## Runs

| run | instance | shows |
|---|---|---|
| `live_safety` | 4 validators, the leader faulty, two possible headers, one height, unsigned votes in anybody's name, an outsider's precommit | type, agreement, no double sign, every commit has a quorum of signed precommits |
| `live_restart` | v4 offline, v1 restarts any time, transactions, two heights, a proposal with a bad signature | same leader seed, refinement of `Finality` (hence agreement) |
| `live_progress` | v4 offline, no transactions, fair | height 0 is committed |
| `store_recovery` | 4 heights, window 1, pruning, catch-up with stray offers for one height, I/O errors, crashes | stored blocks stay whole, every crash point recovers, to the tip |
| `mempool` | 2 accounts, nonces 0 and 1, 3 priorities, 2 sizes, caps of 3 transactions and 5 bytes, blocks of 3 | the count stays within its cap, the cheapest is evicted, blocks are gap-free, full and ordered by fee |
| `ledger` | 2 accounts, 1 validator, 10 tokens, minimum bond 2, unbonding period 2, epochs of 2, 4 heights, 3 unbonds | tokens are conserved, no early withdrawal, no dust bond, tombstones are for good |
| `rounds` | 4 validators, one Byzantine, one that crashes or restarts in the prevote step of round 0, 2 rounds, 2 blocks | no evidence against a correct validator, locks hold, agreement over rounds |
| `stm` | 2 users, a deployed counter and a deployable one, every block of 4 out of 13 transactions | parallel equals sequential after every transaction, waves are conflict-free, failures leave no trace |
| `light` | 3 accounts sharing prefixes, one of them funded at genesis, 3 slots one a prefix of others, 3 writes, 2 headers, a checkpoint, one expiry; certificates of all validators, of one key repeated and of an outsider | canonical roots, sound proofs, the light client sees committed state only, expired accounts come back |
| `sync` | 3 blocks with every payload kind, 2 stray offers out of 13, 4+2 shards, every mix of a message's fields | the follower's state is that of the offers it adopted, what a signature covers is intact, any 4 chunks rebuild the block, it catches up |
| `services` | 3 peers at 4 addresses; 3 runs of the operator; 2 recipients, 2 IPs, 2 blocks, 2 ticks | slots are exact, torn files put nothing wrong in place, stored transactions are found, quotas hold, no nonce is skipped |
| `live_txs` (violation) | a transaction arrives | a block with a transaction is never committed |

Bounds. Four validators of equal power are the devnet's set and the smallest that
tolerates a fault. One height is enough for the votes of `live_safety`, as
processes only interact within a height; two heights in `live_restart` let a fresh
process meet old messages and lead. Two stamps give an equivocating leader two
blocks. Four heights of the store with a window of one give catch-up a stored
suffix to overwrite and pruning several bodies to drop; stray offers for height 1 have
blocks below and above them. Unsigned prevotes in the names of all correct validators
are enough to make one precommit a block nobody prevoted, which is as far as they get. `MaxU64` is 100: the
arithmetic is not at its limit in the runs; `QuorumIsExact` proves the limit.
The pool has four slots for three places and five bytes, so the count and the byte
cap both bind; priorities 10, 11, 12 lie on both sides of the 10% bump, and a block
of three skips what a smaller transaction then fills. Four heights hold two epochs
and two unbonding periods one after the other; three unbonds give a
withdrawal entries of different ages, one to use up and the next to cut. `MaxAmount` is
never reached: no account can hold more than the supply.

Two rounds let a lock of round 0 meet another block's polka in round 1, which takes a
Byzantine leader there. A block of four transactions holds a chain of three conflicts
after one merge. Three keys with common prefixes make every kind of trie node, every
split and every collapse; a slot that is a prefix of others gives a branch a value.
Three blocks give catch-up a prefix, a gap and a tip, two stray offers a gap that is
filled twice or a chain of two blocks of a peer's own. The claims of `light` have, for a
minority's key and for an outsider's, the power they have and that of a quorum. Four addresses in two /24s of a /16 and an IPv6 prefix meet both bucket
lengths; a cap of two in three slots binds. Three operator runs: one killed, one
complete, one rewrite while the node runs. The limiter's cap of 4 submissions, a quota
of 2 in a window of 2 and two blocks with a retained one let every limit bind.

`CHECK_DEADLOCK FALSE` is set where the instance really ends: all rounds played, the
block committed, the last height, the clients at their bounds.

Reductions. `Followers` permutes validators that the lottery
never picks and that are alike (in `MCRounds` too); no temporal property is checked with
them. `View` (`live_restart`) drops from a process what cannot influence it any more:
votes held without a proposal (`adopt` clears them) and the others' prevotes once it has
precommitted. `CoarseView` (`live_safety`) also drops the precommits of a vector that has
one no certificate can be made with, except for whether the process's own is there.
All properties of those runs read only what the view keeps (TypeOK apart, which
the theorem covers in full).
`MCMempool`'s `View` keeps of a proposal only its senders and nonces, which is all
that `apply_block` reads; the order is checked by action properties in the step that
builds the block.

Fairness. `WF(Idle)`: the loop never blocks for more than 15 ms. `WF` of
`RecvRebroadcast`: the proposal and own votes of a process with a pending proposal
are published again every 250 ms as new gossip messages, so one of them gets
through. Nothing is assumed of messages published once. In `Sync`, `WF` of
`DeliverOffer(h)`: validators publish every committed offer again every second
(`tick`), so each keeps arriving; `CatchesUp` needs that because a stray offer stays
in `sync_offers` until a good one replaces it; one for a height that is not published
yet has no such replacement, and the property excepts it. The liveness runs of `Live`
have no unsigned votes: one in a vector makes its certificate fail (see the
observations). `Progress` asks for all
but two of the running validators, because a validator that has committed stops
rebroadcasting and validators do not catch up from blocks: the last two may stay
behind.

## Proofs

Every theorem is about the same definitions TLC runs, for every value of the constants.
The inductive invariants were found by asking what an action may rely on, and each says
more than the property it is for.

**Sums, recursion, Merkle trees** (`BaseProofs`). The library's induction theorems take an operator
as parameter, which the provers cannot instantiate. Stated over sets they can be used:
`NumberInduction` (a set of numbers with 0 and closed under successor has all of them)
follows from `LeastNumber`, `FiniteInduction` from it, and `Recursion` gives a solution
of every recursion over 0..n. With these the folds behind `SumOf` are shown to satisfy
their recursion, hence to be additive, monotone and to change as one summand changes.
`MerkleComplete`: for every list of leaves and every index, the proof verifies its leaf,
and no other content. Up the layers, the proof keeps the hash that stands over its leaf;
down again, ideal hashes are injective.

**Quorums** (`ConsensusProofs`). A saturating two-thirds comparison never grants a false
quorum, for any powers (`QuorumIsExact`); the power of disjoint sets adds up
(`PowerAdditive`), so two quorums meet outside any set of a third of the power
(`QuorumIntersection`).

**The running validators** (`LiveProofs`), for any validators, powers, faults, restarts,
lottery, heights and unsigned messages: `TypeCorrect`, `NeverDoubleSigns` and
`CommitsAreJustified` without any bound on faults; `AgreementHolds`, `SameSeedHolds` and
`ImplementsFinality` if faulty and restarting validators together hold at most a third
of the power (`FaultBudget`). `Inv` says: a process is well formed, and of the precommits it
holds those signed by a validator are of its height and published, about to be, or of a
faulty signer (`ProcessInv`); its replay log has one body per key; a validator that
never restarts still has all its published votes in its log; commits are justified, since
a certificate is made of signed precommits only; each process's
`last_hash` is the decided block below its height (`ChainInv`). `NoDoubleSign` is not
inductive by itself because the vote vectors are cleared: the replay log carries it.
Agreement needs `CommitJustified` and `NoDoubleSign` with quorum intersection; the
saturation of the arithmetic and the code's fixed threshold of three votes play no part.

**Rounds** (`CommitProofs`), for any validators, liars, restarts and number of rounds:
`NoEvidence`, `LocksAreKept`, and `RoundsAgree`, whose property itself holds the bound of
a third on liars and the forgetful. `RoundsInv` ties the WAL to what the process
remembers: one vote per slot in the WAL, precommits and locks follow a polka, and who has
not restarted is not behind its votes and holds the lock of its latest precommit. The heart
is `PolkaCloses`: once another block has a polka in a later round, a quorum of validators
is past the first block's round without having precommitted it there (`Closed`), liars and
the forgetful apart. A round may be left from any step, so `Closed` asks for no vote in it;
it is stable (`ClosedStays`) because votes are for the round a validator is in. Those who
made the first such polka are that quorum: one of them that had precommitted the first
block could only have voted against its lock after an earlier polka.

**Ledger** (`ExecutionProofs`), for any accounts, amounts and parameters: `LedgerType`,
`BondsAreWhole`, `PeriodKept`, `TombstonesBar`, `TokensConserved`. `NoEarlyWithdraw` is not
inductive, because a withdrawal uses entries up and cuts one: `Settled` says that at each
later height what an account was paid and could then withdraw equals what it signalled a
period before. The withdrawal's loop is followed by `NumberInduction` over the keys it has passed.
Conservation has one hypothesis, `SupplyFits`: genesis gives out no more than an amount
can hold. Without it, a saturating credit loses tokens.

**Store** (`ChainStoreProofs`), for any heights, window, crashes and I/O errors:
`StoredBlocksKept`, `CrashesRecover`, `WorldIsStored`, `RecoveryKeepsTip`. `StoreInv` has
one shape of call per operation (`Writing`, `StoringFirst`, `Deleting`) with what is
already written of its batch. Every value written is that of an offer for its height, the
decided one unless the height is in `stray`, and the tip moves after header, body and
hash: heights outside `stray` are `Whole`. A roll back restores what is there anyway, or
takes back keys just above the tip that belong to no stored block (`Loose`), which is why
skipping a write of it does no harm; the log names the block above the tip or one whose
body is there (`WalInv`).

**Block-STM** (`ExecutionProofs`), for any block, genesis and order of threads:
`ParallelIsSequential`, `FailuresLeaveNoTrace`, `SchedulePartitions`. What a transaction
does is determined by the accounts it names and the bonded stake (`SpecOn`); every commit
bumps the versions of what it may have changed, so a key with its first version is as it
was before the block (`VersionInv`), and a transaction that is not stale has read the
versions there are (`FreshInv`). Merging then equals executing now. Only the validation
after each commit is needed for this; staleness from earlier write sets saves work. For
the schedule: each wave takes the first transaction left over, so Len(block) waves suffice.

**Mempool, peers, services** (`EdgeProofs`), for any caps, addresses, windows and clients.

- `CountKept`, `LowestEvicted`: evictions go by rank, which orders the pool totally.
  `BlocksAreFull`, `BlocksByFee`: the loop of `take_ready` keeps `LoopInv`: the nonces
  taken so far are consecutive, what was skipped does not fit any more, and what is ready
  waits behind everything taken unless its sender had one taken since (`Waits`). Nothing
  is ready after as many turns as there are transactions.
- `SlotsAreAccounted`: each prefix is counted by its holders, through every prefix of a
  rotation's removals.
- `NoncesAreCovered`: a call is for the nonce the faucet has not moved past, and a good
  reply means that this nonce is in the pool or applied; a block takes runs of nonces
  without gaps, so what it takes is applied. `StoredAreFound`: bodies are pruned from below
  only, a locator points at its transaction or into a pruned body, and each stored
  hash has a locator at its own height or above (`IndexInv`); with a hash shared by two
  senders the locator is the later one, which is pruned last. `DripsAreRationed`: within the
  window the limiter has counted at least the grants, refusals included (`QuotaInv`).

**Gossip, sync and files** (`WireProofs`), for any committed chain, any number of shards,
any genesis, key list and bootstrap lists, in any order of loss, damage and repetition.
Loops over bytes are recursive functions over the number of rounds, so `Recursion` of
`BaseProofs` gives their unfolding and `NumberInduction` what they compute.

- Each encoder has a round trip: its decoder gives back exactly what was encoded, with
  anything after it left over. They build on one another, from fields and counted lists to
  transactions, headers, blocks, offers, chunks and the genesis file.
- `SyncHeardIntact`: what a topic's handler accepts is the canonical frame of a message, by
  the round trips, and a signature that verifies fixes the fields in it (`Genuine`):
  encodings are injective and a signature seen is of one message.
- `SyncFollowerFollows` is not inductive by itself: catching up writes whatever offers
  are kept. `OffersHeard` says that an offer kept under a height is of that height. A run of
  offers from 0 that ingest and replay accept leads to one state (`LeadsTo`), with the app
  hash of each offer on the way; where they are the committed blocks, or have the
  committed app hashes, that state is the chain's.
- `SyncChunksRebuild` rests on `ChunksHeld`: a chunk held under an index is the one
  published under it. A chunk with another index is refused by its Merkle proof, for every
  number of shards, odd layers with their repeated hash included.
- `ConfigTornFilesHarmless` rests on `TornFiles`: every file is empty or the front of what
  the operator writes, a bootstrap file the front of *one* of the lists begun. The readers
  are then followed over every front of a file: the genesis reader accepts the whole file
  only, the loop of `load_bootstrap` stops at the first entry that is cut off.

**State tries and the light client** (`CommitProofs`), for any radix, keys, balances,
words, packets and numbers of writes, heights and expiries: `RootsAreCanonical`,
`ProofsAreSound`, `LightSeesCommitted`, `ExpiryLosesNothing`.

- What a subtrie is depends on the content under its prefix alone, so the reference trie
  can be unfolded: of one path a leaf; of several a branch over the subtries, below an
  extension if they share a prefix. An insert or removal at the end of the way gives the
  trie of the changed content there, case by case of how key and path part or how a
  branch collapses; on the way back each node keeps that. Induction over the
  length of the way gives `insert` and `remove` as operations on contents, with no
  mention of the order of the writes.
- Hex prefixes and nodes decode to what was encoded, so along the way of a key a trie
  tells what its content holds for that key. A chain that `walk_verify` follows from the
  root is a front of that way, and one it accepts ends where the way does: what it shows
  is what is there.
- `LightInv` is what the four properties rest on: the two roots are the tries of their
  contents (`TriesInv`), each record has a proof of its account under its own root and
  each expired account one with its last encoding (`RecordsInv`), each header commits to the tries and accounts kept with it and the
  heights follow one another (`ChainInv`). `CanonicalRoot` alone is not inductive: without
  the contents' types a write could leave the keys. For the snapshot, the accounts put back
  one by one in their order give the trie of all of them.
- A certificate that passes and does not overstate its power has a signer who is a
  validator outside the minority (`HonestSigner`), and such a validator has signed only
  committed headers above the checkpoint; a chain of announced headers is followed by induction
  over its length. A packet's proof verifies at its own index only, since keys of
  different indices differ.

Assumptions. The modules' ASSUMEs type the constants, say that finite sets are finite and
that the values for "none" are no blocks, heights or transactions. A few say how the
code is used: `StmAssumption` that installed contracts are valid, `ServicesAssumption`
that the faucet has its own account and is not used both gated and over HTTP,
`BodiesAssumption` that the transactions of the committed chain are well formed and
signed (and that its first block has one, which is the block cut into chunks),
`ConfigAssumption` that the operator's lists have the fields of their types,
`LightAssumption` that keys are byte strings and addresses are of one length, that a block
has no more packets than there are packet keys, that those who sign headers nobody
committed are no quorum, and that claims are lists of signers with a power. Four bound what
may turn up from elsewhere by its form alone: `LiveAssumption` and `ForgedAssumption` say
that nobody signs in the name of a correct validator, `SyncAssumption` that stray offers
are encodable, `StrayAssumption` that those of the store are a block and an app hash. TLC
evaluates all of them in the runs.

Only model-checked: `Progress` and `CatchesUp`. They say that something happens
eventually under fairness, which is out of TLAPS' reach.

## Findings

`live_txs` is the finding with a run of its own; `PROJECT.json` quotes the line it
disagrees with.

Observations met while modelling, which no run states as a property. On consensus and
storage:

- Only `Round::ZERO` is ever assigned to the node's round and there is no timeout, so
  with the leader of a height offline nothing is committed (`node/src/main.rs:374`;
  README.md:193 speaks of timeouts that move the round forward). With the leader in
  `Offline`, TLC shows `Progress` violated.
- The node neither writes nor reads the consensus WAL, so a restart in the middle of a
  height may sign a second block there (`node/src/main.rs:490`;
  `consensus/src/wal.rs:1` promises otherwise). `Rounds` shows the WAL doing its work.
- The result of a vote's signature check is dropped and the vote counted
  (`node/src/main.rs:144`). An honest precommit may therefore rest on prevotes that nobody
  cast, which is why no property asks for a quorum behind it; commits are protected by
  their certificate. One precommit in the vector that is unsigned, of an outsider
  (`consensus/src/qc.rs:65`) or for nil (`qc.rs:56`) makes the certificate fail although
  the quorum is there, until the vector is cleared.
- A crash between the body and the tip of a batch leaves a block above the tip that
  `recover` keeps (`storage/src/wal.rs:191`).
- The crate's lock is in memory only; `propose` never proposes a locked block again;
  `verify_leader` does not tie the named VRF source to the round; `propose` does not
  call `log_proposal`.
- `docs/GAP-ANALYSIS.md` already lists the in-memory store as a gap.

On the mempool, execution and state:

- Transactions from gossip and RPC go through `admit_preverified`: no cap, no
  replace-by-fee rule, no minimum fee, and the account's nonce is never observed.
  `account_nonce` stays 0 there, so once an account's nonce 0 is applied none of its
  later transactions is ready, although `mempool/src/queue.rs:3` counts an applied
  predecessor. `live_txs` stops the chain before this shows.
- `ensure_room` may evict transactions and then still reject the new one
  (`mempool/src/limits.rs:3` describes evicting and admitting), and a replacement
  does not pass it, so the byte cap can be exceeded.
- What `take_ready` took is lost when the proposal is not committed.
- `Undelegate` returns no tokens: no balance is credited and no unbond entered
  (`execution/src/staking.rs:218`); `Ledger` counts them as burnt.
- Evidence with its two votes swapped has another hash, so one double sign can be
  slashed twice (`execution/src/slash.rs:38`).
- Nothing in the node calls `epoch_set_update`, `slash::apply` or `tombstone`.
- After a second expiry of an account the record of the first is still accepted by
  `reactivate` (`state/src/expiry.rs:69`); `ExpiredRecoverable` says that the latest
  one always works, not that it is the only one.
- A snapshot holds accounts only. `get_proof` answers from the current world whatever
  height is asked for; the light client rejects the mismatch.
- `qc::verify` takes the votes' power from the certificate (`consensus/src/qc.rs:108`) and
  the keys from its list of signers, which it looks up nowhere. What `LightSees` says needs
  certificates that state their signers' power, while `light/src/header.rs:19` asks for no
  trusted full node. Without that condition TLC shows it violated.
- `compute_root` repeats the last hash of an odd layer, so two lists may share a root;
  the code always knows the length from elsewhere.

On gossip and sync:

- Catch-up checks no certificate, a header names no parent and its `state_root` is not
  compared, so a follower takes offers of any origin that fit each other
  (`FollowerFollows` says what is left). A stray offer above a gap keeps `try_catchup` from
  running until the gap is filled. Offers are persisted before the replay
  (`node/src/wire.rs:325`): a wrong one stays on disk, and `recover` may refuse the
  store, until the decided block is put there again.
- The signature of a proposal covers the header only (`consensus/src/propose.rs:47`), not
  `app_hash` or the VRF fields, and Header frames have no gate (`network/src/topics.rs:226`).
- A transaction's hash leaves out sender and signature, so equal transfers of two
  senders share one index entry. Pruning leaves index entries without bodies, although
  `storage/src/index.rs:4` rules that out.
- A `vrf_pks.bin` that is cut off is read as fewer keys without an error.
- `rotate_peers` ranks by the occupancy before the rotation, and a peer that moved
  keeps the slot of its old prefix.

On services:

- The limiter behind `l1_submitTx` has no window: after 32 submissions
  (`network/src/rate_limit.rs:16`) every further one is refused.
- `wait_finality` returns on any finalized height, although `sdk/src/finality.rs:17`
  says that a transaction that is never committed ends in a timeout.
- `flush_all` copies the mailboxes, so a socket sends old notes again, and those of
  other sockets' subscriptions.
- A drip over HTTP whose reply is lost leaves the nonce where it was: once the transfer
  is applied every later drip is refused, and a late request can replace another
  transfer in its slot. Refused drips are charged to the address, and to both keys if
  only the submission fails.

## Not modelled, and the plan

Left out for good: cryptography (ideal), the WASM engine and libp2p (external),
metrics, alerts and logging (output only), `node/limits.rs` and
`network/validation.rs` (compositions without a caller of parts that are modelled),
RPC queries that only read, and the clock and number newtypes.

Every safety property of the runs is also a theorem. What remains are the two liveness
properties, and the hazards of `PROJECT.json` that have a note instead of a property.
