----------------------------- MODULE ChainStore -----------------------------
(***************************************************************************)
(* The durable chain of one node: the `storage` crate over a key-value     *)
(* store that survives crashes, with its write-ahead log, recovery, replay *)
(* and pruning, and the persisting side of wire.rs.                        *)
(*                                                                         *)
(* The store is a function from keys to values.  RocksStore takes the      *)
(* default `apply_batch`, which writes key by key, so a crash may fall     *)
(* between any two writes; an I/O error makes `apply_batch` write the old  *)
(* values back, as far as it can.                                          *)
(*                                                                         *)
(* Consensus decides one block per height, and that block is its height;   *)
(* the world is the sequence of the blocks applied to genesis, and its app *)
(* hash tells worlds apart, so it is the world itself.  The transaction    *)
(* and receipt indexes are written like the hash index and left out.       *)
(*                                                                         *)
(* A node that catches up takes what its peers offer: wire_sync persists   *)
(* every offer whose body belongs to its header, whether consensus decided *)
(* that header or not, with the app hash the offer names, and only then is *)
(* the store replayed.                                                     *)
(***************************************************************************)
EXTENDS Integers, Sequences

CONSTANTS
    MaxHeight,      \* bound: heights 0 .. MaxHeight - 1 are explored
    HotWindow,      \* PruneConfig::hot_window
    MayPrune,       \* whether PruneConfig::prune_cold may be set
    MaySync,        \* whether the node may be one that catches up
    MayFail,        \* whether the store may return an error
    Stray,          \* for each height, the offers other than the decided block's
    None

ASSUME StoreAssumption ==
    /\ MaxHeight \in Nat /\ HotWindow \in Nat
    /\ {MayPrune, MaySync, MayFail} \subseteq BOOLEAN

VARIABLES
    disk,           \* the key-value store
    mode,           \* "up", "recovering" (inside `recover`) or "down"
    world,          \* the executed chain in memory
    todo,           \* the batches the running call has still to write
    done,           \* how many operations of the first one are written
    snap,           \* the store when the first one began
    undoing,        \* whether the running batch is a roll back
    goal,           \* the world of the node when the call returns
    stored,         \* history: the heights whose put_block has finished
    stray,          \* history: the heights a stray offer was taken for, until the
                    \* decided block is put there
    prune_cold,     \* PruneConfig::prune_cold
    is_validator    \* a validator commits blocks, any other node catches up

vars == <<disk, mode, world, todo, done, snap, undoing, goal, stored, stray,
          prune_cold, is_validator>>

Heights == 0 .. MaxHeight - 1
TipKey == <<"tip">>
WalKey == <<"wal">>

\* The blocks up to height h, in order.
Chain(h) == [i \in 1 .. h + 1 |-> i - 1]

\* A block, which stands for its header and its body, and the app hash that comes
\* with it: the decided ones of height h, and all that may be offered for it.
Decided(h) == [block |-> h, app |-> Chain(h)]
Offers(h) == {Decided(h)} \cup Stray[h]

Blocks == {o.block : o \in UNION {Offers(h) : h \in Heights}}
Keys == ({"header", "body", "app"} \X Heights) \cup ({"hash"} \X Blocks)
          \cup {TipKey, WalKey}

WalRecord(h, o) == [height |-> h, block |-> o.block, app |-> o.app]

\* A block names its height.
ASSUME StrayAssumption ==
    \A h \in Heights : \A o \in Stray[h] :
        o = [block |-> o.block, app |-> o.app] /\ o.block \notin Heights \ {h}

ASSUME NoneAssumption ==
    /\ None \notin Heights
    /\ \A h \in Heights : \A o \in Offers(h) :
           None # o.block /\ None # o.app /\ None # WalRecord(h, o)

apply_block(w, b) == Append(w, b)

----------------------------------------------------------------------------
(* Batches: sequences of operations; deleting writes None.                 *)

Put(key, val) == [key |-> key, val |-> val]
Delete(key) == [key |-> key, val |-> None]

put_header_ops(h, b) == <<Put(<<"header", h>>, b), Put(<<"hash", b>>, h)>>

\* Mutant: the tip moves before the block is there.
put_tip_first_ops(h, o) ==
    put_header_ops(h, o.block) \o
    <<Put(TipKey, h), Put(<<"body", h>>, o.block), Put(<<"app", h>>, o.app)>>

put_block_ops(h, o) ==
    put_header_ops(h, o.block) \o
    <<Put(<<"body", h>>, o.block), Put(<<"app", h>>, o.app), Put(TipKey, h)>>

write_wal(h, o) == <<Put(WalKey, WalRecord(h, o))>>

clear_wal == <<Delete(WalKey)>>

persist_then_broadcast(h, o) ==
    <<write_wal(h, o), put_block_ops(h, o), clear_wal>>

\* The bodies of the first n heights go one by one, lowest first, outside of any
\* batch.  One that is gone already is looked up, which may fail as well.
DeleteBodies(n) == [i \in 1 .. n |-> <<Delete(<<"body", i - 1>>)>>]

\* Mutant: the window is one height too small.
prune_too_much(tip) ==
    DeleteBodies(IF prune_cold /\ tip >= HotWindow THEN tip - HotWindow + 2 ELSE 0)

prune_cold_bodies(tip) ==
    DeleteBodies(IF prune_cold /\ HotWindow # 0 /\ tip >= HotWindow
                 THEN tip - HotWindow + 1      \* first_hot
                 ELSE 0)

\* What apply_batch writes back: the old value of each key of the batch.
restore(batch, d) == [i \in 1 .. Len(batch) |-> Put(batch[i].key, d[batch[i].key])]

----------------------------------------------------------------------------
(* Reading the store back.                                                 *)

\* Mutant: the tip is taken for the first height that is not stored.
TipExclusive(d) == IF d[TipKey] = None THEN -1 ELSE d[TipKey] - 1

TipOf(d) == IF d[TipKey] = None THEN -1 ELSE d[TipKey]

Bodies(d) == [i \in 1 .. TipOf(d) + 1 |-> d[<<"body", i - 1>>]]

\* replay_from_genesis succeeds: no body or app hash is missing up to the tip, and
\* executing the bodies gives the stored app hashes.
replay_ok(d) ==
    \A h \in 0 .. TipOf(d) :
        /\ d[<<"body", h>>] # None
        /\ d[<<"app", h>>] = SubSeq(Bodies(d), 1, h + 1)

\* `recover` finds the block of the log in the store.
WalDone(d) == d[WalKey] # None /\ d[<<"body", d[WalKey].height>>] # None

recover_ok(d) ==
    /\ replay_ok(d)
    /\ (d[WalKey] # None /\ ~WalDone(d))
         => apply_block(Bodies(d), d[WalKey].block) = d[WalKey].app

----------------------------------------------------------------------------
(* The specification.                                                      *)

Init ==
    /\ disk = [k \in Keys |-> None]
    /\ mode = "up"
    /\ world = <<>>
    /\ todo = <<>>
    /\ done = 0
    /\ snap = None
    /\ undoing = FALSE
    /\ goal = None
    /\ stored = {}
    /\ stray = {}
    /\ is_validator \in {TRUE, ~MaySync}
    /\ prune_cold \in {FALSE, MayPrune /\ is_validator}     \* catch-up never prunes

\* A call that writes `batches` and, if they succeed, leaves the node in world w
\* (None: in the world it then replays from the store).
Call(batches, w) ==
    /\ todo = <<>>
    /\ todo' = batches
    /\ goal' = w
    /\ undoing' = FALSE
    /\ UNCHANGED <<disk, world, done, snap, stored, prune_cold, is_validator>>

\* wire_commit of the next block, or storage::wal::commit_with_wal.
Commit ==
    LET h == Len(world) IN
    /\ is_validator /\ mode = "up"
    /\ h < MaxHeight
    /\ Call(persist_then_broadcast(h, [block |-> h, app |-> apply_block(world, h)]),
            apply_block(world, h))
    /\ UNCHANGED <<mode, stray>>

put_then_maybe_prune ==
    LET h == Len(world)
        o == [block |-> h, app |-> apply_block(world, h)]
    IN  /\ MayPrune
        /\ is_validator /\ mode = "up"
        /\ h < MaxHeight
        /\ Call(<<put_block_ops(h, o)>> \o prune_cold_bodies(h), o.app)
        /\ UNCHANGED <<mode, stray>>

\* wire_sync: every offer kept so far is persisted again, from height 0 up.
wire_sync(offers, k) ==
    [i \in 1 .. 3 * (k + 1) |->
        LET h == (i - 1) \div 3
        IN  persist_then_broadcast(h, offers[h])[((i - 1) % 3) + 1]]

\* node::sync::catchup: an offer for every height up to k, then a replay of the store.
catchup(k) ==
    \E offers \in [0 .. k -> UNION {Offers(h) : h \in 0 .. k}] :
        /\ ~is_validator /\ mode = "up"
        /\ \A h \in 0 .. k : offers[h] \in Offers(h)
        /\ Call(wire_sync(offers, k), None)
        /\ stray' = stray \cup {h \in 0 .. k : offers[h] # Decided(h)}
        /\ UNCHANGED mode

\* `recover` without a log: replay.
RecoverReplay ==
    /\ mode = "down"
    /\ disk[WalKey] = None
    /\ recover_ok(disk)
    /\ mode' = "up"
    /\ world' = Bodies(disk)
    /\ UNCHANGED <<disk, todo, done, snap, undoing, goal, stored, stray, prune_cold,
                   is_validator>>

\* Mutant: recovery drops the log without looking.
RecoverDropAny ==
    /\ mode = "down"
    /\ disk[WalKey] # None
    /\ Call(<<clear_wal>>, apply_block(Bodies(disk), disk[WalKey].block))
    /\ mode' = "recovering"
    /\ UNCHANGED stray

\* The logged block is stored already: drop the log and replay.
RecoverDrop ==
    /\ mode = "down"
    /\ WalDone(disk)
    /\ Call(<<clear_wal>>, None)
    /\ mode' = "recovering"
    /\ UNCHANGED stray

\* It is not: execute it on the replayed world, compare, and finish the commit.
RecoverFinish ==
    LET wal == disk[WalKey] IN
    /\ mode = "down"
    /\ wal # None /\ ~WalDone(disk)
    /\ recover_ok(disk)
    /\ Call(<<put_block_ops(wal.height, [block |-> wal.block, app |-> wal.app]),
              clear_wal>>,
            apply_block(Bodies(disk), wal.block))
    /\ mode' = "recovering"
    /\ UNCHANGED stray

\* `recover` returns an error before it has written anything.
RecoverFails ==
    /\ mode = "down"
    /\ ~WalDone(disk)
    /\ ~recover_ok(disk)
    /\ UNCHANGED vars

\* One operation of the running batch; d is the store after it.  The call returns
\* with the last one: `recover` that fails ends the process.
Advance(d) ==
    LET batch == Head(todo)
        last == done + 1 = Len(batch)
        tipped == batch[done + 1].key = TipKey /\ ~undoing
        returns == last /\ Tail(todo) = <<>>
        fails == undoing \/ (goal = None /\ ~replay_ok(d))
    IN  /\ disk' = d
        /\ todo' = IF last THEN Tail(todo) ELSE todo
        /\ done' = IF last THEN 0 ELSE done + 1
        /\ snap' = IF last THEN None ELSE IF done = 0 THEN disk ELSE snap
        /\ stored' = IF tipped THEN stored \cup {d[TipKey]} ELSE stored
        /\ stray' = IF tipped /\ batch = put_block_ops(d[TipKey], Decided(d[TipKey]))
                    THEN stray \ {d[TipKey]}
                    ELSE stray
        /\ world' = IF ~returns \/ fails THEN world
                    ELSE IF goal = None THEN Bodies(d) ELSE goal
        /\ mode' = IF ~returns THEN mode
                   ELSE IF fails /\ mode = "recovering" THEN "down" ELSE "up"
        /\ UNCHANGED <<undoing, goal, prune_cold, is_validator>>

Write ==
    /\ todo # <<>>
    /\ LET op == Head(todo)[done + 1]
       IN  Advance([disk EXCEPT ![op.key] = op.val])

\* A write of apply_batch fails, and the call with it once the batch is undone.
WriteFails ==
    /\ MayFail
    /\ todo # <<>> /\ ~undoing
    /\ todo' = <<restore(Head(todo), IF done = 0 THEN disk ELSE snap)>>
    /\ done' = 0
    /\ snap' = None
    /\ undoing' = TRUE
    /\ UNCHANGED <<disk, mode, world, goal, stored, stray, prune_cold, is_validator>>

\* `restore` ignores its own failures.
RestoreFails ==
    /\ MayFail
    /\ todo # <<>> /\ undoing
    /\ Advance(disk)

Crash ==
    /\ mode # "down"
    /\ mode' = "down"
    /\ world' = <<>>
    /\ todo' = <<>>
    /\ done' = 0
    /\ snap' = None
    /\ undoing' = FALSE
    /\ goal' = None
    /\ UNCHANGED <<disk, stored, stray, prune_cold, is_validator>>

Next ==
    \/ Commit
    \/ put_then_maybe_prune
    \/ \E k \in Heights : catchup(k)
    \/ RecoverReplay
    \/ RecoverDrop
    \/ RecoverFinish
    \/ RecoverFails
    \/ Write
    \/ WriteFails
    \/ RestoreFails
    \/ Crash

Spec == Init /\ [][Next]_vars

----------------------------------------------------------------------------
(* Properties.                                                             *)

\* Every key holds a value of its kind, and the counters stay in range.
StoreTypeOK ==
    /\ DOMAIN disk = Keys
    /\ \A h \in Heights :
           /\ \A k \in {"header", "body"} :
                  disk[<<k, h>>] \in {o.block : o \in Offers(h)} \cup {None}
           /\ disk[<<"app", h>>] \in {o.app : o \in Offers(h)} \cup {None}
    /\ \A b \in Blocks : disk[<<"hash", b>>] \in Heights \cup {None}
    /\ disk[TipKey] \in Heights \cup {None}
    /\ disk[WalKey] # None => \E h \in Heights : \E o \in Offers(h) :
                                  disk[WalKey] = WalRecord(h, o)
    /\ mode \in {"up", "recovering", "down"}
    /\ world \in Seq(Blocks)
    /\ stored \subseteq Heights /\ stray \subseteq Heights
    /\ todo = <<>> => done = 0
    /\ todo # <<>> => done < Len(Head(todo))

\* A decided block once stored stays whole: crashes, failed and repeated writes,
\* recovery and stray offers for other heights never damage it, and a catch-up with
\* the decided block repairs what a stray offer left.  Only pruning takes its body,
\* and only from below the hot window.
StoredKept ==
    \A h \in stored \ stray :
        /\ disk[<<"header", h>>] = h
        /\ disk[<<"hash", h>>] = h
        /\ disk[<<"app", h>>] = Chain(h)
        /\ \/ disk[<<"body", h>>] = h
           \/ prune_cold /\ HotWindow > 0 /\ \E t \in stored : h + HotWindow <= t

\* At whatever write the process dies, `recover` brings it up again (wal.rs: "is
\* recovered by finishing the commit or discarding a duplicate"), unless a stray
\* offer has been persisted and not been repaired: recovery may then refuse the
\* store, which is where wire_sync's order of persisting and replaying shows.  A
\* pruning node is exempt (prune.rs).
CrashRecoverable == ~prune_cold /\ stray = {} => recover_ok(disk)

\* The node is never in a world whose blocks are not in the store.
WorldStored == mode = "up" => \A h \in 0 .. Len(world) - 1 : h \in stored

\* Recovery does not roll back: it ends in the world of the highest block that was
\* stored when the process died, or one above it.
RecoversTip ==
    [][is_validator /\ mode # "up" /\ mode' = "up"
         => \A h \in stored : h < Len(world')]_vars
=============================================================================
