-------------------------- MODULE ChainStoreProofs --------------------------
(***************************************************************************)
(* Proofs about ChainStore: a node that dies or fails at any write keeps   *)
(* what it has stored and can be recovered, as far as no stray offer       *)
(* stands in the store.                                                    *)
(*                                                                         *)
(* The argument: every value written is right for its key or belongs to a  *)
(* height with a stray offer, so a batch that is cut off leaves nothing    *)
(* wrong behind at the other heights; the tip moves with the last write of *)
(* a batch, when everything below it is there, and with the decided block  *)
(* whole; a roll back only takes back what lies right above the tip and    *)
(* was never stored, or what belongs to a height with a stray offer.       *)
(***************************************************************************)
EXTENDS ChainStore, SequenceTheorems, TLAPS

----------------------------------------------------------------------------
(* The inductive invariant.                                                *)

Kinds == {"header", "hash", "body", "app"}

\* The value that belongs under a key of height h, whose decided block is h.
Right(k, h) == IF k = "app" THEN Chain(h) ELSE h

OffersOfAll == UNION {Offers(h) : h \in Heights}
Values == Heights \cup Blocks \cup {o.app : o \in OffersOfAll}
            \cup {None} \cup UNION {{WalRecord(h, o) : o \in Offers(h)} : h \in Heights}
Ops == [key : Keys, val : Values]

Tip == TipOf(disk)

\* The log is of height h, and of its decided block unless a stray offer was taken.
LogOf(h) ==
    \E o \in Offers(h) : disk[WalKey] = WalRecord(h, o) /\ (o = Decided(h) \/ h \in stray)

DiskTypeOK ==
    /\ disk \in [Keys -> Values]
    /\ \A k \in Kinds, h \in Heights : h \notin stray => disk[<<k, h>>] \in {Right(k, h), None}
    /\ disk[TipKey] \in Heights \cup {None}
    /\ disk[WalKey] = None \/ \E h \in Heights : LogOf(h)
    /\ stored \subseteq Heights /\ stray \subseteq Heights
    /\ is_validator => stray = {}
    /\ prune_cold => is_validator

\* The body of a stored block may have been pruned, by a validator that stores it no
\* more.
Pruned(h) ==
    /\ is_validator /\ prune_cold /\ HotWindow > 0
    /\ \E t \in stored : h + HotWindow <= t

Whole(h) ==
    \A k \in Kinds : disk[<<k, h>>] = Right(k, h) \/ (k = "body" /\ Pruned(h))

Bodied(h) == disk[<<"body", h>>] # None \/ Pruned(h)

\* Everything up to the tip was stored, what was stored has a body, and is whole
\* without a stray offer.  A validator stores nothing above its tip.
StoredInv ==
    /\ \A h \in Heights : h <= Tip => h \in stored
    /\ \A h \in stored : Bodied(h)
    /\ \A h \in stored : h \notin stray => Whole(h)
    /\ is_validator => \A h \in stored : h <= Tip

\* The log names the block above the tip, or one that is there.
WalInv ==
    ~prune_cold =>
        \A h \in Heights : LogOf(h) /\ disk[<<"body", h>>] = None => h = Tip + 1

DiskInv == DiskTypeOK /\ StoredInv /\ WalInv

ControlTypeOK ==
    /\ mode \in {"up", "recovering", "down"}
    /\ todo \in Seq(Seq(Ops))
    /\ \A i \in 1 .. Len(todo) : Len(todo[i]) > 0
    /\ done \in Nat
    /\ todo = <<>> => done = 0
    /\ todo # <<>> => done < Len(todo[1])
    /\ undoing \in BOOLEAN /\ prune_cold \in BOOLEAN /\ is_validator \in BOOLEAN
    /\ mode = "down" => todo = <<>>

\* A world of n blocks, a validator's of the decided ones.
WorldOf(w, n) == Len(w) = n /\ (is_validator => w = Chain(n - 1))

\* The world of a running node has n blocks, all stored, and a validator's tip is the
\* last of them or one above.
WorldIs(n) ==
    /\ n \in Nat /\ n <= MaxHeight
    /\ WorldOf(world, n)
    /\ mode = "up" => /\ \A h \in Heights : h < n => h \in stored
                      /\ is_validator => Tip \in {n - 1, n}
    /\ mode # "up" => n = 0

WorldInv == \E n \in Nat : WorldIs(n)

\* A batch of `put_block` is under way or next: it is for a height at most one above
\* the tip, and a validator's is for its next one.
PutReady(h) ==
    /\ h \in Heights /\ Tip >= h - 1
    /\ is_validator => Tip \in {h - 1, h}
    /\ mode = "up" /\ is_validator => world = Chain(h - 1)

\* What may be persisted for height h.
Taken(o, h) == o \in Offers(h) /\ (o = Decided(h) \/ h \in stray)

SyncBatch(f, i) ==
    persist_then_broadcast((i - 1) \div 3, f[(i - 1) \div 3])[((i - 1) % 3) + 1]

AllDecided == [g \in Heights |-> Decided(g)]

\* The call writes the offers f up to height k, and is at phase p of height h: the
\* log, the block, clearing the log.
Writing(f, k, h, p) ==
    /\ k \in Heights /\ h \in 0 .. k /\ p \in 0 .. 2
    /\ \A g \in h .. k : Taken(f[g], g)
    /\ Len(todo) = 3 * (k - h + 1) - p
    /\ \A i \in 1 .. Len(todo) : todo[i] = SyncBatch(f, 3 * h + p + i)
    /\ is_validator => h = k
    /\ goal = None \/ (WorldOf(goal, k + 1) /\ h = k)
    /\ p # 2 => PutReady(h)
    /\ p = 1 => disk[WalKey] = WalRecord(h, f[h])
    /\ p = 2 => \/ h = k /\ goal = None /\ mode = "recovering"
                \/ Tip = h /\ (mode = "up" /\ is_validator => world = Chain(h - 1))

\* It stores one block and then prunes n bodies.
Pruning(h, n) ==
    /\ is_validator /\ mode = "up" /\ goal = Chain(h) /\ h \in Heights
    /\ n \in Nat /\ (n > 0 => prune_cold /\ HotWindow > 0 /\ n + HotWindow <= h + 1)

StoringFirst(h, n) ==
    /\ Pruning(h, n)
    /\ PutReady(h)
    /\ Len(todo) = n + 1
    /\ todo[1] = put_block_ops(h, Decided(h))
    /\ \A i \in 2 .. Len(todo) : todo[i] = <<Delete(<<"body", i - 2>>)>>

Deleting(h, n) ==
    /\ Pruning(h, n)
    /\ Tip = h /\ world = Chain(h - 1)
    /\ Len(todo) <= n
    /\ \A i \in 1 .. Len(todo) : todo[i] = <<Delete(<<"body", n - Len(todo) + i - 1>>)>>

\* The index entry of a block that was not decided.
Aside(key) == \E b \in Blocks : key = <<"hash", b>> /\ b \notin Heights

\* A value that a roll back may write without harm.
Loose(key, v) ==
    /\ v \in Values
    /\ \/ Aside(key)
       \/ \E k \in Kinds, h \in Heights :
              /\ key = <<k, h>>
              /\ \/ v = None /\ h \notin stored /\ h = Tip + 1
                 \/ h \in stray /\ (k = "body" => v # None)

\* The call is one of those, the first `done` writes of its batch are made, and what
\* the batch covers can be restored.
CallInv ==
    todo # <<>> /\ ~undoing =>
        /\ \/ \E f : \E k, h, p \in Nat : Writing(f, k, h, p)
           \/ \E h, n \in Nat : StoringFirst(h, n) \/ Deleting(h, n)
        /\ \A i \in 1 .. done : disk[todo[1][i].key] = todo[1][i].val
        /\ done > 0 =>
               \A i \in 1 .. Len(todo[1]) :
                   \/ snap[todo[1][i].key] = disk[todo[1][i].key]
                   \/ Loose(todo[1][i].key, snap[todo[1][i].key])

\* A roll back puts back what is there, or takes back what is loose.
UndoInv ==
    todo # <<>> /\ undoing =>
        /\ Len(todo) = 1
        /\ \A i, j \in 1 .. Len(todo[1]) : todo[1][i].key = todo[1][j].key => i = j
        /\ \A i \in done + 1 .. Len(todo[1]) :
               \/ todo[1][i].val = disk[todo[1][i].key]
               \/ Loose(todo[1][i].key, todo[1][i].val)

StoreInv ==
    /\ DiskInv
    /\ ControlTypeOK
    /\ WorldInv
    /\ CallInv
    /\ UndoInv

----------------------------------------------------------------------------
(* Keys, values and batches.                                               *)

LEMMA OfferFacts ==
  ASSUME NEW h \in Heights
  PROVE  /\ Decided(h) \in Offers(h) /\ Decided(h).block = h /\ Decided(h).app = Chain(h)
         /\ h \in Blocks
         /\ \A o \in Offers(h) :
                /\ o = [block |-> o.block, app |-> o.app]
                /\ o.block \in Blocks /\ (o.block = h \/ o.block \notin Heights)
                /\ o.block # None /\ o.app # None /\ WalRecord(h, o) # None
                /\ o.block \in Values /\ o.app \in Values /\ WalRecord(h, o) \in Values
                /\ WalRecord(h, o).height = h /\ WalRecord(h, o).block = o.block
                /\ WalRecord(h, o).app = o.app
<1>1. /\ Decided(h) \in Offers(h) /\ Decided(h).block = h /\ Decided(h).app = Chain(h)
      /\ Decided(h) = [block |-> h, app |-> Chain(h)]
  BY DEF Offers, Decided
<1>2. Offers(h) \subseteq OffersOfAll
  BY DEF OffersOfAll
<1>3. \A o \in Offers(h) : o.block \in Blocks
  BY <1>2 DEF Blocks, OffersOfAll
<1>4. \A o \in Offers(h) : o.block \in Values /\ o.app \in Values /\ WalRecord(h, o) \in Values
  <2>1. \A o \in Offers(h) : o.block \in Values
    BY <1>3 DEF Values
  <2>2. \A o \in Offers(h) : o.app \in Values
    BY <1>2, Zenon DEF Values
  <2>3. \A o \in Offers(h) :
           WalRecord(h, o) \in UNION {{WalRecord(g, q) : q \in Offers(g)} : g \in Heights}
    OBVIOUS
  <2> QED
    BY <2>1, <2>2, <2>3, Zenon DEF Values
<1>5. \A o \in Offers(h) : /\ WalRecord(h, o).height = h /\ WalRecord(h, o).block = o.block
                           /\ WalRecord(h, o).app = o.app
  BY DEF WalRecord
<1>6. \A o \in Offers(h) : o.block # None /\ o.app # None /\ WalRecord(h, o) # None
  BY NoneAssumption
<1>7. \A o \in Offers(h) : /\ o = [block |-> o.block, app |-> o.app]
                           /\ o.block = h \/ o.block \notin Heights
  <2>1. \A o \in Stray[h] : /\ o = [block |-> o.block, app |-> o.app]
                            /\ o.block = h \/ o.block \notin Heights
    BY StrayAssumption
  <2> QED
    BY <1>1, <2>1, Zenon DEF Offers
<1>8. h \in Blocks
  BY <1>1, <1>3
<1> QED
  BY <1>1, <1>3, <1>4, <1>5, <1>6, <1>7, <1>8

LEMMA KeyFacts ==
  /\ TipKey \in Keys /\ WalKey \in Keys /\ TipKey # WalKey
  /\ \A k \in Kinds, h \in Heights :
         /\ <<k, h>> \in Keys /\ <<k, h>> # TipKey /\ <<k, h>> # WalKey
         /\ \A l \in Kinds, g \in Heights : <<k, h>> = <<l, g>> <=> k = l /\ h = g
  /\ \A b \in Blocks : /\ <<"hash", b>> \in Keys
                       /\ <<"hash", b>> # TipKey /\ <<"hash", b>> # WalKey
                       /\ \A k \in Kinds, h \in Heights : <<"hash", b>> = <<k, h>> => b = h
  BY OfferFacts DEF Keys, Kinds, TipKey, WalKey

LEMMA ValueFacts ==
  /\ None \in Values /\ Heights \subseteq Nat
  /\ \A k \in Kinds, h \in Heights : Right(k, h) \in Values /\ Right(k, h) # None
  /\ \A h \in Heights : h \in Values /\ h # None /\ Chain(h) \in Values /\ Chain(h) # None
<1>1. None \in Values /\ \A h \in Heights : h \in Values
  BY Zenon DEF Values
<1>2. \A h \in Heights : h # None /\ Chain(h) \in Values /\ Chain(h) # None
  BY OfferFacts
<1>3. Heights \subseteq Nat
  BY StoreAssumption DEF Heights
<1>4. \A k \in Kinds, h \in Heights : Right(k, h) = h \/ Right(k, h) = Chain(h)
  BY Zenon DEF Right
<1>5. \A k \in Kinds, h \in Heights : Right(k, h) \in Values /\ Right(k, h) # None
  BY <1>1, <1>2, <1>4, Zenon
<1> QED
  BY <1>1, <1>2, <1>3, <1>5, Zenon

\* The five writes of a block.
LEMMA PutOps ==
  ASSUME NEW h \in Heights, NEW o \in Offers(h)
  PROVE  /\ put_block_ops(h, o) \in Seq(Ops)
         /\ Len(put_block_ops(h, o)) = 5
         /\ put_block_ops(h, o)[1] = Put(<<"header", h>>, o.block)
         /\ put_block_ops(h, o)[2] = Put(<<"hash", o.block>>, h)
         /\ put_block_ops(h, o)[3] = Put(<<"body", h>>, o.block)
         /\ put_block_ops(h, o)[4] = Put(<<"app", h>>, o.app)
         /\ put_block_ops(h, o)[5] = Put(TipKey, h)
<1> DEFINE a == <<Put(<<"header", h>>, o.block), Put(<<"hash", o.block>>, h)>>
<1> DEFINE b == <<Put(<<"body", h>>, o.block), Put(<<"app", h>>, o.app), Put(TipKey, h)>>
<1>0. \A key \in Keys, v \in Values : Put(key, v) \in Ops
  BY DEF Ops, Put
<1>1. /\ <<"header", h>> \in Keys /\ <<"body", h>> \in Keys /\ <<"app", h>> \in Keys
      /\ <<"hash", o.block>> \in Keys /\ TipKey \in Keys
  BY KeyFacts, OfferFacts DEF Kinds
<1>2. o.block \in Values /\ o.app \in Values /\ h \in Values
  BY OfferFacts, ValueFacts
<1>3. a \in Seq(Ops) /\ b \in Seq(Ops) /\ Len(a) = 2 /\ Len(b) = 3
  BY <1>0, <1>1, <1>2
<1>4. put_block_ops(h, o) = a \o b
  BY DEF put_block_ops, put_header_ops
<1> QED
  BY <1>3, <1>4

LEMMA PutKeys ==
  ASSUME NEW h \in Heights, NEW o \in Offers(h), NEW x, x = put_block_ops(h, o)
  PROVE  /\ Len(x) = 5
         /\ x[1].key = <<"header", h>> /\ x[1].val = o.block
         /\ x[2].key = <<"hash", o.block>> /\ x[2].val = h
         /\ x[3].key = <<"body", h>> /\ x[3].val = o.block
         /\ x[4].key = <<"app", h>> /\ x[4].val = o.app
         /\ x[5].key = TipKey /\ x[5].val = h
<1>1. /\ Len(x) = 5
      /\ x[1] = Put(<<"header", h>>, o.block)
      /\ x[2] = Put(<<"hash", o.block>>, h)
      /\ x[3] = Put(<<"body", h>>, o.block)
      /\ x[4] = Put(<<"app", h>>, o.app)
      /\ x[5] = Put(TipKey, h)
  BY PutOps
<1>2. x[1].key = <<"header", h>> /\ x[1].val = o.block
  BY <1>1 DEF Put
<1>3. x[2].key = <<"hash", o.block>> /\ x[2].val = h
  BY <1>1 DEF Put
<1>4. x[3].key = <<"body", h>> /\ x[3].val = o.block
  BY <1>1 DEF Put
<1>5. x[4].key = <<"app", h>> /\ x[4].val = o.app
  BY <1>1 DEF Put
<1>6. x[5].key = TipKey /\ x[5].val = h
  BY <1>1 DEF Put
<1> QED
  BY <1>1, <1>2, <1>3, <1>4, <1>5, <1>6

\* Short lists of batches.
LEMMA ShortSeqs ==
  ASSUME NEW S, NEW x \in S, NEW y \in S, NEW z \in S
  PROVE  /\ <<x>> \in Seq(S) /\ Len(<<x>>) = 1 /\ <<x>>[1] = x /\ <<x>> # <<>>
         /\ <<x, y>> \in Seq(S) /\ Len(<<x, y>>) = 2 /\ <<x, y>> # <<>>
         /\ <<x, y>>[1] = x /\ <<x, y>>[2] = y
         /\ <<x, y, z>> \in Seq(S) /\ Len(<<x, y, z>>) = 3 /\ <<x, y, z>> # <<>>
         /\ <<x, y, z>>[1] = x /\ <<x, y, z>>[2] = y /\ <<x, y, z>>[3] = z
  OBVIOUS

LEMMA SeqOfFunction ==
  ASSUME NEW S, NEW n \in Nat, NEW c \in [1 .. n -> S]
  PROVE  c \in Seq(S) /\ Len(c) = n
<1>1. c \in Seq(S)
  BY SeqDef
<1> QED
  BY <1>1, LenProperties

LEMMA OneOps ==
  ASSUME NEW h \in Heights, NEW o \in Offers(h)
  PROVE  /\ write_wal(h, o) = <<Put(WalKey, WalRecord(h, o))>>
         /\ write_wal(h, o) \in Seq(Ops)
         /\ clear_wal \in Seq(Ops)
         /\ <<Delete(<<"body", h>>)>> \in Seq(Ops)
         /\ Len(write_wal(h, o)) = 1 /\ Len(clear_wal) = 1
<1>1. <<"body", h>> \in Keys /\ WalKey \in Keys
  BY KeyFacts DEF Kinds
<1>2. None \in Values /\ WalRecord(h, o) \in Values
  BY ValueFacts, OfferFacts
<1>3. /\ Put(WalKey, WalRecord(h, o)) \in Ops /\ Delete(WalKey) \in Ops
      /\ Delete(<<"body", h>>) \in Ops
  BY <1>1, <1>2 DEF Ops, Put, Delete
<1> QED
  BY <1>3 DEF write_wal, clear_wal

\* The batches of the three phases of a height.
LEMMA SyncBatches ==
  ASSUME NEW f, NEW h \in Heights
  PROVE  /\ SyncBatch(f, 3 * h + 1) = write_wal(h, f[h])
         /\ SyncBatch(f, 3 * h + 2) = put_block_ops(h, f[h])
         /\ SyncBatch(f, 3 * h + 3) = clear_wal
<1>1. h \in Nat
  BY ValueFacts
<1>2. \A p \in 0 .. 2 : (3 * h + p) \div 3 = h /\ (3 * h + p) % 3 = p
  BY <1>1
<1>3. ((3 * h + 1) - 1) \div 3 = h /\ (((3 * h + 1) - 1) % 3) + 1 = 1
  BY <1>1, <1>2
<1>4. ((3 * h + 2) - 1) \div 3 = h /\ (((3 * h + 2) - 1) % 3) + 1 = 2
  BY <1>1, <1>2
<1>5. ((3 * h + 3) - 1) \div 3 = h /\ (((3 * h + 3) - 1) % 3) + 1 = 3
  BY <1>1, <1>2
<1>7. SyncBatch(f, 3 * h + 1) = persist_then_broadcast(h, f[h])[1]
  BY <1>3, Zenon DEF SyncBatch
<1>8. SyncBatch(f, 3 * h + 2) = persist_then_broadcast(h, f[h])[2]
  BY <1>4, Zenon DEF SyncBatch
<1>9. SyncBatch(f, 3 * h + 3) = persist_then_broadcast(h, f[h])[3]
  BY <1>5, Zenon DEF SyncBatch
<1> QED
  BY <1>7, <1>8, <1>9 DEF persist_then_broadcast

LEMMA FewOps == \A n \in {1, 5} : n > 0
  OBVIOUS

LEMMA SyncBatchType ==
  ASSUME NEW f, NEW k \in Heights, \A h \in 0 .. k : f[h] \in Offers(h),
         NEW i \in 1 .. 3 * (k + 1)
  PROVE  SyncBatch(f, i) \in Seq(Ops) /\ Len(SyncBatch(f, i)) > 0
<1>1. k \in Nat
  BY ValueFacts
<1>2. PICK h \in 0 .. k : i = 3 * h + 1 \/ i = 3 * h + 2 \/ i = 3 * h + 3
  <2>1. /\ (i - 1) \div 3 \in 0 .. k
        /\ \/ i = 3 * ((i - 1) \div 3) + 1 \/ i = 3 * ((i - 1) \div 3) + 2
           \/ i = 3 * ((i - 1) \div 3) + 3
    BY <1>1
  <2> QED
    BY <2>1
<1>3. h \in Heights /\ f[h] \in Offers(h)
  BY <1>1, StoreAssumption DEF Heights
<1>4. SyncBatch(f, i) \in {write_wal(h, f[h]), put_block_ops(h, f[h]), clear_wal}
  BY <1>2, <1>3, SyncBatches
<1>5. ASSUME NEW x \in {write_wal(h, f[h]), put_block_ops(h, f[h]), clear_wal}
      PROVE  x \in Seq(Ops) /\ (Len(x) = 1 \/ Len(x) = 5)
  <2>1. PICK o \in Offers(h) : o = f[h]
    BY <1>3
  <2>2. /\ write_wal(h, o) \in Seq(Ops) /\ Len(write_wal(h, o)) = 1
        /\ clear_wal \in Seq(Ops) /\ Len(clear_wal) = 1
    BY <1>3, OneOps
  <2>3. put_block_ops(h, o) \in Seq(Ops) /\ Len(put_block_ops(h, o)) = 5
    BY <1>3, PutOps
  <2> QED
    BY <1>5, <2>1, <2>2, <2>3, Zenon
<1>6. SyncBatch(f, i) \in Seq(Ops) /\ Len(SyncBatch(f, i)) \in {1, 5}
  BY <1>4, <1>5
<1> QED
  BY <1>6, FewOps, Zenon

\* Chains of different lengths differ, and grow by one.
LEMMA ChainFacts ==
  ASSUME NEW m \in Nat, NEW n \in Nat
  PROVE  /\ Len(Chain(m - 1)) = m /\ Chain(m - 1) \in Seq(Nat)
         /\ Chain(m - 1) = Chain(n - 1) => m = n
         /\ apply_block(Chain(m - 1), m) = Chain(m)
         /\ n <= m => SubSeq(Chain(m - 1), 1, n) = Chain(n - 1)
<1>1. /\ Chain(m - 1) = [i \in 1 .. m |-> i - 1] /\ Chain(m) = [i \in 1 .. m + 1 |-> i - 1]
      /\ Chain(n - 1) = [i \in 1 .. n |-> i - 1]
  BY DEF Chain
<1>2. Len(Chain(m - 1)) = m /\ Chain(m - 1) \in Seq(Nat) /\ Len(Chain(n - 1)) = n
  BY <1>1
<1>3. apply_block(Chain(m - 1), m) = Chain(m)
  BY <1>1, <1>2 DEF apply_block
<1>4. n <= m => SubSeq(Chain(m - 1), 1, n) = Chain(n - 1)
  BY <1>1, <1>2
<1> QED
  BY <1>2, <1>3, <1>4

----------------------------------------------------------------------------
(* What a single write does to the disk.                                   *)

LEMMA TipFacts ==
  ASSUME DiskTypeOK
  PROVE  /\ Tip \in Heights \cup {-1}
         /\ Tip \in Int
         /\ disk[TipKey] = None => Tip = -1
         /\ \A h \in Heights : disk[TipKey] = h => Tip = h
<1>1. disk[TipKey] = None => Tip = -1
  BY DEF Tip, TipOf
<1>2. ASSUME NEW h \in Heights, disk[TipKey] = h
      PROVE  Tip = h
  BY <1>2, ValueFacts DEF Tip, TipOf
<1>3. Tip \in Heights \cup {-1}
  BY <1>1, <1>2 DEF DiskTypeOK
<1>4. Tip \in Int
  BY <1>3, ValueFacts
<1> QED
  BY <1>1, <1>2, <1>3, <1>4

LEMMA TipTypeNext == DiskTypeOK' => TipOf(disk') \in Heights \cup {-1}
<1>1. DiskTypeOK => TipOf(disk) \in Heights \cup {-1}
  BY TipFacts DEF Tip
<1>2. (DiskTypeOK => TipOf(disk) \in Heights \cup {-1})'
  BY <1>1, PTL
<1> QED
  BY <1>2

\* A part of a block is written under its key, right or at a height with a stray
\* offer, and the body is one.
LEMMA SetPart ==
  ASSUME DiskInv, NEW key \in Keys, NEW v \in Values, key # TipKey, key # WalKey,
         \A k \in Kinds, h \in Heights : key = <<k, h>> =>
             (v = Right(k, h) \/ h \in stray) /\ (k = "body" => v # None),
         disk' = [disk EXCEPT ![key] = v],
         UNCHANGED <<stored, stray, prune_cold, is_validator>>
  PROVE  DiskInv' /\ Tip' = Tip /\ disk'[WalKey] = disk[WalKey]
<1>1. /\ disk \in [Keys -> Values] /\ disk' \in [Keys -> Values]
      /\ disk'[TipKey] = disk[TipKey] /\ disk'[WalKey] = disk[WalKey]
      /\ \A l \in Kinds, g \in Heights :
             disk'[<<l, g>>] = IF key = <<l, g>> THEN v ELSE disk[<<l, g>>]
  BY KeyFacts DEF DiskInv, DiskTypeOK
<1>2. Tip' = Tip /\ \A h : LogOf(h)' <=> LogOf(h)
  BY <1>1 DEF Tip, TipOf, LogOf
<1>3. DiskTypeOK'
  <2>1. \A l \in Kinds, g \in Heights : g \notin stray => disk'[<<l, g>>] \in {Right(l, g), None}
    BY <1>1 DEF DiskInv, DiskTypeOK
  <2> QED
    BY <1>1, <1>2, <2>1 DEF DiskInv, DiskTypeOK
<1>4. ASSUME NEW g \in stored
      PROVE  Bodied(g)' /\ (g \notin stray => Whole(g)')
  <2>1. g \in Heights /\ Bodied(g) /\ (g \notin stray => Whole(g))
    BY DEF DiskInv, DiskTypeOK, StoredInv
  <2>2. \A h : Pruned(h)' <=> Pruned(h)
    BY DEF Pruned
  <2>3. Bodied(g)'
    BY <1>1, <2>1, <2>2 DEF Bodied, Kinds
  <2>4. g \notin stray => Whole(g)'
    BY <1>1, <2>1, <2>2 DEF Whole
  <2> QED
    BY <2>3, <2>4
<1>5. StoredInv'
  BY <1>2, <1>4 DEF DiskInv, StoredInv
<1>6. WalInv'
  <2>1. "body" \in Kinds
    BY DEF Kinds
  <2> QED
    BY <1>1, <1>2, <2>1 DEF DiskInv, WalInv
<1> QED
  BY <1>1, <1>2, <1>3, <1>5, <1>6 DEF DiskInv

\* The tip moves to a height whose block is written.
LEMMA SetTip ==
  ASSUME DiskInv, NEW h \in Heights, NEW o, Taken(o, h),
         disk[<<"body", h>>] # None,
         o = Decided(h) => \A k \in Kinds : disk[<<k, h>>] = Right(k, h),
         Tip >= h - 1, is_validator => Tip \in {h - 1, h},
         is_validator \/ disk[WalKey] = WalRecord(h, o),
         disk' = [disk EXCEPT ![TipKey] = h],
         stored' = stored \cup {h},
         stray' = IF o = Decided(h) THEN stray \ {h} ELSE stray,
         UNCHANGED <<prune_cold, is_validator>>
  PROVE  DiskInv' /\ Tip' = h /\ disk'[WalKey] = disk[WalKey]
<1>1. /\ disk \in [Keys -> Values] /\ disk' \in [Keys -> Values]
      /\ disk'[TipKey] = h /\ disk'[WalKey] = disk[WalKey]
      /\ \A l \in Kinds, g \in Heights : disk'[<<l, g>>] = disk[<<l, g>>]
  BY KeyFacts, ValueFacts DEF DiskInv, DiskTypeOK
<1>2. Tip' = h /\ h \in Nat
  BY <1>1, ValueFacts DEF Tip, TipOf
<1>3. /\ stored \subseteq Heights /\ stored' \subseteq Heights
      /\ stray' \subseteq Heights /\ stray' \subseteq stray
      /\ is_validator => stray' = {} /\ o = Decided(h)
      /\ o # Decided(h) => h \in stray /\ h \in stray'
      /\ \A g \in stray : g \in stray' \/ (g = h /\ o = Decided(h))
      /\ o \in Offers(h)
  BY DEF DiskInv, DiskTypeOK, Taken
<1>3a. ASSUME NEW g \in Heights
       PROVE  LogOf(g)' <=> LogOf(g)
  <2>1. CASE is_validator
    <3>1. stray = {} /\ stray' = {}
      BY <1>3, <2>1 DEF DiskInv, DiskTypeOK
    <3> QED
      BY <1>1, <3>1 DEF LogOf
  <2>2. CASE ~is_validator
    <3>1. disk[WalKey] = WalRecord(h, o)
      BY <2>2
    <3>2. \A q \in Offers(g) : WalRecord(h, o) = WalRecord(g, q) => g = h /\ o = q
      <4> SUFFICES ASSUME NEW q \in Offers(g), WalRecord(h, o) = WalRecord(g, q)
                   PROVE  g = h /\ o = q
        OBVIOUS
      <4>1. /\ WalRecord(h, o).height = h /\ WalRecord(g, q).height = g
            /\ WalRecord(h, o).block = o.block /\ WalRecord(g, q).block = q.block
            /\ WalRecord(h, o).app = o.app /\ WalRecord(g, q).app = q.app
            /\ o = [block |-> o.block, app |-> o.app]
            /\ q = [block |-> q.block, app |-> q.app]
        BY <1>3, OfferFacts
      <4>2. h = g /\ o.block = q.block /\ o.app = q.app
        BY <4>1
      <4> QED
        BY <4>1, <4>2
    <3>3. CASE g = h
      BY <1>1, <1>3, <3>1, <3>2, <3>3 DEF LogOf
    <3>4. CASE g # h
      BY <1>1, <3>1, <3>2, <3>4 DEF LogOf
    <3> QED
      BY <3>3, <3>4
  <2> QED
    BY <2>1, <2>2
<1>4. DiskTypeOK'
  <2>1. ASSUME NEW k \in Kinds, NEW g \in Heights, g \notin stray'
        PROVE  disk'[<<k, g>>] \in {Right(k, g), None}
    <3>1. g \notin stray \/ (g = h /\ o = Decided(h))
      BY <1>3, <2>1
    <3> QED
      BY <1>1, <3>1 DEF DiskInv, DiskTypeOK
  <2> QED
    BY <1>1, <1>3, <1>3a, <2>1 DEF DiskInv, DiskTypeOK
<1>5. Tip \in Int
  BY TipFacts DEF DiskInv
<1>6. ASSUME NEW g \in stored'
      PROVE  Bodied(g)' /\ (g \notin stray' => Whole(g)')
  <2>1. g \in Heights /\ "body" \in Kinds
    BY <1>3 DEF Kinds
  <2>2. Pruned(g) => Pruned(g)'
    BY DEF Pruned
  <2>3. CASE g = h
    <3>1. Bodied(g)'
      BY <1>1, <2>1, <2>3 DEF Bodied
    <3>2. g \notin stray' => Whole(g)'
      BY <1>1, <1>3, <2>3 DEF Whole
    <3> QED
      BY <3>1, <3>2
  <2>4. CASE g # h
    <3>1. Bodied(g) /\ (g \notin stray' => Whole(g))
      BY <1>3, <2>4 DEF DiskInv, StoredInv
    <3>2. Bodied(g)'
      BY <1>1, <2>1, <2>2, <3>1 DEF Bodied
    <3>3. g \notin stray' => Whole(g)'
      BY <1>1, <2>1, <2>2, <3>1 DEF Whole
    <3> QED
      BY <3>2, <3>3
  <2> QED
    BY <2>3, <2>4
<1>7. StoredInv'
  <2>1. ASSUME NEW g \in Heights, g <= h PROVE g \in stored'
    BY <1>2, <1>5, <2>1, ValueFacts DEF DiskInv, StoredInv
  <2>2. ASSUME is_validator, NEW g \in stored' PROVE g <= h
    <3>1. g = h \/ (g \in stored /\ g <= Tip)
      BY <2>2 DEF DiskInv, StoredInv
    <3>2. g \in Nat
      BY <3>1, ValueFacts DEF DiskInv, DiskTypeOK
    <3> QED
      BY <1>2, <1>5, <2>2, <3>1, <3>2
  <2> QED
    BY <1>2, <1>6, <2>1, <2>2 DEF StoredInv
<1>8. WalInv'
  <2> SUFFICES ASSUME ~prune_cold, NEW g \in Heights, LogOf(g), disk[<<"body", g>>] = None
               PROVE  g = h + 1
    BY <1>1, <1>2, <1>3a DEF WalInv, Kinds
  <2>1. g = Tip + 1
    BY DEF DiskInv, WalInv
  <2>2. g # h
    OBVIOUS
  <2>3. is_validator
    <3>1. SUFFICES ASSUME disk[WalKey] = WalRecord(h, o) PROVE FALSE
      OBVIOUS
    <3>2. PICK q \in Offers(g) : disk[WalKey] = WalRecord(g, q)
      BY DEF LogOf
    <3>3. WalRecord(h, o).height = h /\ WalRecord(g, q).height = g
      BY <1>3, OfferFacts
    <3> QED
      BY <2>2, <3>1, <3>2, <3>3
  <2> QED
    BY <1>2, <1>5, <2>1, <2>2, <2>3
<1> QED
  BY <1>1, <1>2, <1>4, <1>7, <1>8 DEF DiskInv

\* The log is written for a height at most one above the tip, or cleared.
LEMMA SetWal ==
  ASSUME DiskInv, NEW rec,
         \/ rec = None
         \/ \E h \in Heights : \E o : rec = WalRecord(h, o) /\ Taken(o, h) /\ Tip >= h - 1,
         disk' = [disk EXCEPT ![WalKey] = rec],
         UNCHANGED <<stored, stray, prune_cold, is_validator>>
  PROVE  DiskInv' /\ Tip' = Tip /\ disk'[WalKey] = rec
<1>0. rec \in Values
  BY OfferFacts, ValueFacts DEF Taken
<1>1. /\ disk \in [Keys -> Values] /\ disk' \in [Keys -> Values]
      /\ disk'[TipKey] = disk[TipKey] /\ disk'[WalKey] = rec
      /\ \A l \in Kinds, g \in Heights : disk'[<<l, g>>] = disk[<<l, g>>]
  BY <1>0, KeyFacts DEF DiskInv, DiskTypeOK
<1>2. Tip' = Tip
  BY <1>1 DEF Tip, TipOf
<1>3. DiskTypeOK'
  <2>1. rec = None \/ \E h \in Heights : LogOf(h)'
    BY <1>1 DEF LogOf, Taken
  <2> QED
    BY <1>1, <2>1 DEF DiskInv, DiskTypeOK
<1>4. Tip \in Int
  BY TipFacts DEF DiskInv
<1>5. ASSUME NEW g \in stored
      PROVE  Bodied(g)' /\ (g \notin stray => Whole(g)')
  <2>1. g \in Heights /\ Bodied(g) /\ (g \notin stray => Whole(g)) /\ "body" \in Kinds
    BY DEF DiskInv, DiskTypeOK, StoredInv, Kinds
  <2>2. \A h : Pruned(h)' <=> Pruned(h)
    BY DEF Pruned
  <2>3. Bodied(g)'
    BY <1>1, <2>1, <2>2 DEF Bodied
  <2>4. g \notin stray => Whole(g)'
    BY <1>1, <2>1, <2>2 DEF Whole
  <2> QED
    BY <2>3, <2>4
<1>6. StoredInv'
  BY <1>2, <1>5 DEF DiskInv, StoredInv
<1>7. WalInv'
  <2> SUFFICES ASSUME ~prune_cold, NEW g \in Heights, LogOf(g)',
                      disk[<<"body", g>>] = None
               PROVE  g = Tip + 1
    BY <1>1, <1>2 DEF WalInv, Kinds
  <2>1. Tip >= g - 1
    <3>1. PICK q \in Offers(g) : rec = WalRecord(g, q)
      BY <1>1 DEF LogOf
    <3>2. rec # None /\ rec.height = g
      BY <3>1, OfferFacts
    <3>3. PICK h \in Heights : \E o : rec = WalRecord(h, o) /\ Taken(o, h) /\ Tip >= h - 1
      BY <3>2
    <3>4. rec.height = h
      BY <3>3, OfferFacts DEF Taken
    <3> QED
      BY <3>2, <3>3, <3>4
  <2>2. g \notin stored
    BY DEF DiskInv, StoredInv, Bodied, Pruned
  <2>3. ~(g <= Tip)
    BY <2>2 DEF DiskInv, StoredInv
  <2> QED
    BY <1>4, <2>1, <2>3, ValueFacts
<1> QED
  BY <1>1, <1>2, <1>3, <1>6, <1>7 DEF DiskInv

\* A cold body is pruned.
LEMMA DropCold ==
  ASSUME DiskInv, NEW h \in Heights, Pruned(h),
         disk' = [disk EXCEPT ![<<"body", h>>] = None],
         UNCHANGED <<stored, stray, prune_cold, is_validator>>
  PROVE  DiskInv' /\ Tip' = Tip /\ disk'[WalKey] = disk[WalKey]
<1>1. /\ disk \in [Keys -> Values] /\ disk' \in [Keys -> Values]
      /\ disk'[TipKey] = disk[TipKey] /\ disk'[WalKey] = disk[WalKey]
      /\ \A l \in Kinds, g \in Heights :
             disk'[<<l, g>>] = IF l = "body" /\ g = h THEN None ELSE disk[<<l, g>>]
  BY KeyFacts, ValueFacts DEF DiskInv, DiskTypeOK, Kinds
<1>2. Tip' = Tip /\ \A g : LogOf(g)' <=> LogOf(g)
  BY <1>1 DEF Tip, TipOf, LogOf
<1>3. DiskTypeOK'
  BY <1>1, <1>2 DEF DiskInv, DiskTypeOK
<1>4. ASSUME NEW g \in stored
      PROVE  Bodied(g)' /\ (g \notin stray => Whole(g)')
  <2>1. g \in Heights /\ Bodied(g) /\ (g \notin stray => Whole(g)) /\ "body" \in Kinds
    BY DEF DiskInv, DiskTypeOK, StoredInv, Kinds
  <2>2. \A f : Pruned(f)' <=> Pruned(f)
    BY DEF Pruned
  <2>3. Bodied(g)'
    BY <1>1, <2>1, <2>2 DEF Bodied
  <2>4. g \notin stray => Whole(g)'
    BY <1>1, <2>1, <2>2 DEF Whole
  <2> QED
    BY <2>3, <2>4
<1>5. StoredInv'
  BY <1>2, <1>4 DEF DiskInv, StoredInv
<1>6. WalInv'
  BY DEF WalInv, Pruned
<1> QED
  BY <1>1, <1>2, <1>3, <1>5, <1>6 DEF DiskInv

\* A roll back writes what is loose.
LEMMA DropLoose ==
  ASSUME DiskInv, NEW key \in Keys, NEW v, Loose(key, v),
         disk' = [disk EXCEPT ![key] = v],
         UNCHANGED <<stored, stray, prune_cold, is_validator>>
  PROVE  DiskInv' /\ Tip' = Tip /\ disk'[WalKey] = disk[WalKey]
<1>1. CASE \E k \in Kinds, h \in Heights :
              key = <<k, h>> /\ v = None /\ h \notin stored /\ h = Tip + 1
  <2>0. PICK k \in Kinds, h \in Heights :
            key = <<k, h>> /\ v = None /\ h \notin stored /\ h = Tip + 1
    BY <1>1
  <2>1. /\ disk \in [Keys -> Values] /\ disk' \in [Keys -> Values]
        /\ disk'[TipKey] = disk[TipKey] /\ disk'[WalKey] = disk[WalKey]
        /\ \A l \in Kinds, g \in Heights :
               disk'[<<l, g>>] = IF l = k /\ g = h THEN None ELSE disk[<<l, g>>]
    BY <2>0, KeyFacts, ValueFacts DEF DiskInv, DiskTypeOK
  <2>2. Tip' = Tip /\ \A g : LogOf(g)' <=> LogOf(g)
    BY <2>1 DEF Tip, TipOf, LogOf
  <2>3. DiskTypeOK'
    BY <2>1, <2>2 DEF DiskInv, DiskTypeOK
  <2>4. ASSUME NEW g \in stored
        PROVE  Bodied(g)' /\ (g \notin stray => Whole(g)')
    <3>1. /\ g \in Heights /\ Bodied(g) /\ (g \notin stray => Whole(g)) /\ "body" \in Kinds
          /\ g # h
      BY <2>0 DEF DiskInv, DiskTypeOK, StoredInv, Kinds
    <3>2. \A f : Pruned(f)' <=> Pruned(f)
      BY DEF Pruned
    <3>3. Bodied(g)'
      BY <2>1, <3>1, <3>2 DEF Bodied
    <3>4. g \notin stray => Whole(g)'
      BY <2>1, <3>1, <3>2 DEF Whole
    <3> QED
      BY <3>3, <3>4
  <2>5. StoredInv'
    BY <2>2, <2>4 DEF DiskInv, StoredInv
  <2>6. WalInv'
    BY <2>0, <2>1, <2>2 DEF DiskInv, WalInv, Kinds
  <2> QED
    BY <2>1, <2>2, <2>3, <2>5, <2>6 DEF DiskInv
<1>2. CASE Aside(key)
  <2>1. /\ key # TipKey /\ key # WalKey
        /\ \A k \in Kinds, h \in Heights : key # <<k, h>>
    BY <1>2, KeyFacts DEF Aside
  <2>2. v \in Values
    BY DEF Loose
  <2>3. \A k \in Kinds, h \in Heights : key = <<k, h>> =>
            (v = Right(k, h) \/ h \in stray) /\ (k = "body" => v # None)
    BY <2>1
  <2> QED
    BY <2>1, <2>2, <2>3, SetPart
<1>3. CASE \E k \in Kinds, h \in Heights :
              key = <<k, h>> /\ h \in stray /\ (k = "body" => v # None)
  <2>1. PICK k \in Kinds, h \in Heights :
            key = <<k, h>> /\ h \in stray /\ (k = "body" => v # None)
    BY <1>3
  <2>2. key # TipKey /\ key # WalKey
    BY <2>1, KeyFacts
  <2>3. \A l \in Kinds, g \in Heights : key = <<l, g>> => l = k /\ g = h
    BY <2>1, KeyFacts
  <2> QED
    BY <2>1, <2>2, <2>3, SetPart DEF Loose
<1> QED
  BY <1>1, <1>2, <1>3 DEF Loose

----------------------------------------------------------------------------
(* Calls, recovery and crashes.                                            *)

LEMMA DiskSame ==
  ASSUME UNCHANGED <<disk, stored, stray, prune_cold, is_validator>>
  PROVE  /\ DiskInv => DiskInv'
         /\ Tip' = Tip
         /\ \A key, v : Loose(key, v)' <=> Loose(key, v)
         /\ \A o, h : Taken(o, h)' <=> Taken(o, h)
<1>1. Tip' = Tip
  BY DEF Tip, TipOf
<1>2. \A h : /\ Whole(h)' <=> Whole(h)
             /\ Bodied(h)' <=> Bodied(h)
             /\ LogOf(h)' <=> LogOf(h)
  BY DEF Whole, Bodied, Pruned, LogOf
<1>3. DiskTypeOK => DiskTypeOK'
  BY <1>2 DEF DiskTypeOK
<1>4. StoredInv => StoredInv'
  BY <1>1, <1>2 DEF StoredInv
<1>5. WalInv => WalInv'
  BY <1>1, <1>2 DEF WalInv
<1>6. \A key, v : Loose(key, v)' <=> Loose(key, v)
  BY <1>1 DEF Loose
<1>7. \A o, h : Taken(o, h)' <=> Taken(o, h)
  BY DEF Taken
<1> QED
  BY <1>1, <1>3, <1>4, <1>5, <1>6, <1>7 DEF DiskInv

\* A catch-up with stray offers begins.
LEMMA StrayMore ==
  ASSUME DiskInv, ~is_validator, UNCHANGED <<disk, stored, prune_cold, is_validator>>,
         stray \subseteq stray', stray' \subseteq Heights
  PROVE  DiskInv' /\ Tip' = Tip
<1>1. Tip' = Tip
  BY DEF Tip, TipOf
<1>2. \A h : /\ Whole(h)' <=> Whole(h)
             /\ Bodied(h)' <=> Bodied(h)
             /\ LogOf(h) => LogOf(h)'
  BY DEF Whole, Bodied, Pruned, LogOf
<1>3. DiskTypeOK'
  BY <1>2 DEF DiskInv, DiskTypeOK
<1>4. StoredInv'
  BY <1>1, <1>2 DEF DiskInv, StoredInv
<1>5. WalInv'
  <2> SUFFICES ASSUME ~prune_cold, NEW h \in Heights, LogOf(h)', disk[<<"body", h>>] = None
               PROVE  h = Tip + 1
    BY <1>1 DEF WalInv
  <2>1. PICK o \in Offers(h) : disk[WalKey] = WalRecord(h, o)
    BY DEF LogOf
  <2>2. disk[WalKey] # None /\ disk[WalKey].height = h
    BY <2>1, OfferFacts
  <2>3. PICK g \in Heights : LogOf(g)
    BY <2>2 DEF DiskInv, DiskTypeOK
  <2>4. disk[WalKey].height = g
    BY <2>3, OfferFacts DEF LogOf
  <2> QED
    BY <2>2, <2>3, <2>4 DEF DiskInv, WalInv
<1> QED
  BY <1>1, <1>3, <1>4, <1>5 DEF DiskInv

LEMMA StoreInit == Init => StoreInv
<1> SUFFICES ASSUME Init PROVE StoreInv
  OBVIOUS
<1>1. disk \in [Keys -> Values] /\ \A k \in Keys : disk[k] = None
  BY ValueFacts DEF Init
<1>1a. /\ prune_cold \in BOOLEAN /\ is_validator \in BOOLEAN
       /\ prune_cold => is_validator
  BY StoreAssumption DEF Init
<1>2. DiskTypeOK
  BY <1>1, <1>1a, KeyFacts DEF DiskTypeOK, Init
<1>3. Tip = -1
  BY <1>1, KeyFacts DEF Tip, TipOf
<1>4. StoredInv
  <2>1. \A h \in Heights : ~(h <= -1)
    BY ValueFacts
  <2> QED
    BY <1>3, <2>1 DEF StoredInv, Init
<1>5. WalInv
  BY <1>1, KeyFacts, OfferFacts DEF WalInv, LogOf
<1>6. ControlTypeOK
  <2>1. todo = <<>> /\ todo \in Seq(Seq(Ops)) /\ Len(todo) = 0
    BY DEF Init
  <2>2. mode = "up" /\ done = 0 /\ undoing = FALSE
    BY DEF Init
  <2>3. \A i \in 1 .. Len(todo) : Len(todo[i]) > 0
    BY <2>1
  <2>4. done \in Nat /\ undoing \in BOOLEAN
    BY <2>2
  <2> QED
    BY <1>1a, <2>1, <2>2, <2>3, <2>4, Zenon DEF ControlTypeOK
<1>7. WorldIs(0)
  <2>1. WorldOf(world, 0)
    BY DEF WorldOf, Chain, Init
  <2>2. \A h \in Heights : ~(h < 0)
    BY ValueFacts
  <2> QED
    BY <1>3, <2>1, <2>2, StoreAssumption DEF WorldIs, Init
<1>8. CallInv /\ UndoInv
  BY DEF CallInv, UndoInv, Init
<1> QED
  BY <1>2, <1>4, <1>5, <1>6, <1>7, <1>8 DEF StoreInv, DiskInv, WorldInv

BodiesDecided(d) == \A h \in Heights : d[<<"body", h>>] \in {h, None}

\* Replaying bodies that are all there gives a world up to the tip, and a validator
\* the decided blocks.
LEMMA Replayed ==
  ASSUME NEW d, NEW t, t = TipOf(d), t \in Heights \cup {-1},
         d \in [Keys -> Values],
         is_validator => BodiesDecided(d),
         replay_ok(d)
  PROVE  WorldOf(Bodies(d), t + 1) /\ Bodies(d) \in Seq(Values)
<1>1. t \in Int /\ t <= MaxHeight - 1 /\ t >= -1 /\ t + 1 \in Nat /\ (t + 1) - 1 = t
  BY StoreAssumption DEF Heights
<1>2. \A i \in 1 .. t + 1 : i - 1 \in 0 .. t /\ i - 1 \in Heights
  BY <1>1, StoreAssumption DEF Heights
<1>3. Bodies(d) = [i \in 1 .. t + 1 |-> d[<<"body", i - 1>>]]
  BY DEF Bodies
<1>4. Bodies(d) \in Seq(Values) /\ Len(Bodies(d)) = t + 1
  <2>1. \A i \in 1 .. t + 1 : d[<<"body", i - 1>>] \in Values
    BY <1>2, KeyFacts DEF Kinds
  <2>2. Bodies(d) \in [1 .. t + 1 -> Values]
    BY <1>3, <2>1
  <2> QED
    BY <1>1, <2>2, SeqOfFunction
<1>5. ASSUME is_validator PROVE Bodies(d) = Chain((t + 1) - 1)
  <2>1. \A i \in 1 .. t + 1 : d[<<"body", i - 1>>] # None
    BY <1>2 DEF replay_ok
  <2>2. \A i \in 1 .. t + 1 : d[<<"body", i - 1>>] = i - 1
    <3>1. BodiesDecided(d)
      BY <1>5, Zenon
    <3> QED
      BY <1>2, <2>1, <3>1, Zenon DEF BodiesDecided
  <2> QED
    BY <1>1, <1>3, <2>2 DEF Chain
<1> QED
  BY <1>4, <1>5 DEF WorldOf

\* The bodies of a validator's store.
LEMMA ValidatorBodies ==
  ASSUME DiskTypeOK
  PROVE  is_validator => BodiesDecided(disk)
<1>1. \A h \in Heights : Right("body", h) = h
  BY DEF Right
<1>2. "body" \in Kinds
  BY DEF Kinds
<1> QED
  BY <1>1, <1>2 DEF DiskTypeOK, BodiesDecided

LEMMA ValidatorBodiesNext == DiskTypeOK' => (is_validator' => BodiesDecided(disk'))
<1>1. (DiskTypeOK => (is_validator => BodiesDecided(disk)))'
  BY ValidatorBodies, PTL
<1> QED
  BY <1>1

\* The world of a call that begins, and of one that crashes.
LEMMA WorldSame ==
  ASSUME WorldInv, UNCHANGED <<disk, stored, world, is_validator>>,
         mode' = mode \/ (mode = "down" /\ mode' = "recovering")
  PROVE  WorldInv'
<1>1. PICK n \in Nat : WorldIs(n)
  BY DEF WorldInv
<1>2. Tip' = Tip
  BY DEF Tip, TipOf
<1>3. WorldIs(n)'
  BY <1>1, <1>2 DEF WorldIs, WorldOf
<1> QED
  BY <1>3 DEF WorldInv

\* A call keeps the invariant if it begins with one of the known lists of batches.
LEMMA CallBegins ==
  ASSUME StoreInv, NEW b, NEW w, Call(b, w), DiskInv',
         b \in Seq(Seq(Ops)), b # <<>>, \A i \in 1 .. Len(b) : Len(b[i]) > 0,
         (mode' = mode /\ mode = "up") \/ (mode = "down" /\ mode' = "recovering"),
         \/ \E f : \E k, h, p \in Nat : Writing(f, k, h, p)'
         \/ \E h, n \in Nat : StoringFirst(h, n)'
  PROVE  StoreInv'
<1>1. /\ todo' = b /\ done' = done /\ done = 0 /\ undoing' = FALSE
      /\ UNCHANGED <<disk, stored, world, prune_cold, is_validator>>
  BY DEF Call, StoreInv, ControlTypeOK
<1>3. WorldInv'
  BY <1>1, WorldSame DEF StoreInv
<1>4. ControlTypeOK'
  <2>1. Len(b) \in Nat \ {0}
    BY EmptySeq
  <2>2. 0 < Len(b[1])
    BY <2>1
  <2> QED
    BY <1>1, <2>2 DEF StoreInv, ControlTypeOK
<1>5. UndoInv'
  BY <1>1 DEF UndoInv
<1>6. CallInv'
  <2>1. /\ \A i \in 1 .. done' : FALSE
        /\ ~(done' > 0)
    BY <1>1
  <2> QED
    BY <2>1 DEF CallInv
<1> QED
  BY <1>3, <1>4, <1>5, <1>6 DEF StoreInv

LEMMA DecidedTaken ==
  ASSUME NEW h \in Heights
  PROVE  Taken(AllDecided[h], h) /\ AllDecided[h] = Decided(h)
         /\ Taken(AllDecided[h], h)'
  BY OfferFacts DEF AllDecided, Taken

\* A commit writes the log, the next block, and clears the log.
LEMMA CommitStep == StoreInv /\ Commit => StoreInv'
<1> SUFFICES ASSUME StoreInv, Commit PROVE StoreInv'
  OBVIOUS
<1>0. is_validator
  BY DEF Commit
<1>1. PICK n \in Nat : WorldIs(n)
  BY DEF StoreInv, WorldInv
<1>2. /\ Len(world) = n /\ world = Chain(n - 1) /\ n \in Heights
      /\ apply_block(world, n) = Chain(n)
  <2>1. Len(world) = n /\ world = Chain(n - 1)
    BY <1>0, <1>1 DEF WorldIs, WorldOf
  <2>2. apply_block(world, n) = Chain(n)
    BY <2>1, ChainFacts
  <2>3. n < MaxHeight
    BY <2>1 DEF Commit
  <2> QED
    BY <1>1, <2>1, <2>2, <2>3, StoreAssumption DEF Heights
<1> DEFINE o == Decided(n)
<1>2a. o \in Offers(n)
  BY <1>2, OfferFacts
<1> DEFINE b == persist_then_broadcast(n, o)
<1>3. Call(b, Chain(n)) /\ is_validator /\ mode = "up" /\ mode' = mode /\ stray' = stray
  BY <1>2 DEF Commit, Decided
<1> HIDE DEF o
<1>4. /\ b = <<write_wal(n, o), put_block_ops(n, o), clear_wal>>
      /\ b \in Seq(Seq(Ops)) /\ Len(b) = 3 /\ b # <<>>
      /\ b[1] = write_wal(n, o) /\ b[2] = put_block_ops(n, o) /\ b[3] = clear_wal
  <2>1. /\ write_wal(n, o) \in Seq(Ops) /\ put_block_ops(n, o) \in Seq(Ops)
        /\ clear_wal \in Seq(Ops)
    BY <1>2, <1>2a, PutOps, OneOps
  <2>2. b = <<write_wal(n, o), put_block_ops(n, o), clear_wal>>
    BY DEF persist_then_broadcast
  <2> HIDE DEF b
  <2> QED
    BY <2>1, <2>2, ShortSeqs
<1> HIDE DEF b
<1>5. \A i \in 1 .. Len(b) : Len(b[i]) > 0
  <2>1. Len(write_wal(n, o)) = 1 /\ Len(clear_wal) = 1
    BY <1>2, <1>2a, OneOps
  <2>2. Len(put_block_ops(n, o)) = 5
    BY <1>2, <1>2a, PutOps
  <2>3. SUFFICES ASSUME NEW i \in 1 .. 3 PROVE Len(b[i]) > 0
    BY <1>4
  <2>4. i = 1 \/ i = 2 \/ i = 3
    OBVIOUS
  <2>5. Len(b[i]) = 1 \/ Len(b[i]) = 5
    BY <1>4, <2>1, <2>2, <2>4
  <2> QED
    BY <2>5
<1>5a. /\ todo' = b /\ goal' = Chain(n)
       /\ UNCHANGED <<disk, stored, stray, prune_cold, is_validator, world, mode>>
  BY <1>3 DEF Call
<1>5b. DiskInv' /\ Tip' = Tip
  BY <1>5a, DiskSame DEF StoreInv
<1>6. Writing(AllDecided, n, n, 0)'
  <2>2. Tip' = Tip /\ Tip \in {n - 1, n}
    BY <1>1, <1>3, <1>5b DEF WorldIs
  <2>3. PutReady(n)'
    BY <1>2, <1>5a, <2>2 DEF PutReady
  <2>4. \A i \in 1 .. Len(b) : b[i] = SyncBatch(AllDecided, 3 * n + 0 + i)
    <3>0. AllDecided[n] = o
      BY <1>2, DecidedTaken DEF o
    <3>1. 3 * n + 0 + 1 = 3 * n + 1 /\ 3 * n + 0 + 2 = 3 * n + 2 /\ 3 * n + 0 + 3 = 3 * n + 3
      OBVIOUS
    <3>2. b[1] = SyncBatch(AllDecided, 3 * n + 0 + 1) /\ b[2] = SyncBatch(AllDecided, 3 * n + 0 + 2)
          /\ b[3] = SyncBatch(AllDecided, 3 * n + 0 + 3)
      BY <1>2, <1>4, <3>0, <3>1, SyncBatches
    <3>3. \A i \in 1 .. 3 : i = 1 \/ i = 2 \/ i = 3
      OBVIOUS
    <3> QED
      BY <1>4, <3>2, <3>3
  <2>5. 3 * (n - n + 1) - 0 = 3 /\ n \in 0 .. n /\ 0 \in 0 .. 2 /\ 0 # 1 /\ 0 # 2
    OBVIOUS
  <2>6. Len(todo') = 3 /\ \A i \in 1 .. Len(todo') : todo'[i] = SyncBatch(AllDecided, 3 * n + 0 + i)
    BY <1>4, <1>5a, <2>4
  <2>7. \A g \in n .. n : Taken(AllDecided[g], g)'
    <3>1. \A g \in n .. n : g = n
      OBVIOUS
    <3> QED
      BY <1>2, <3>1, DecidedTaken
  <2>8. WorldOf(goal, n + 1)'
    <3>1. n + 1 \in Nat /\ (n + 1) - 1 = n
      OBVIOUS
    <3>2. Len(Chain(n)) = n + 1
      BY <3>1, ChainFacts
    <3> QED
      BY <1>5a, <3>1, <3>2 DEF WorldOf
  <2> QED
    BY <1>2, <1>5a, <2>3, <2>5, <2>6, <2>7, <2>8, Zenon DEF Writing
<1>7. 0 \in Nat
  OBVIOUS
<1> QED
  BY <1>3, <1>4, <1>5, <1>5b, <1>6, <1>7, CallBegins

\* A block is stored without a log, and old bodies are pruned.
LEMMA PruneStep == StoreInv /\ put_then_maybe_prune => StoreInv'
<1> SUFFICES ASSUME StoreInv, put_then_maybe_prune PROVE StoreInv'
  OBVIOUS
<1>1. PICK h \in Nat : WorldIs(h)
  BY DEF StoreInv, WorldInv
<1>2. /\ Len(world) = h /\ world = Chain(h - 1) /\ h \in Heights
      /\ apply_block(world, h) = Chain(h)
  <2>1. Len(world) = h /\ world = Chain(h - 1)
    BY <1>1 DEF WorldIs, WorldOf, put_then_maybe_prune
  <2>2. apply_block(world, h) = Chain(h)
    BY <2>1, ChainFacts
  <2>3. h < MaxHeight
    BY <2>1 DEF put_then_maybe_prune
  <2> QED
    BY <1>1, <2>1, <2>2, <2>3, StoreAssumption DEF Heights
<1>2a. Decided(h) \in Offers(h)
  BY <1>2, OfferFacts
<1>3. PICK n \in Nat :
         /\ n = IF prune_cold /\ HotWindow # 0 /\ h >= HotWindow THEN h - HotWindow + 1 ELSE 0
         /\ n > 0 => prune_cold /\ HotWindow > 0 /\ n + HotWindow <= h + 1
  <2>1. CASE prune_cold /\ HotWindow # 0 /\ h >= HotWindow
    <3>1. /\ h - HotWindow + 1 \in Nat /\ HotWindow > 0
          /\ (h - HotWindow + 1) + HotWindow <= h + 1
      BY <2>1, StoreAssumption
    <3> QED
      BY <2>1, <3>1
  <2>2. CASE ~(prune_cold /\ HotWindow # 0 /\ h >= HotWindow)
    BY <2>2
  <2> QED
    BY <2>1, <2>2
<1> DEFINE c == DeleteBodies(n)
<1> DEFINE b == <<put_block_ops(h, Decided(h))>> \o c
<1>4. Call(b, Chain(h)) /\ is_validator /\ mode = "up" /\ mode' = mode /\ stray' = stray
  BY <1>2, <1>3 DEF put_then_maybe_prune, prune_cold_bodies, Decided
<1>5. \A i \in 1 .. n : i - 1 \in Heights
  BY <1>2, <1>3, StoreAssumption DEF Heights
<1>6. /\ c = [i \in 1 .. n |-> <<Delete(<<"body", i - 1>>)>>]
      /\ \A i \in 1 .. n : <<Delete(<<"body", i - 1>>)>> \in Seq(Ops)
  BY <1>5, OneOps, OfferFacts DEF DeleteBodies
<1> HIDE DEF c
<1>7. c \in Seq(Seq(Ops)) /\ Len(c) = n /\ \A i \in 1 .. n : c[i] = <<Delete(<<"body", i - 1>>)>>
  <2>1. c \in [1 .. n -> Seq(Ops)] /\ \A i \in 1 .. n : c[i] = <<Delete(<<"body", i - 1>>)>>
    BY <1>6
  <2> QED
    BY <2>1, SeqOfFunction
<1> DEFINE a == <<put_block_ops(h, Decided(h))>>
<1>8. a \in Seq(Seq(Ops)) /\ Len(a) = 1 /\ a[1] = put_block_ops(h, Decided(h))
  BY <1>2, <1>2a, PutOps, ShortSeqs
<1>9. b = a \o c
  OBVIOUS
<1> HIDE DEF a, b
<1>10. /\ b \in Seq(Seq(Ops)) /\ Len(b) = n + 1 /\ b[1] = put_block_ops(h, Decided(h))
       /\ \A i \in 2 .. Len(b) : b[i] = <<Delete(<<"body", i - 2>>)>>
  <2>1. /\ b \in Seq(Seq(Ops)) /\ Len(b) = Len(a) + Len(c)
        /\ \A i \in 1 .. Len(a) + Len(c) : b[i] = IF i <= Len(a) THEN a[i] ELSE c[i - Len(a)]
    BY <1>7, <1>8, <1>9, ConcatProperties
  <2>2. Len(b) = n + 1 /\ b[1] = put_block_ops(h, Decided(h))
    <3>1. Len(a) + Len(c) = n + 1 /\ 1 \in 1 .. Len(a) + Len(c) /\ 1 <= Len(a)
      BY <1>7, <1>8
    <3> QED
      BY <1>8, <2>1, <3>1
  <2>3. ASSUME NEW i \in 2 .. Len(b)
        PROVE  b[i] = <<Delete(<<"body", i - 2>>)>>
    <3>1. b[i] = c[i - 1] /\ i - 1 \in 1 .. n
      BY <1>3, <1>7, <1>8, <2>1, <2>2
    <3>2. (i - 1) - 1 = i - 2
      OBVIOUS
    <3>3. c[i - 1] = <<Delete(<<"body", (i - 1) - 1>>)>>
      BY <1>7, <3>1
    <3> QED
      BY <3>1, <3>2, <3>3
  <2> QED
    BY <2>1, <2>2, <2>3
<1>11. \A i \in 1 .. Len(b) : Len(b[i]) > 0
  <2>1. Len(put_block_ops(h, Decided(h))) = 5
    BY <1>2, <1>2a, PutOps
  <2>2. \A i \in 2 .. Len(b) : Len(<<Delete(<<"body", i - 2>>)>>) = 1
    OBVIOUS
  <2>3. \A i \in 2 .. Len(b) : Len(b[i]) = 1
    BY <1>10, <2>2
  <2>4. SUFFICES ASSUME NEW i \in 1 .. Len(b) PROVE Len(b[i]) > 0
    OBVIOUS
  <2>5. i = 1 \/ i \in 2 .. Len(b)
    BY <1>10
  <2>6. Len(b[i]) = 1 \/ Len(b[i]) = 5
    BY <1>10, <2>1, <2>3, <2>5
  <2>7. \A l : l = 1 \/ l = 5 => l > 0
    OBVIOUS
  <2> QED
    BY <2>6, <2>7, Zenon
<1>11a. /\ todo' = b /\ goal' = Chain(h)
        /\ UNCHANGED <<disk, stored, stray, prune_cold, is_validator, world, mode>>
  BY <1>4 DEF Call
<1>11b. DiskInv' /\ Tip' = Tip
  BY <1>11a, DiskSame DEF StoreInv
<1>12. StoringFirst(h, n)'
  <2>1. /\ todo' = b /\ goal' = Chain(h)
        /\ UNCHANGED <<disk, stored, prune_cold, is_validator, world, mode>>
    BY <1>11a
  <2>2. Tip' = Tip /\ Tip \in {h - 1, h}
    BY <1>1, <1>4, <1>11b DEF WorldIs
  <2>3. PutReady(h)'
    BY <1>2, <2>1, <2>2 DEF PutReady
  <2>4. Pruning(h, n)'
    BY <1>2, <1>3, <1>4, <2>1 DEF Pruning
  <2> QED
    BY <1>10, <2>1, <2>3, <2>4 DEF StoringFirst
<1>13. b # <<>>
  BY <1>3, <1>10
<1> QED
  BY <1>3, <1>4, <1>10, <1>11, <1>11b, <1>12, <1>13, CallBegins

\* Catching up writes every offer from the first one on.
LEMMA CatchupStep ==
  ASSUME StoreInv, NEW k \in Heights, catchup(k)
  PROVE  StoreInv'
<1>1. PICK f \in [0 .. k -> UNION {Offers(h) : h \in 0 .. k}] :
         /\ ~is_validator /\ mode = "up" /\ mode' = mode
         /\ \A h \in 0 .. k : f[h] \in Offers(h)
         /\ Call(wire_sync(f, k), None)
         /\ stray' = stray \cup {h \in 0 .. k : f[h] # Decided(h)}
  BY DEF catchup
<1> DEFINE b == wire_sync(f, k)
<1>2. k \in Nat /\ 0 \in Heights /\ 0 .. k \subseteq Heights
  BY ValueFacts, StoreAssumption DEF Heights
<1>3. b = [i \in 1 .. 3 * (k + 1) |-> SyncBatch(f, i)]
  BY DEF wire_sync, SyncBatch
<1>3a. /\ todo' = b /\ goal' = None /\ Call(b, None)
       /\ UNCHANGED <<disk, stored, prune_cold, is_validator, world, mode>>
  BY <1>1 DEF Call
<1> HIDE DEF b
<1>4. /\ b \in Seq(Seq(Ops)) /\ Len(b) = 3 * (k + 1)
      /\ \A i \in 1 .. 3 * (k + 1) : b[i] = SyncBatch(f, i)
  <2>1. /\ b \in [1 .. 3 * (k + 1) -> Seq(Ops)]
        /\ \A i \in 1 .. 3 * (k + 1) : b[i] = SyncBatch(f, i)
    BY <1>1, <1>3, SyncBatchType
  <2>2. 3 * (k + 1) \in Nat
    BY <1>2
  <2> QED
    BY <2>1, <2>2, SeqOfFunction
<1>5. b # <<>> /\ \A i \in 1 .. Len(b) : Len(b[i]) > 0
  <2>1. Len(b) # 0
    BY <1>2, <1>4
  <2>2. \A i \in 1 .. Len(b) : Len(b[i]) > 0
    BY <1>1, <1>4, SyncBatchType
  <2> QED
    BY <2>1, <2>2
<1>5a. DiskInv' /\ Tip' = Tip
  <2>1. stray \subseteq stray' /\ stray' \subseteq Heights
    BY <1>1, <1>2 DEF StoreInv, DiskInv, DiskTypeOK
  <2> QED
    BY <1>1, <1>3a, <2>1, StrayMore DEF StoreInv
<1>6. Writing(f, k, 0, 0)'
  <2>2. Tip \in Heights \cup {-1}
    BY TipFacts DEF StoreInv, DiskInv
  <2>3. Tip >= 0 - 1
    BY <2>2, ValueFacts
  <2>4. PutReady(0)'
    BY <1>1, <1>2, <1>3a, <1>5a, <2>3 DEF PutReady
  <2>5. 3 * (k - 0 + 1) - 0 = 3 * (k + 1) /\ 0 \in 0 .. k /\ 0 \in 0 .. 2 /\ 0 # 1 /\ 0 # 2
    BY <1>2
  <2>6. /\ Len(todo') = 3 * (k + 1)
        /\ \A i \in 1 .. Len(todo') : todo'[i] = SyncBatch(f, 3 * 0 + 0 + i)
    <3>1. \A i \in 1 .. 3 * (k + 1) : 3 * 0 + 0 + i = i
      OBVIOUS
    <3> QED
      BY <1>3a, <1>4, <3>1
  <2>7. ~is_validator'
    BY <1>1, <1>3a
  <2>8. \A g \in 0 .. k : Taken(f[g], g)'
    BY <1>1 DEF Taken
  <2> QED
    BY <1>3a, <2>4, <2>5, <2>6, <2>7, <2>8, Zenon DEF Writing
<1>7. 0 \in Nat
  OBVIOUS
<1> QED
  BY <1>1, <1>2, <1>3a, <1>4, <1>5, <1>5a, <1>6, <1>7, CallBegins

\* A node that has replayed its store is in a world that is stored.
LEMMA WorldReplayed == DiskInv /\ mode = "up" /\ WorldOf(world, Tip + 1) => WorldInv
<1> SUFFICES ASSUME DiskInv, mode = "up", WorldOf(world, Tip + 1) PROVE WorldInv
  OBVIOUS
<1>1. Tip \in Heights \cup {-1}
  BY TipFacts DEF DiskInv
<1>2. Tip \in Int /\ Tip + 1 \in Nat /\ Tip + 1 <= MaxHeight /\ (Tip + 1) - 1 = Tip
  BY <1>1, StoreAssumption DEF Heights
<1>3. \A h \in Heights : h < Tip + 1 => h \in stored
  <2>1. \A h \in Heights : h < Tip + 1 => h <= Tip
    BY <1>2, ValueFacts
  <2> QED
    BY <2>1 DEF DiskInv, StoredInv
<1>4. WorldIs(Tip + 1)
  BY <1>2, <1>3 DEF WorldIs
<1> QED
  BY <1>2, <1>4 DEF WorldInv

LEMMA WorldReplayedNext ==
  DiskInv' /\ mode' = "up" /\ WorldOf(world, Tip + 1)' => WorldInv'
<1>1. (DiskInv /\ mode = "up" /\ WorldOf(world, Tip + 1) => WorldInv)'
  BY WorldReplayed, PTL
<1> QED
  BY <1>1

\* Recovery of a node without a log replays.
LEMMA ReplayStep == StoreInv /\ RecoverReplay => StoreInv'
<1> SUFFICES ASSUME StoreInv, RecoverReplay PROVE StoreInv'
  OBVIOUS
<1>1. /\ mode = "down" /\ todo = <<>> /\ mode' = "up" /\ world' = Bodies(disk) /\ replay_ok(disk)
      /\ UNCHANGED <<disk, todo, done, snap, undoing, goal, stored, stray, prune_cold,
                     is_validator>>
  BY DEF RecoverReplay, StoreInv, ControlTypeOK, recover_ok
<1>2. DiskInv' /\ Tip' = Tip
  BY <1>1, DiskSame DEF StoreInv
<1>3. Tip \in Heights \cup {-1} /\ Tip \in Int /\ DiskTypeOK /\ disk \in [Keys -> Values]
  BY TipFacts DEF StoreInv, DiskInv, DiskTypeOK
<1>4. WorldOf(Bodies(disk), Tip + 1)
  BY <1>1, <1>3, Replayed, ValidatorBodies DEF Tip
<1>5. WorldOf(world, Tip + 1)'
  BY <1>1, <1>2, <1>4 DEF WorldOf
<1>6. WorldInv'
  BY <1>1, <1>2, <1>5, WorldReplayedNext
<1>7. ControlTypeOK' /\ CallInv' /\ UndoInv'
  BY <1>1 DEF StoreInv, ControlTypeOK, CallInv, UndoInv
<1> QED
  BY <1>2, <1>6, <1>7 DEF StoreInv

\* The log of a block that is stored is dropped.
LEMMA DropStep == StoreInv /\ RecoverDrop => StoreInv'
<1> SUFFICES ASSUME StoreInv, RecoverDrop PROVE StoreInv'
  OBVIOUS
<1>1. PICK h \in Heights : LogOf(h)
  BY DEF RecoverDrop, WalDone, StoreInv, DiskInv, DiskTypeOK
<1> DEFINE b == <<clear_wal>>
<1>2. Call(b, None) /\ mode = "down" /\ mode' = "recovering" /\ stray' = stray
  BY DEF RecoverDrop
<1>3. /\ b \in Seq(Seq(Ops)) /\ Len(b) = 1 /\ b # <<>> /\ b[1] = clear_wal
      /\ Len(clear_wal) = 1
  BY <1>1, OneOps, ShortSeqs DEF LogOf
<1> HIDE DEF b
<1>4. \A i \in 1 .. Len(b) : Len(b[i]) > 0
  BY <1>3
<1>5. DiskInv'
  <2>1. UNCHANGED <<disk, stored, stray, prune_cold, is_validator>>
    BY <1>2 DEF Call
  <2> QED
    BY <2>1, DiskSame DEF StoreInv
<1>6. h \in Nat /\ 2 \in Nat
  BY ValueFacts
<1>7. Writing(AllDecided, h, h, 2)'
  <2>1. todo' = b /\ goal' = None
    BY <1>2 DEF Call
  <2>2. /\ 3 * (h - h + 1) - 2 = 1 /\ h \in 0 .. h /\ 2 \in 0 .. 2 /\ 2 # 1
        /\ 3 * h + 2 + 1 = 3 * h + 3
    BY ValueFacts
  <2>3. Len(todo') = 1 /\ \A i \in 1 .. Len(todo') : todo'[i] = SyncBatch(AllDecided, 3 * h + 2 + i)
    <3>1. \A i \in 1 .. 1 : i = 1
      OBVIOUS
    <3>2. todo'[1] = SyncBatch(AllDecided, 3 * h + 2 + 1)
      BY <1>3, <2>1, <2>2, SyncBatches
    <3> QED
      BY <1>3, <2>1, <3>1, <3>2
  <2>4. \A g \in h .. h : Taken(AllDecided[g], g)'
    <3>1. \A g \in h .. h : g = h
      BY <1>6
    <3> QED
      BY <3>1, DecidedTaken
  <2> QED
    BY <1>2, <2>1, <2>2, <2>3, <2>4, Zenon DEF Writing
<1> QED
  BY <1>2, <1>3, <1>4, <1>5, <1>6, <1>7, CallBegins

\* A commit that was cut off is finished: its block is the one above the tip.
LEMMA FinishStep == StoreInv /\ RecoverFinish => StoreInv'
<1> SUFFICES ASSUME StoreInv, RecoverFinish PROVE StoreInv'
  OBVIOUS
<1>1. PICK h \in Heights : LogOf(h)
  BY DEF RecoverFinish, StoreInv, DiskInv, DiskTypeOK
<1>1a. PICK o \in Offers(h) : disk[WalKey] = WalRecord(h, o) /\ (o = Decided(h) \/ h \in stray)
  BY <1>1 DEF LogOf
<1>2. /\ disk[WalKey].height = h /\ disk[WalKey].block = o.block /\ disk[WalKey].app = o.app
      /\ disk[WalKey] # None /\ h \in Nat
      /\ o = [block |-> o.block, app |-> o.app]
  BY <1>1a, OfferFacts, ValueFacts
<1>3. /\ replay_ok(disk) /\ apply_block(Bodies(disk), o.block) = o.app
      /\ mode = "down" /\ mode' = "recovering" /\ disk[<<"body", h>>] = None
      /\ stray' = stray
  BY <1>2 DEF RecoverFinish, recover_ok, WalDone
<1>4. /\ Tip \in Heights \cup {-1} /\ Tip \in Int /\ Tip + 1 \in Nat /\ (Tip + 1) - 1 = Tip
      /\ DiskTypeOK /\ disk \in [Keys -> Values]
  BY TipFacts, StoreAssumption DEF StoreInv, DiskInv, DiskTypeOK, Heights
<1>5. WorldOf(Bodies(disk), Tip + 1) /\ Bodies(disk) \in Seq(Values)
  BY <1>3, <1>4, Replayed, ValidatorBodies DEF Tip
<1>5a. Len(apply_block(Bodies(disk), o.block)) = Tip + 2
  <2>1. o.block \in Values
    BY OfferFacts
  <2> QED
    BY <1>4, <1>5, <2>1 DEF apply_block, WorldOf
<1>5b. ASSUME is_validator
       PROVE  /\ o = Decided(h) /\ o.app = Chain(h) /\ Tip = h - 1
  <2>1. o = Decided(h) /\ o.app = Chain(h)
    BY <1>1a, <1>5b, OfferFacts DEF StoreInv, DiskInv, DiskTypeOK
  <2>2. Len(Chain(h)) = h + 1
    <3>1. h + 1 \in Nat /\ (h + 1) - 1 = h
      BY <1>2
    <3> QED
      BY <3>1, ChainFacts
  <2>3. Tip + 2 = h + 1
    BY <1>3, <1>5a, <2>1, <2>2
  <2> QED
    BY <1>2, <1>4, <2>1, <2>3
<1>6. Tip = h - 1
  <2>1. ASSUME ~is_validator PROVE h = Tip + 1
    BY <1>1, <1>3, <2>1 DEF StoreInv, DiskInv, DiskTypeOK, WalInv
  <2> QED
    BY <1>2, <1>4, <1>5b, <2>1
<1> DEFINE x == put_block_ops(h, o)
<1> DEFINE b == <<x, clear_wal>>
<1> DEFINE w == apply_block(Bodies(disk), o.block)
<1>7. Call(b, w)
  BY <1>2 DEF RecoverFinish
<1>7a. WorldOf(w, h + 1)
  <2>1. Len(w) = h + 1
    BY <1>2, <1>4, <1>5a, <1>6
  <2>2. is_validator => w = Chain((h + 1) - 1)
    <3>1. (h + 1) - 1 = h
      BY <1>2
    <3> QED
      BY <1>3, <1>5b, <3>1
  <2> QED
    BY <2>1, <2>2 DEF WorldOf
<1> HIDE DEF w
<1>8. /\ b \in Seq(Seq(Ops)) /\ Len(b) = 2 /\ b # <<>> /\ b[1] = x /\ b[2] = clear_wal
      /\ Len(clear_wal) = 1 /\ Len(x) = 5
  <2>1. x \in Seq(Ops) /\ Len(x) = 5 /\ clear_wal \in Seq(Ops) /\ Len(clear_wal) = 1
    BY PutOps, OneOps
  <2> HIDE DEF x
  <2> QED
    BY <2>1, ShortSeqs
<1> HIDE DEF b
<1>9. \A i \in 1 .. Len(b) : Len(b[i]) > 0
  <2> HIDE DEF x
  <2>1. SUFFICES ASSUME NEW i \in 1 .. 2 PROVE Len(b[i]) > 0
    BY <1>8
  <2>2. i = 1 \/ i = 2
    OBVIOUS
  <2>3. Len(b[i]) \in {1, 5}
    BY <1>8, <2>2
  <2> QED
    BY <2>3, FewOps, Zenon
<1>9a. /\ todo' = b /\ goal' = w
       /\ UNCHANGED <<disk, stored, stray, prune_cold, is_validator, world>>
  BY <1>3, <1>7 DEF Call
<1>9b. DiskInv' /\ Tip' = Tip /\ \A q, g : Taken(q, g)' <=> Taken(q, g)
  BY <1>9a, DiskSame DEF StoreInv
<1> DEFINE f == [g \in Heights |-> o]
<1>9c. f[h] = o
  OBVIOUS
<1> HIDE DEF f
<1>10. Writing(f, h, h, 1)'
  <2>2. /\ 3 * (h - h + 1) - 1 = 2 /\ h \in 0 .. h /\ 1 \in 0 .. 2 /\ 1 # 2
        /\ 3 * h + 1 + 1 = 3 * h + 2 /\ 3 * h + 1 + 2 = 3 * h + 3
    BY <1>2
  <2>3. Len(todo') = 2 /\ \A i \in 1 .. Len(todo') : todo'[i] = SyncBatch(f, 3 * h + 1 + i)
    <3>1. \A i \in 1 .. 2 : i = 1 \/ i = 2
      OBVIOUS
    <3>2. todo'[1] = SyncBatch(f, 3 * h + 1 + 1) /\ todo'[2] = SyncBatch(f, 3 * h + 1 + 2)
      BY <1>8, <1>9a, <1>9c, <2>2, SyncBatches
    <3> QED
      BY <1>8, <1>9a, <3>1, <3>2
  <2>5. Tip >= h - 1 /\ Tip \in {h - 1, h}
    BY <1>2, <1>6
  <2>6. PutReady(h)'
    BY <1>3, <1>9a, <1>9b, <2>5 DEF PutReady
  <2>7. disk'[WalKey] = WalRecord(h, f[h])
    BY <1>1a, <1>9a, <1>9c
  <2>8. WorldOf(goal, h + 1)'
    BY <1>7a, <1>9a DEF WorldOf
  <2>9. \A g \in h .. h : Taken(f[g], g)'
    <3>1. \A g \in h .. h : g = h
      BY <1>2
    <3>2. Taken(f[h], h)'
      BY <1>1a, <1>9a, <1>9c DEF Taken
    <3> QED
      BY <3>1, <3>2
  <2> QED
    BY <2>2, <2>3, <2>6, <2>7, <2>8, <2>9, Zenon DEF Writing
<1>11. 1 \in Nat
  OBVIOUS
<1> QED
  BY <1>2, <1>3, <1>7, <1>8, <1>9, <1>9b, <1>10, <1>11, CallBegins

LEMMA CrashStep == StoreInv /\ Crash => StoreInv'
<1> SUFFICES ASSUME StoreInv, Crash PROVE StoreInv'
  OBVIOUS
<1>1. /\ mode' = "down" /\ world' = <<>> /\ todo' = <<>> /\ done' = 0 /\ undoing' = FALSE
      /\ UNCHANGED <<disk, stored, stray, prune_cold, is_validator>>
  BY DEF Crash
<1>2. DiskInv'
  BY <1>1, DiskSame DEF StoreInv
<1>3. WorldInv'
  <2>1. WorldOf(world, 0)'
    BY <1>1 DEF WorldOf, Chain
  <2>2. WorldIs(0)'
    BY <1>1, <2>1, StoreAssumption DEF WorldIs
  <2> QED
    BY <2>2 DEF WorldInv
<1>4. ControlTypeOK'
  <2>1. <<>> \in Seq(Seq(Ops)) /\ \A i \in 1 .. Len(<<>>) : FALSE
    OBVIOUS
  <2>2. 0 \in Nat /\ FALSE \in BOOLEAN
    OBVIOUS
  <2> QED
    BY <1>1, <2>1, <2>2, Zenon DEF StoreInv, ControlTypeOK
<1>5. CallInv' /\ UndoInv'
  BY <1>1 DEF CallInv, UndoInv
<1> QED
  BY <1>2, <1>3, <1>4, <1>5 DEF StoreInv

----------------------------------------------------------------------------
(* The batch under way.                                                    *)

PutHead(h, o) ==
    /\ todo[1] = put_block_ops(h, o) /\ PutReady(h) /\ Taken(o, h)
    /\ is_validator \/ disk[WalKey] = WalRecord(h, o)

WalHead(h, o) == todo[1] = write_wal(h, o) /\ Tip >= h - 1 /\ Taken(o, h)

ClearHead == todo[1] = clear_wal

DeleteHead(h) == todo[1] = <<Delete(<<"body", h>>)>> /\ Pruned(h)

LEMMA WritingHead ==
  ASSUME StoreInv, NEW f, NEW k \in Nat, NEW h \in Nat, NEW p \in Nat, Writing(f, k, h, p)
  PROVE  /\ h \in Heights /\ Len(todo) >= 1
         /\ p = 0 => WalHead(h, f[h])
         /\ p = 1 => PutHead(h, f[h])
         /\ p = 2 => ClearHead
<1>1. k \in Heights /\ h \in 0 .. k /\ p \in 0 .. 2 /\ Len(todo) = 3 * (k - h + 1) - p
  BY DEF Writing
<1>2. h \in Heights /\ Len(todo) >= 1
  BY <1>1, StoreAssumption DEF Heights
<1>2a. Taken(f[h], h)
  <2>1. h \in h .. k
    BY <1>1
  <2> QED
    BY <2>1 DEF Writing
<1>3. todo[1] = SyncBatch(f, 3 * h + p + 1)
  <2>1. 1 \in 1 .. Len(todo)
    BY <1>1, <1>2
  <2> QED
    BY <2>1 DEF Writing
<1>4. ASSUME p = 0 PROVE WalHead(h, f[h])
  <2>1. 3 * h + p + 1 = 3 * h + 1 /\ p # 2
    BY <1>4
  <2>2. todo[1] = write_wal(h, f[h])
    BY <1>2, <1>3, <2>1, SyncBatches
  <2>3. Tip >= h - 1
    BY <2>1 DEF Writing, PutReady
  <2> QED
    BY <1>2a, <2>2, <2>3 DEF WalHead
<1>5. ASSUME p = 1 PROVE PutHead(h, f[h])
  <2>1. 3 * h + p + 1 = 3 * h + 2 /\ p # 2
    BY <1>5
  <2>2. todo[1] = put_block_ops(h, f[h])
    BY <1>2, <1>3, <2>1, SyncBatches
  <2>3. PutReady(h) /\ disk[WalKey] = WalRecord(h, f[h])
    BY <1>5, <2>1 DEF Writing
  <2> QED
    BY <1>2a, <2>2, <2>3 DEF PutHead
<1>6. ASSUME p = 2 PROVE ClearHead
  <2>1. 3 * h + p + 1 = 3 * h + 3
    BY <1>6
  <2> QED
    BY <1>2, <1>3, <2>1, SyncBatches DEF ClearHead
<1> QED
  BY <1>2, <1>4, <1>5, <1>6

LEMMA DeletingHead ==
  ASSUME StoreInv, todo # <<>>, NEW h \in Nat, NEW n \in Nat, Deleting(h, n)
  PROVE  n - Len(todo) \in Heights /\ DeleteHead(n - Len(todo))
<1>1. /\ h \in Heights /\ is_validator /\ Len(todo) <= n /\ Tip = h
      /\ n > 0 => prune_cold /\ HotWindow > 0 /\ n + HotWindow <= h + 1
  BY DEF Deleting, Pruning
<1>2. Len(todo) \in Nat \ {0}
  BY EmptySeq DEF StoreInv, ControlTypeOK
<1>3. /\ n > 0 /\ n - Len(todo) \in Nat /\ n - Len(todo) + 1 - 1 = n - Len(todo)
      /\ 1 \in 1 .. Len(todo) /\ HotWindow \in Nat
  BY <1>1, <1>2, StoreAssumption
<1>4. prune_cold /\ HotWindow > 0 /\ n + HotWindow <= h + 1
  BY <1>1, <1>3
<1>5. n - Len(todo) + HotWindow <= h /\ n - Len(todo) <= h
  BY <1>2, <1>3, <1>4
<1>6. n - Len(todo) \in Heights
  BY <1>1, <1>2, <1>3, <1>5, StoreAssumption DEF Heights
<1>7. h \in stored
  BY <1>1, ValueFacts DEF StoreInv, DiskInv, StoredInv
<1>8. Pruned(n - Len(todo))
  BY <1>1, <1>4, <1>5, <1>7 DEF Pruned
<1>9. todo[1] = <<Delete(<<"body", n - Len(todo)>>)>>
  <2>1. todo[1] = <<Delete(<<"body", n - Len(todo) + 1 - 1>>)>>
    BY <1>3 DEF Deleting
  <2> QED
    BY <1>3, <2>1
<1> QED
  BY <1>6, <1>8, <1>9 DEF DeleteHead

LEMMA HeadCases ==
  ASSUME StoreInv, todo # <<>>, ~undoing
  PROVE  \/ \E h \in Heights : \E o : PutHead(h, o) \/ WalHead(h, o)
         \/ \E h \in Heights : DeleteHead(h)
         \/ ClearHead
<1>1. CASE \E f : \E k, h, p \in Nat : Writing(f, k, h, p)
  <2>0. PICK f : \E k, h, p \in Nat : Writing(f, k, h, p)
    BY <1>1
  <2>1. PICK k \in Nat, h \in Nat, p \in Nat : Writing(f, k, h, p)
    BY <2>0
  <2>2. p = 0 \/ p = 1 \/ p = 2
    <3>1. p \in 0 .. 2
      BY <2>1 DEF Writing
    <3> QED
      BY <3>1
  <2> QED
    BY <2>1, <2>2, WritingHead
<1>2. CASE \E h, n \in Nat : StoringFirst(h, n)
  <2>1. PICK h \in Nat, n \in Nat : StoringFirst(h, n)
    BY <1>2
  <2>2. h \in Heights /\ is_validator /\ todo[1] = put_block_ops(h, Decided(h)) /\ PutReady(h)
    BY <2>1 DEF StoringFirst, Pruning
  <2>3. Taken(Decided(h), h)
    BY <2>2, OfferFacts DEF Taken
  <2> QED
    BY <2>2, <2>3 DEF PutHead
<1>3. CASE \E h, n \in Nat : Deleting(h, n)
  BY <1>3, DeletingHead
<1> QED
  BY <1>1, <1>2, <1>3 DEF StoreInv, CallInv

\* The keys of a batch.
LEMMA HeadKeys ==
  ASSUME StoreInv, todo # <<>>, ~undoing
  PROVE  \A i, j \in 1 .. Len(todo[1]) : todo[1][i].key = todo[1][j].key => i = j
<1>1. ASSUME Len(todo[1]) = 1
      PROVE  \A i, j \in 1 .. Len(todo[1]) : todo[1][i].key = todo[1][j].key => i = j
  BY <1>1
<1>2. ASSUME NEW h \in Heights, NEW o, PutHead(h, o)
      PROVE  \A i, j \in 1 .. Len(todo[1]) : todo[1][i].key = todo[1][j].key => i = j
  <2>0. o \in Offers(h)
    BY <1>2 DEF PutHead, Taken
  <2>1. /\ Len(todo[1]) = 5
        /\ todo[1][1].key = <<"header", h>> /\ todo[1][2].key = <<"hash", o.block>>
        /\ todo[1][3].key = <<"body", h>> /\ todo[1][4].key = <<"app", h>>
        /\ todo[1][5].key = TipKey
    BY <1>2, <2>0, PutKeys DEF PutHead
  <2>2. /\ <<"header", h>> # <<"hash", o.block>> /\ <<"header", h>> # <<"body", h>>
        /\ <<"header", h>> # <<"app", h>> /\ <<"hash", o.block>> # <<"body", h>>
        /\ <<"hash", o.block>> # <<"app", h>> /\ <<"body", h>> # <<"app", h>>
        /\ TipKey \notin {<<"header", h>>, <<"hash", o.block>>, <<"body", h>>, <<"app", h>>}
    BY DEF TipKey
  <2>3. \A i \in 1 .. 5 : i = 1 \/ i = 2 \/ i = 3 \/ i = 4 \/ i = 5
    OBVIOUS
  <2> QED
    BY <2>1, <2>2, <2>3
<1>3. ASSUME NEW h \in Heights, NEW o, WalHead(h, o) PROVE Len(todo[1]) = 1
  BY <1>3, OneOps DEF WalHead, Taken
<1>4. ASSUME NEW h \in Heights, DeleteHead(h) PROVE Len(todo[1]) = 1
  BY <1>4 DEF DeleteHead
<1>5. ASSUME ClearHead PROVE Len(todo[1]) = 1
  BY <1>5 DEF ClearHead, clear_wal
<1> QED
  BY <1>1, <1>2, <1>3, <1>4, <1>5, HeadCases

\* A failed write turns the batch into its roll back.
LEMMA FailStep == StoreInv /\ WriteFails => StoreInv'
<1> SUFFICES ASSUME StoreInv, WriteFails PROVE StoreInv'
  OBVIOUS
<1> DEFINE batch == todo[1]
<1> DEFINE d == IF done = 0 THEN disk ELSE snap
<1>1. /\ todo # <<>> /\ ~undoing /\ done' = 0 /\ undoing' = TRUE
      /\ todo' = <<restore(Head(todo), d)>>
      /\ UNCHANGED <<disk, mode, world, stored, stray, prune_cold, is_validator>>
  BY DEF WriteFails
<1>2. todo \in Seq(Seq(Ops)) /\ Head(todo) = batch /\ batch \in Seq(Ops) /\ Len(batch) \in Nat \ {0}
  <2>1. todo \in Seq(Seq(Ops)) /\ Len(todo) \in Nat \ {0}
    BY <1>1, EmptySeq DEF StoreInv, ControlTypeOK
  <2>2. 1 \in 1 .. Len(todo)
    BY <2>1
  <2>3. batch \in Seq(Ops) /\ Len(batch) > 0 /\ Len(batch) \in Nat
    BY <2>1, <2>2, ElementOfSeq, LenProperties DEF StoreInv, ControlTypeOK
  <2>4. Head(todo) = batch
    BY <2>1
  <2> QED
    BY <2>1, <2>3, <2>4
<1> DEFINE u == restore(batch, d)
<1>3. \A i \in 1 .. Len(batch) : batch[i] \in Ops /\ batch[i].key \in Keys
  <2> HIDE DEF batch
  <2>1. \A i \in 1 .. Len(batch) : batch[i] \in Ops
    BY <1>2, ElementOfSeq
  <2>2. \A op \in Ops : op.key \in Keys
    BY DEF Ops
  <2> QED
    BY <2>1, <2>2
<1>4. \A i \in 1 .. Len(batch) :
         \/ d[batch[i].key] = disk[batch[i].key]
         \/ Loose(batch[i].key, d[batch[i].key])
  <2>1. CASE done = 0
    BY <2>1
  <2>2. CASE done # 0
    <3>1. done > 0
      BY <2>2 DEF StoreInv, ControlTypeOK
    <3> QED
      BY <1>1, <2>2, <3>1 DEF StoreInv, CallInv
  <2> QED
    BY <2>1, <2>2
<1> HIDE DEF d
<1>5. \A i \in 1 .. Len(batch) : d[batch[i].key] \in Values
  BY <1>3, <1>4 DEF StoreInv, DiskInv, DiskTypeOK, Loose
<1>6. u = [i \in 1 .. Len(batch) |-> Put(batch[i].key, d[batch[i].key])]
  BY DEF restore
<1> HIDE DEF u
<1>7. /\ u \in Seq(Ops) /\ Len(u) = Len(batch)
      /\ \A i \in 1 .. Len(batch) : u[i].key = batch[i].key /\ u[i].val = d[batch[i].key]
  <2>1. \A i \in 1 .. Len(batch) : Put(batch[i].key, d[batch[i].key]) \in Ops
    BY <1>3, <1>5 DEF Put, Ops
  <2>2. u \in [1 .. Len(batch) -> Ops]
    BY <1>6, <2>1
  <2>3. \A i \in 1 .. Len(batch) : u[i].key = batch[i].key /\ u[i].val = d[batch[i].key]
    BY <1>6 DEF Put
  <2> QED
    BY <1>2, <2>2, <2>3, SeqOfFunction
<1>8. todo' = <<u>> /\ todo' \in Seq(Seq(Ops)) /\ Len(todo') = 1 /\ todo'[1] = u /\ todo' # <<>>
  <2>1. todo' = <<u>>
    BY <1>1, <1>2 DEF u
  <2> QED
    BY <1>7, <2>1, ShortSeqs
<1>9. DiskInv' /\ \A key, v : Loose(key, v)' <=> Loose(key, v)
  BY <1>1, DiskSame DEF StoreInv
<1>10. WorldInv'
  BY <1>1, WorldSame DEF StoreInv
<1>11. ControlTypeOK'
  <2>1. mode # "down"
    BY <1>1 DEF StoreInv, ControlTypeOK
  <2>2. \A i \in 1 .. Len(todo') : Len(todo'[i]) > 0
    BY <1>2, <1>7, <1>8
  <2>3. 0 < Len(todo'[1]) /\ 0 \in Nat /\ TRUE \in BOOLEAN
    BY <1>2, <1>7, <1>8
  <2> QED
    BY <1>1, <1>8, <2>1, <2>2, <2>3, Zenon DEF StoreInv, ControlTypeOK
<1>12. CallInv'
  BY <1>1 DEF CallInv
<1>13. UndoInv'
  <2>1. \A i, j \in 1 .. Len(u) : u[i].key = u[j].key => i = j
    BY <1>1, <1>7, HeadKeys
  <2>2. \A i \in 1 .. Len(u) : u[i].val = disk[u[i].key] \/ Loose(u[i].key, u[i].val)
    BY <1>4, <1>7
  <2>3. \A i \in done' + 1 .. Len(u) : i \in 1 .. Len(u)
    BY <1>1
  <2> QED
    BY <1>1, <1>8, <1>9, <2>1, <2>2, <2>3 DEF UndoInv
<1> QED
  BY <1>9, <1>10, <1>11, <1>12, <1>13 DEF StoreInv

----------------------------------------------------------------------------
(* One write of the batch.                                                 *)

Last == done + 1 = Len(todo[1])

Returns == Last /\ Len(todo) = 1

\* The batches and the operation that is written.
LEMMA TodoFacts ==
  ASSUME StoreInv, todo # <<>>
  PROVE  /\ todo \in Seq(Seq(Ops)) /\ Len(todo) \in Nat \ {0}
         /\ Head(todo) = todo[1] /\ todo[1] \in Seq(Ops) /\ Len(todo[1]) \in Nat
         /\ done \in Nat /\ done + 1 \in 1 .. Len(todo[1])
         /\ \A i \in 1 .. Len(todo[1]) : todo[1][i].key \in Keys /\ todo[1][i].val \in Values
         /\ Tail(todo) \in Seq(Seq(Ops)) /\ Len(Tail(todo)) = Len(todo) - 1
         /\ \A i \in 1 .. Len(Tail(todo)) : Tail(todo)[i] = todo[i + 1]
         /\ Tail(todo) = <<>> <=> Len(todo) = 1
<1>1. todo \in Seq(Seq(Ops)) /\ Len(todo) \in Nat \ {0}
  BY EmptySeq DEF StoreInv, ControlTypeOK
<1>2. 1 \in 1 .. Len(todo)
  BY <1>1
<1>3. Head(todo) = todo[1] /\ todo[1] \in Seq(Ops) /\ Len(todo[1]) \in Nat
  BY <1>1, <1>2, ElementOfSeq, LenProperties
<1>4. done \in Nat /\ done + 1 \in 1 .. Len(todo[1])
  BY <1>3 DEF StoreInv, ControlTypeOK
<1>5. \A i \in 1 .. Len(todo[1]) : todo[1][i].key \in Keys /\ todo[1][i].val \in Values
  <2>1. \A i \in 1 .. Len(todo[1]) : todo[1][i] \in Ops
    BY <1>3, ElementOfSeq
  <2>2. \A op \in Ops : op.key \in Keys /\ op.val \in Values
    BY DEF Ops
  <2> QED
    BY <2>1, <2>2
<1>6. /\ Tail(todo) \in Seq(Seq(Ops)) /\ Len(Tail(todo)) = Len(todo) - 1
      /\ \A i \in 1 .. Len(Tail(todo)) : Tail(todo)[i] = todo[i + 1]
  BY <1>1, HeadTailProperties
<1>7. Tail(todo) = <<>> <=> Len(todo) = 1
  <2>1. Tail(todo) = <<>> => Len(Tail(todo)) = 0
    BY EmptySeq
  <2>2. Tail(todo) # <<>> => Len(Tail(todo)) # 0
    BY <1>6, EmptySeq
  <2> QED
    BY <1>1, <1>6, <2>1, <2>2, SMTT(40)
<1> QED
  BY <1>1, <1>3, <1>4, <1>5, <1>6, <1>7

LEMMA AdvanceFacts ==
  ASSUME StoreInv, Write \/ RestoreFails
  PROVE  /\ todo # <<>>
         /\ UNCHANGED <<undoing, goal, prune_cold, is_validator>>
         /\ ~Last => /\ todo' = todo /\ done' = done + 1
                     /\ snap' = IF done = 0 THEN disk ELSE snap
         /\ Last => todo' = Tail(todo) /\ done' = 0
         /\ ~Returns => UNCHANGED <<mode, world>>
         /\ Returns => /\ todo' = <<>>
                       /\ \/ mode' = (IF mode = "recovering" THEN "down" ELSE "up") /\ world' = world
                          \/ ~undoing /\ goal # None /\ mode' = "up" /\ world' = goal
                          \/ ~undoing /\ goal = None /\ replay_ok(disk')
                                /\ mode' = "up" /\ world' = Bodies(disk')
         /\ stored' = IF todo[1][done + 1].key = TipKey /\ ~undoing
                      THEN stored \cup {disk'[TipKey]} ELSE stored
         /\ stray' = IF /\ todo[1][done + 1].key = TipKey /\ ~undoing
                        /\ todo[1] = put_block_ops(disk'[TipKey], Decided(disk'[TipKey]))
                     THEN stray \ {disk'[TipKey]} ELSE stray
<1>1. todo # <<>>
  BY DEF Write, RestoreFails
<1>2. /\ Head(todo) = todo[1] /\ Len(todo) \in Nat
      /\ Tail(todo) = <<>> <=> Len(todo) = 1
  BY <1>1, TodoFacts
<1>3. Advance(disk')
  <2>1. CASE RestoreFails
    BY <2>1 DEF RestoreFails, Advance
  <2>2. CASE Write
    <3> DEFINE e == [disk EXCEPT ![Head(todo)[done + 1].key] = Head(todo)[done + 1].val]
    <3>1. Advance(e)
      BY <2>2 DEF Write
    <3> HIDE DEF e
    <3>2. disk' = e
      BY <3>1 DEF Advance
    <3> QED
      BY <3>1, <3>2
  <2> QED
    BY <2>1, <2>2
<1>4. /\ UNCHANGED <<undoing, goal, prune_cold, is_validator>>
      /\ todo' = IF Last THEN Tail(todo) ELSE todo
      /\ done' = IF Last THEN 0 ELSE done + 1
      /\ snap' = IF Last THEN None ELSE IF done = 0 THEN disk ELSE snap
      /\ stored' = IF todo[1][done + 1].key = TipKey /\ ~undoing
                   THEN stored \cup {disk'[TipKey]} ELSE stored
      /\ stray' = IF /\ todo[1][done + 1].key = TipKey /\ ~undoing
                     /\ todo[1] = put_block_ops(disk'[TipKey], Decided(disk'[TipKey]))
                  THEN stray \ {disk'[TipKey]} ELSE stray
  BY <1>2, <1>3 DEF Advance, Last
<1> DEFINE fails == undoing \/ (goal = None /\ ~replay_ok(disk'))
<1>5. /\ world' = IF ~Returns \/ fails THEN world
                  ELSE IF goal = None THEN Bodies(disk') ELSE goal
      /\ mode' = IF ~Returns THEN mode
                 ELSE IF fails /\ mode = "recovering" THEN "down" ELSE "up"
  BY <1>2, <1>3 DEF Advance, Last, Returns
<1>6. Returns => Last /\ Tail(todo) = <<>>
  BY <1>2 DEF Returns
<1>7. ASSUME Returns
      PROVE  \/ mode' = (IF mode = "recovering" THEN "down" ELSE "up") /\ world' = world
             \/ ~undoing /\ goal # None /\ mode' = "up" /\ world' = goal
             \/ ~undoing /\ goal = None /\ replay_ok(disk')
                  /\ mode' = "up" /\ world' = Bodies(disk')
  <2>1. CASE fails
    BY <1>5, <1>7, <2>1
  <2>2. CASE ~fails
    BY <1>5, <1>7, <2>2
  <2> QED
    BY <2>1, <2>2
<1> QED
  BY <1>1, <1>4, <1>5, <1>6, <1>7

LEMMA AdvanceControl ==
  ASSUME StoreInv, Write \/ RestoreFails
  PROVE  ControlTypeOK'
<1>1. /\ todo # <<>> /\ todo \in Seq(Seq(Ops)) /\ Len(todo) \in Nat \ {0} /\ done \in Nat
      /\ Tail(todo) \in Seq(Seq(Ops)) /\ Len(Tail(todo)) = Len(todo) - 1
      /\ \A i \in 1 .. Len(Tail(todo)) : Tail(todo)[i] = todo[i + 1]
      /\ done + 1 \in 1 .. Len(todo[1]) /\ Len(todo[1]) \in Nat
  BY AdvanceFacts, TodoFacts
<1>2. /\ mode \in {"up", "recovering", "down"} /\ mode # "down"
      /\ \A i \in 1 .. Len(todo) : Len(todo[i]) > 0
      /\ undoing' \in BOOLEAN /\ prune_cold' \in BOOLEAN /\ is_validator' \in BOOLEAN
  BY <1>1, AdvanceFacts DEF StoreInv, ControlTypeOK
<1>3. mode' \in {"up", "recovering", "down"} /\ (mode' = "down" => todo' = <<>>)
  <2>1. CASE Returns
    BY <2>1, AdvanceFacts
  <2>2. CASE ~Returns
    BY <1>2, <2>2, AdvanceFacts
  <2> QED
    BY <2>1, <2>2
<1>4. /\ todo' \in Seq(Seq(Ops)) /\ \A i \in 1 .. Len(todo') : Len(todo'[i]) > 0
      /\ done' \in Nat /\ (todo' = <<>> => done' = 0)
      /\ todo' # <<>> => done' < Len(todo'[1])
  <2>1. CASE Last
    <3>1. todo' = Tail(todo) /\ done' = 0
      BY <2>1, AdvanceFacts
    <3>2. \A i \in 1 .. Len(Tail(todo)) : i + 1 \in 1 .. Len(todo)
      BY <1>1
    <3>3. \A i \in 1 .. Len(Tail(todo)) : Len(Tail(todo)[i]) > 0
      BY <1>1, <1>2, <3>2
    <3>4. Tail(todo) # <<>> => Len(Tail(todo)) \in Nat \ {0}
      BY <1>1, EmptySeq
    <3>5. ASSUME Tail(todo) # <<>> PROVE 0 < Len(Tail(todo)[1])
      <4>1. 1 \in 1 .. Len(Tail(todo))
        BY <3>4, <3>5
      <4>2. Len(Tail(todo)[1]) > 0 /\ Len(Tail(todo)[1]) \in Nat
        BY <1>1, <3>3, <4>1, ElementOfSeq, LenProperties
      <4> QED
        BY <4>2
    <3> QED
      BY <1>1, <3>1, <3>3, <3>5
  <2>2. CASE ~Last
    <3>1. todo' = todo /\ done' = done + 1
      BY <2>2, AdvanceFacts
    <3>2. done + 1 < Len(todo[1])
      BY <1>1, <2>2 DEF Last
    <3> QED
      BY <1>1, <1>2, <3>1, <3>2
  <2> QED
    BY <2>1, <2>2
<1> QED
  BY <1>2, <1>3, <1>4 DEF ControlTypeOK

\* A step of a roll back.
LEMMA UndoStep ==
  ASSUME StoreInv, Write \/ RestoreFails, undoing
  PROVE  StoreInv'
<1> DEFINE i0 == done + 1
<1> DEFINE op == todo[1][i0]
<1>1. /\ todo # <<>> /\ undoing' = undoing /\ stored' = stored /\ stray' = stray
      /\ UNCHANGED <<prune_cold, is_validator>>
  BY AdvanceFacts
<1>2. /\ op.key \in Keys /\ Len(todo[1]) \in Nat /\ done \in Nat /\ i0 \in 1 .. Len(todo[1])
      /\ i0 \in done + 1 .. Len(todo[1])
      /\ Len(todo) = 1 /\ (op.val = disk[op.key] \/ Loose(op.key, op.val))
      /\ Head(todo) = todo[1]
  BY <1>1, TodoFacts DEF StoreInv, UndoInv
<1>3. disk' = disk \/ disk' = [disk EXCEPT ![op.key] = op.val]
  BY <1>2 DEF Write, RestoreFails, Advance
<1>4. disk \in [Keys -> Values]
  BY DEF StoreInv, DiskInv, DiskTypeOK
<1>5. /\ DiskInv' /\ Tip' = Tip
      /\ \A key \in Keys : key # op.key => disk'[key] = disk[key]
  <2> HIDE DEF op
  <2>1. CASE disk' = disk
    BY <1>1, <2>1, DiskSame DEF StoreInv
  <2>2. CASE disk' # disk
    <3>1. disk' = [disk EXCEPT ![op.key] = op.val] /\ Loose(op.key, op.val)
      BY <1>2, <1>3, <1>4, <2>2
    <3>2. DiskInv' /\ Tip' = Tip
      BY <1>1, <1>2, <3>1, DropLoose DEF StoreInv
    <3> QED
      BY <1>2, <1>4, <3>1, <3>2
  <2> QED
    BY <2>1, <2>2
<1>6. WorldInv'
  <2>1. PICK n \in Nat : WorldIs(n)
    BY DEF StoreInv, WorldInv
  <2>2. world' = world /\ (mode' = mode \/ (mode # "up" /\ mode' # "up"))
    <3>1. mode \in {"up", "recovering"}
      BY <1>1 DEF StoreInv, ControlTypeOK
    <3> QED
      BY <3>1, AdvanceFacts
  <2>3. WorldIs(n)'
    BY <1>1, <1>5, <2>1, <2>2 DEF WorldIs, WorldOf
  <2> QED
    BY <2>3 DEF WorldInv
<1>7. CallInv'
  BY <1>1 DEF CallInv
<1>8. UndoInv'
  <2>1. CASE Last
    BY <1>2, <2>1, AdvanceFacts DEF UndoInv, Returns
  <2>2. CASE ~Last
    <3>1. todo' = todo /\ done' = done + 1
      BY <2>2, AdvanceFacts
    <3>2. ASSUME NEW i \in done' + 1 .. Len(todo[1])
          PROVE  \/ todo[1][i].val = disk'[todo[1][i].key]
                 \/ Loose(todo[1][i].key, todo[1][i].val)'
      <4>1. i \in done + 1 .. Len(todo[1]) /\ i \in 1 .. Len(todo[1]) /\ i # i0
        BY <1>2, <3>1
      <4>2. todo[1][i].key # op.key /\ todo[1][i].key \in Keys
        BY <1>1, <1>2, <4>1, TodoFacts DEF StoreInv, UndoInv
      <4>3. \/ todo[1][i].val = disk[todo[1][i].key]
            \/ Loose(todo[1][i].key, todo[1][i].val)
        BY <1>1, <4>1 DEF StoreInv, UndoInv
      <4>4. todo[1][i].val = disk[todo[1][i].key] => todo[1][i].val = disk'[todo[1][i].key]
        BY <1>5, <4>2
      <4>5. Loose(todo[1][i].key, todo[1][i].val) => Loose(todo[1][i].key, todo[1][i].val)'
        BY <1>1, <1>5, <3>1 DEF Loose
      <4> QED
        BY <4>3, <4>4, <4>5
    <3>3. \A i, j \in 1 .. Len(todo[1]) : todo[1][i].key = todo[1][j].key => i = j
      BY <1>1 DEF StoreInv, UndoInv
    <3> QED
      BY <1>2, <3>1, <3>2, <3>3 DEF UndoInv
  <2> QED
    BY <2>1, <2>2
<1> QED
  BY <1>5, <1>6, <1>7, <1>8, AdvanceControl DEF StoreInv

----------------------------------------------------------------------------
(* The writes of a call.                                                   *)

\* What the world is after a write that succeeds.
LEMMA AdvanceWorld ==
  ASSUME StoreInv, Write, ~undoing, DiskInv', stored \subseteq stored',
         Tip' = Tip \/ \E h \in Heights : Tip' = h /\ PutReady(h),
         Returns => goal = None \/ \E k \in Heights : WorldOf(goal, k + 1) /\ Tip' = k
  PROVE  WorldInv'
<1>1. PICK n \in Nat : WorldIs(n)
  BY DEF StoreInv, WorldInv
<1>2. UNCHANGED is_validator /\ todo # <<>>
  BY AdvanceFacts
<1>3. mode \in {"up", "recovering"}
  BY <1>2 DEF StoreInv, ControlTypeOK
<1>4. ASSUME world' = world, mode' = mode \/ (mode # "up" /\ mode' # "up")
      PROVE  WorldInv'
  <2>1. ASSUME mode = "up", is_validator PROVE Tip' \in {n - 1, n}
    <3>1. CASE Tip' = Tip
      BY <1>1, <2>1, <3>1 DEF WorldIs
    <3>2. CASE \E h \in Heights : Tip' = h /\ PutReady(h)
      <4>1. PICK h \in Heights : Tip' = h /\ PutReady(h)
        BY <3>2
      <4>2. Chain(h - 1) = Chain(n - 1) /\ h \in Nat
        BY <1>1, <2>1, <4>1, ValueFacts DEF PutReady, WorldIs, WorldOf
      <4>3. h = n
        BY <4>2, ChainFacts
      <4> QED
        BY <4>1, <4>3
    <3> QED
      BY <3>1, <3>2
  <2>2. WorldIs(n)'
    BY <1>1, <1>2, <1>4, <2>1 DEF WorldIs, WorldOf
  <2> QED
    BY <2>2 DEF WorldInv
<1>5. CASE ~Returns
  BY <1>4, <1>5, AdvanceFacts
<1>6. CASE Returns /\ world' = world /\ mode' = (IF mode = "recovering" THEN "down" ELSE "up")
  BY <1>3, <1>4, <1>6
<1>7. CASE Returns /\ goal # None /\ mode' = "up" /\ world' = goal
  <2>1. PICK k \in Heights : WorldOf(goal, k + 1) /\ Tip' = k
    BY <1>7
  <2>2. WorldOf(world, Tip + 1)'
    BY <1>2, <1>7, <2>1 DEF WorldOf
  <2> QED
    BY <1>7, <2>2, WorldReplayedNext
<1>8. CASE Returns /\ replay_ok(disk') /\ mode' = "up" /\ world' = Bodies(disk')
  <2>1. DiskTypeOK' /\ disk' \in [Keys -> Values]
    BY DEF DiskInv, DiskTypeOK
  <2>2. PICK t : t = TipOf(disk')
    OBVIOUS
  <2>2a. t \in Heights \cup {-1}
    BY <2>1, <2>2, TipTypeNext
  <2>2b. is_validator => BodiesDecided(disk')
    BY <1>2, <2>1, ValidatorBodiesNext, Zenon
  <2>3. WorldOf(Bodies(disk'), t + 1)
    BY <1>8, <2>1, <2>2, <2>2a, <2>2b, Replayed
  <2>4. WorldOf(world, Tip + 1)'
    BY <1>2, <1>8, <2>2, <2>3 DEF Tip, WorldOf
  <2> QED
    BY <1>8, <2>4, WorldReplayedNext
<1> QED
  BY <1>5, <1>6, <1>7, <1>8, AdvanceFacts

\* After the last write of a batch the call goes on with another one.
LEMMA LastWrite ==
  ASSUME StoreInv, Write, ~undoing, Last, DiskInv', WorldInv',
         todo' # <<>> => \/ \E f : \E k, h, p \in Nat : Writing(f, k, h, p)'
                        \/ \E h, n \in Nat : Deleting(h, n)'
  PROVE  StoreInv'
<1>1. done' = 0 /\ undoing' = undoing
  BY AdvanceFacts
<1>2. CallInv'
  <2>1. /\ \A i \in 1 .. done' : FALSE
        /\ ~(done' > 0)
    BY <1>1
  <2> QED
    BY <2>1 DEF CallInv
<1>3. UndoInv'
  BY <1>1 DEF UndoInv
<1> QED
  BY <1>2, <1>3, AdvanceControl DEF StoreInv

\* The write itself.
LEMMA WriteDisk ==
  ASSUME StoreInv, Write, ~undoing
  PROVE  /\ disk' = [disk EXCEPT ![todo[1][done + 1].key] = todo[1][done + 1].val]
         /\ stored' = IF todo[1][done + 1].key = TipKey
                      THEN stored \cup {disk'[TipKey]} ELSE stored
         /\ stray' = IF /\ todo[1][done + 1].key = TipKey
                        /\ todo[1] = put_block_ops(disk'[TipKey], Decided(disk'[TipKey]))
                     THEN stray \ {disk'[TipKey]} ELSE stray
         /\ UNCHANGED <<prune_cold, is_validator, undoing>>
<1>1. Head(todo) = todo[1]
  BY TodoFacts DEF Write
<1> QED
  BY <1>1, AdvanceFacts DEF Write, Advance

\* What a batch with a single write does.
LEMMA WalData ==
  ASSUME StoreInv, Write, ~undoing, NEW h \in Heights, NEW o, WalHead(h, o)
  PROVE  /\ Last /\ DiskInv' /\ Tip' = Tip /\ stored' = stored /\ stray' = stray
         /\ disk'[WalKey] = WalRecord(h, o)
<1>0. o \in Offers(h)
  BY DEF WalHead, Taken
<1>1. /\ Len(todo[1]) = 1 /\ todo[1][1].key = WalKey /\ todo[1][1].val = WalRecord(h, o)
  <2>1. todo[1] = <<Put(WalKey, WalRecord(h, o))>>
    BY <1>0, OneOps DEF WalHead
  <2> QED
    BY <2>1 DEF Put
<1>2. done = 0 /\ done + 1 = 1
  BY <1>1, TodoFacts DEF Write
<1>3. /\ disk' = [disk EXCEPT ![WalKey] = WalRecord(h, o)]
      /\ UNCHANGED <<stored, stray, prune_cold, is_validator>>
  BY <1>1, <1>2, WriteDisk, KeyFacts
<1>4. DiskInv' /\ Tip' = Tip /\ disk'[WalKey] = WalRecord(h, o)
  BY <1>3, SetWal DEF WalHead, StoreInv
<1> QED
  BY <1>1, <1>2, <1>3, <1>4 DEF Last

LEMMA ClearData ==
  ASSUME StoreInv, Write, ~undoing, ClearHead
  PROVE  Last /\ DiskInv' /\ Tip' = Tip /\ stored' = stored /\ stray' = stray
<1>1. Len(todo[1]) = 1 /\ todo[1][1].key = WalKey /\ todo[1][1].val = None
  BY DEF ClearHead, clear_wal, Delete
<1>2. done = 0 /\ done + 1 = 1
  BY <1>1, TodoFacts DEF Write
<1>3. /\ disk' = [disk EXCEPT ![WalKey] = None]
      /\ UNCHANGED <<stored, stray, prune_cold, is_validator>>
  BY <1>1, <1>2, WriteDisk, KeyFacts
<1>4. DiskInv' /\ Tip' = Tip
  BY <1>3, SetWal DEF StoreInv
<1> QED
  BY <1>1, <1>2, <1>3, <1>4 DEF Last

LEMMA DeleteData ==
  ASSUME StoreInv, Write, ~undoing, NEW h \in Heights, DeleteHead(h)
  PROVE  Last /\ DiskInv' /\ Tip' = Tip /\ stored' = stored /\ stray' = stray
<1>1. Len(todo[1]) = 1 /\ todo[1][1].key = <<"body", h>> /\ todo[1][1].val = None
  BY DEF DeleteHead, Delete
<1>2. done = 0 /\ done + 1 = 1
  BY <1>1, TodoFacts DEF Write
<1>3. <<"body", h>> # TipKey
  BY KeyFacts DEF Kinds
<1>4. /\ disk' = [disk EXCEPT ![<<"body", h>>] = None]
      /\ UNCHANGED <<stored, stray, prune_cold, is_validator>>
  BY <1>1, <1>2, <1>3, WriteDisk
<1>5. DiskInv' /\ Tip' = Tip
  BY <1>4, DropCold DEF DeleteHead, StoreInv
<1> QED
  BY <1>1, <1>2, <1>4, <1>5 DEF Last

\* What a write of a block may find and leave under its key.
Part(h, key, v) ==
    /\ key \in Keys /\ key # TipKey /\ key # WalKey /\ v \in Values /\ v # None
    /\ \/ Aside(key)
       \/ \E k \in Kinds : key = <<k, h>> /\ (v = Right(k, h) \/ h \in stray)

\* The writes of a block before the tip are parts of it.
LEMMA PutParts ==
  ASSUME NEW h \in Heights, NEW o, Taken(o, h), NEW x, x = put_block_ops(h, o),
         NEW i \in 1 .. 4
  PROVE  Part(h, x[i].key, x[i].val)
<1>1. /\ o \in Offers(h) /\ (o = Decided(h) \/ h \in stray)
      /\ o.block \in Values /\ o.app \in Values /\ o.block # None /\ o.app # None
      /\ o.block \in Blocks /\ (o.block = h \/ o.block \notin Heights)
      /\ h \in Values /\ h # None
  BY OfferFacts, ValueFacts DEF Taken
<1>2. h \notin stray => o.block = h /\ o.app = Chain(h)
  BY <1>1, OfferFacts
<1>3. /\ x[1].key = <<"header", h>> /\ x[1].val = o.block
      /\ x[2].key = <<"hash", o.block>> /\ x[2].val = h
      /\ x[3].key = <<"body", h>> /\ x[3].val = o.block
      /\ x[4].key = <<"app", h>> /\ x[4].val = o.app
  BY <1>1, PutKeys
<1>4. ASSUME NEW k \in {"header", "body"} PROVE Part(h, <<k, h>>, o.block)
  <2>1. k \in Kinds /\ Right(k, h) = h
    BY DEF Kinds, Right
  <2>2. <<k, h>> \in Keys /\ <<k, h>> # TipKey /\ <<k, h>> # WalKey
    BY <2>1, KeyFacts
  <2> QED
    BY <1>1, <1>2, <2>1, <2>2, Zenon DEF Part
<1>5. Part(h, <<"app", h>>, o.app)
  <2>1. "app" \in Kinds /\ Right("app", h) = Chain(h)
    BY DEF Kinds, Right
  <2>2. <<"app", h>> \in Keys /\ <<"app", h>> # TipKey /\ <<"app", h>> # WalKey
    BY <2>1, KeyFacts
  <2> QED
    BY <1>1, <1>2, <2>1, <2>2, Zenon DEF Part
<1>6. Part(h, <<"hash", o.block>>, h)
  <2>1. "hash" \in Kinds /\ Right("hash", h) = h
    BY DEF Kinds, Right
  <2>2. <<"hash", o.block>> \in Keys /\ <<"hash", o.block>> # TipKey /\ <<"hash", o.block>> # WalKey
    BY <1>1, KeyFacts
  <2>3. Aside(<<"hash", o.block>>) \/ o.block = h
    BY <1>1 DEF Aside
  <2> QED
    BY <1>1, <2>1, <2>2, <2>3, Zenon DEF Part
<1>7. i = 1 \/ i = 2 \/ i = 3 \/ i = 4
  OBVIOUS
<1> QED
  BY <1>3, <1>4, <1>5, <1>6, <1>7

\* What such a write replaces is the same value, or loose.
LEMMA PartFinds ==
  ASSUME DiskInv, NEW h \in Heights, PutReady(h), NEW key, NEW v, Part(h, key, v)
  PROVE  disk[key] = v \/ Loose(key, disk[key])
<1>0. disk[key] \in Values /\ key \in Keys
  BY DEF DiskInv, DiskTypeOK, Part
<1>1. CASE Aside(key)
  BY <1>0, <1>1 DEF Loose
<1>2. CASE ~Aside(key)
  <2>1. PICK k \in Kinds : key = <<k, h>> /\ (v = Right(k, h) \/ h \in stray)
    BY <1>2 DEF Part
  <2>2. Tip \in Int /\ h \in Nat /\ Tip >= h - 1 /\ (is_validator => Tip \in {h - 1, h})
    BY TipFacts, ValueFacts DEF DiskInv, PutReady
  <2>3. ~Pruned(h)
    <3>1. SUFFICES ASSUME Pruned(h) PROVE FALSE
      OBVIOUS
    <3>2. PICK t \in stored : h + HotWindow <= t /\ HotWindow > 0 /\ t <= Tip /\ is_validator
      BY <3>1 DEF Pruned, DiskInv, StoredInv
    <3>3. t \in Nat
      BY ValueFacts DEF DiskInv, DiskTypeOK
    <3> QED
      BY <2>2, <3>2, <3>3, StoreAssumption
  <2>4. ASSUME h \notin stored, disk[key] = None PROVE Loose(key, disk[key])
    <3>1. ~(h <= Tip)
      BY <2>4 DEF DiskInv, StoredInv
    <3>2. h = Tip + 1
      BY <2>2, <3>1
    <3> QED
      BY <1>0, <2>1, <2>4, <3>2 DEF Loose
  <2>5. CASE h \in stray
    <3>1. CASE k = "body" /\ disk[key] = None
      <4>1. h \notin stored
        BY <2>1, <2>3, <3>1 DEF DiskInv, StoredInv, Bodied
      <4> QED
        BY <2>4, <3>1, <4>1
    <3>2. CASE ~(k = "body" /\ disk[key] = None)
      BY <1>0, <2>1, <2>5, <3>2 DEF Loose
    <3> QED
      BY <3>1, <3>2
  <2>6. CASE h \notin stray
    <3>1. v = Right(k, h) /\ disk[key] \in {Right(k, h), None}
      BY <2>1, <2>6 DEF DiskInv, DiskTypeOK
    <3>2. ASSUME disk[key] = None PROVE h \notin stored
      <4>1. SUFFICES ASSUME h \in stored PROVE FALSE
        OBVIOUS
      <4>2. disk[<<k, h>>] = Right(k, h)
        BY <2>1, <2>3, <2>6, <4>1 DEF DiskInv, StoredInv, Whole
      <4> QED
        BY <2>1, <3>2, <4>2, ValueFacts
    <3> QED
      BY <2>4, <3>1, <3>2
  <2> QED
    BY <2>5, <2>6
<1> QED
  BY <1>1, <1>2

\* Before the tip, a write of `put_block` gives a key its part of the block, and a
\* value that it replaces is loose.
LEMMA PutPartData ==
  ASSUME StoreInv, Write, ~undoing, NEW h \in Heights, NEW o, PutHead(h, o), done < 4
  PROVE  /\ ~Last /\ DiskInv' /\ Tip' = Tip /\ stored' = stored /\ stray' = stray
         /\ disk'[WalKey] = disk[WalKey]
         /\ \A i \in 1 .. done' : disk'[todo'[1][i].key] = todo'[1][i].val
         /\ \A i \in 1 .. Len(todo'[1]) :
                \/ snap'[todo'[1][i].key] = disk'[todo'[1][i].key]
                \/ Loose(todo'[1][i].key, snap'[todo'[1][i].key])
<1> DEFINE x == todo[1]
<1>0. o \in Offers(h) /\ Taken(o, h) /\ PutReady(h) /\ x = put_block_ops(h, o)
  BY DEF PutHead, Taken
<1>1. Len(x) = 5 /\ done \in Nat /\ todo # <<>>
  BY <1>0, PutKeys, TodoFacts DEF Write
<1>2. done + 1 \in 1 .. 4 /\ done + 1 \in 1 .. Len(x) /\ ~Last
  BY <1>1 DEF Last
<1>3. PICK key, v : x[done + 1].key = key /\ x[done + 1].val = v
  OBVIOUS
<1>3a. Part(h, key, v)
  <2> HIDE DEF x
  <2> QED
    BY <1>0, <1>2, <1>3, PutParts
<1>4. key # TipKey /\ key \in Keys /\ v \in Values
  BY <1>3a DEF Part
<1>5. /\ disk' = [disk EXCEPT ![key] = v]
      /\ UNCHANGED <<stored, stray, prune_cold, is_validator>>
  BY <1>3, <1>4, WriteDisk
<1> HIDE DEF x
<1>6. DiskInv' /\ Tip' = Tip /\ disk'[WalKey] = disk[WalKey]
  <2>1. \A k \in Kinds, g \in Heights : key = <<k, g>> =>
            (v = Right(k, g) \/ g \in stray) /\ (k = "body" => v # None)
    <3>1. CASE Aside(key)
      <4>1. \A k \in Kinds, g \in Heights : key # <<k, g>>
        BY <3>1, KeyFacts DEF Aside
      <4> QED
        BY <4>1
    <3>2. CASE ~Aside(key)
      <4>1. PICK l \in Kinds : key = <<l, h>> /\ (v = Right(l, h) \/ h \in stray)
        BY <1>3a, <3>2 DEF Part
      <4>2. \A k \in Kinds, g \in Heights : key = <<k, g>> => k = l /\ g = h
        BY <4>1, KeyFacts
      <4>3. v # None
        BY <1>3a DEF Part
      <4> QED
        BY <4>1, <4>2, <4>3
    <3> QED
      BY <3>1, <3>2
  <2>2. key # WalKey
    BY <1>3a DEF Part
  <2> QED
    BY <1>4, <1>5, <2>1, <2>2, SetPart DEF StoreInv
<1>7. todo' = todo /\ done' = done + 1 /\ snap' = IF done = 0 THEN disk ELSE snap
  BY <1>2, AdvanceFacts
<1>8. /\ \A i, j \in 1 .. Len(x) : x[i].key = x[j].key => i = j
      /\ \A i \in 1 .. Len(x) : x[i].key \in Keys
  BY <1>1, HeadKeys, TodoFacts DEF x
<1>9. /\ disk \in [Keys -> Values] /\ disk'[key] = v
      /\ \A y \in Keys : y # key => disk'[y] = disk[y]
  BY <1>4, <1>5 DEF StoreInv, DiskInv, DiskTypeOK
<1>10. disk[key] = v \/ Loose(key, disk[key])
  BY <1>0, <1>3a, PartFinds DEF StoreInv
<1>11. ASSUME NEW i \in 1 .. done'
       PROVE  disk'[x[i].key] = x[i].val
  <2>1. i \in 1 .. Len(x) /\ (i = done + 1 \/ i \in 1 .. done)
    BY <1>1, <1>2, <1>7
  <2>2. CASE i = done + 1
    BY <1>3, <1>9, <2>2
  <2>3. CASE i \in 1 .. done
    <3>1. i # done + 1
      BY <1>1, <2>3
    <3>2. x[i].key # key /\ x[i].key \in Keys
      BY <1>2, <1>3, <1>8, <2>1, <3>1
    <3>3. disk[x[i].key] = x[i].val
      BY <1>1, <2>3 DEF StoreInv, CallInv, x
    <3> QED
      BY <1>9, <3>2, <3>3
  <2> QED
    BY <2>1, <2>2, <2>3
<1>12. ASSUME NEW i \in 1 .. Len(x)
       PROVE  snap'[x[i].key] = disk'[x[i].key] \/ Loose(x[i].key, snap'[x[i].key])
  <2>1. snap'[x[i].key] = disk[x[i].key] \/ Loose(x[i].key, snap'[x[i].key])
    <3>1. CASE done = 0
      BY <1>7, <3>1
    <3>2. CASE done # 0
      <4>1. done > 0
        BY <1>1, <3>2
      <4>2. snap[x[i].key] = disk[x[i].key] \/ Loose(x[i].key, snap[x[i].key])
        BY <1>1, <4>1 DEF StoreInv, CallInv, x
      <4> QED
        BY <1>7, <3>2, <4>2
    <3> QED
      BY <3>1, <3>2
  <2>2. CASE x[i].key = key
    BY <1>9, <1>10, <2>1, <2>2
  <2>3. CASE x[i].key # key
    BY <1>8, <1>9, <2>1, <2>3
  <2> QED
    BY <2>2, <2>3
<1> QED
  BY <1>2, <1>5, <1>6, <1>7, <1>11, <1>12 DEF x

\* With its last write the block is stored.
LEMMA PutTipData ==
  ASSUME StoreInv, Write, ~undoing, NEW h \in Heights, NEW o, PutHead(h, o), ~(done < 4)
  PROVE  /\ Last /\ DiskInv' /\ Tip' = h /\ stored \subseteq stored'
         /\ stray' \subseteq stray /\ stray \ {h} \subseteq stray' /\ Taken(o, h)'
         /\ disk'[WalKey] = disk[WalKey]
<1> DEFINE x == todo[1]
<1>0. o \in Offers(h) /\ Taken(o, h) /\ PutReady(h) /\ x = put_block_ops(h, o)
  BY DEF PutHead, Taken
<1>1. /\ Len(x) = 5
      /\ x[1].key = <<"header", h>> /\ x[1].val = o.block
      /\ x[2].key = <<"hash", o.block>> /\ x[2].val = h
      /\ x[3].key = <<"body", h>> /\ x[3].val = o.block
      /\ x[4].key = <<"app", h>> /\ x[4].val = o.app
      /\ x[5].key = TipKey /\ x[5].val = h
  <2> HIDE DEF x
  <2> QED
    BY <1>0, PutKeys
<1>1a. done \in Nat /\ todo # <<>> /\ done + 1 \in 1 .. Len(x)
  BY TodoFacts DEF Write
<1> HIDE DEF x
<1>2. done = 4 /\ done + 1 = 5
  BY <1>1, <1>1a
<1>3. Last
  BY <1>1, <1>2 DEF Last, x
<1>4. \A i \in 1 .. 4 : disk[x[i].key] = x[i].val
  BY <1>1a, <1>2 DEF StoreInv, CallInv, x
<1>5. /\ disk[<<"header", h>>] = o.block /\ disk[<<"hash", o.block>>] = h
      /\ disk[<<"body", h>>] = o.block /\ disk[<<"app", h>>] = o.app
  <2>1. 1 \in 1 .. 4 /\ 2 \in 1 .. 4 /\ 3 \in 1 .. 4 /\ 4 \in 1 .. 4
    OBVIOUS
  <2> QED
    BY <1>1, <1>4, <2>1
<1>6. o = Decided(h) => \A k \in Kinds : disk[<<k, h>>] = Right(k, h)
  BY <1>5, OfferFacts DEF Kinds, Right
<1>6a. disk[<<"body", h>>] # None
  BY <1>0, <1>5, OfferFacts
<1>7. /\ disk' = [disk EXCEPT ![TipKey] = h] /\ stored' = stored \cup {disk'[TipKey]}
      /\ stray' = IF x = put_block_ops(disk'[TipKey], Decided(disk'[TipKey]))
                  THEN stray \ {disk'[TipKey]} ELSE stray
      /\ UNCHANGED <<prune_cold, is_validator>>
  BY <1>1, <1>2, WriteDisk DEF x
<1>8. disk'[TipKey] = h
  BY <1>7, KeyFacts DEF StoreInv, DiskInv, DiskTypeOK
<1>8a. x = put_block_ops(h, Decided(h)) <=> o = Decided(h)
  <2>1. SUFFICES ASSUME x = put_block_ops(h, Decided(h)) PROVE o = Decided(h)
    BY <1>0
  <2>2. /\ Decided(h) \in Offers(h) /\ Decided(h) = [block |-> Decided(h).block, app |-> Decided(h).app]
        /\ o = [block |-> o.block, app |-> o.app]
    BY <1>0, OfferFacts
  <2>3. x[3].val = Decided(h).block /\ x[4].val = Decided(h).app
    BY <2>1, <2>2, PutKeys
  <2> QED
    BY <1>1, <2>2, <2>3
<1>8b. /\ stored' = stored \cup {h}
       /\ stray' = IF o = Decided(h) THEN stray \ {h} ELSE stray
  BY <1>7, <1>8, <1>8a
<1>9. DiskInv' /\ Tip' = h /\ disk'[WalKey] = disk[WalKey]
  <2>1. /\ Tip >= h - 1 /\ (is_validator => Tip \in {h - 1, h})
        /\ is_validator \/ disk[WalKey] = WalRecord(h, o)
    BY DEF PutHead, PutReady
  <2> QED
    BY <1>0, <1>6, <1>6a, <1>7, <1>8b, <2>1, SetTip DEF StoreInv
<1>10. Taken(o, h)'
  BY <1>0, <1>8b DEF Taken
<1> QED
  BY <1>3, <1>8b, <1>9, <1>10

\* Phase q of height g comes after phase p of height h.
Follows(h, p, g, q) == 3 * g + q = 3 * h + p + 1

\* The batches from phase p of height h on.
Left(f, k, h, p) ==
    /\ Len(todo) = 3 * (k - h + 1) - p
    /\ \A i \in 1 .. Len(todo) : todo[i] = SyncBatch(f, 3 * h + p + i)

\* The batches that are left when the first one is written.
LEMMA WritingShift ==
  ASSUME StoreInv, Write, ~undoing, Last,
         NEW f, NEW k \in Nat, NEW h \in Nat, NEW p \in Nat, NEW g \in Nat, NEW q \in Nat,
         Writing(f, k, h, p), Follows(h, p, g, q)
  PROVE  Left(f, k, g, q)'
<1>1. /\ todo' = Tail(todo) /\ Len(todo) \in Nat \ {0}
      /\ Len(Tail(todo)) = Len(todo) - 1
      /\ \A i \in 1 .. Len(Tail(todo)) : Tail(todo)[i] = todo[i + 1]
  BY AdvanceFacts, TodoFacts
<1>2. Len(todo) = 3 * (k - h + 1) - p
  BY DEF Writing
<1>3. Len(todo') = 3 * (k - g + 1) - q
  BY <1>1, <1>2 DEF Follows
<1>4. \A i \in Nat : 3 * h + p + (i + 1) = 3 * g + q + i
  <2>1. 3 * g + q = 3 * h + p + 1
    BY DEF Follows
  <2> QED
    BY <2>1
<1>5. \A i \in 1 .. Len(todo) - 1 : i \in Nat /\ i + 1 \in 1 .. Len(todo)
  BY <1>1
<1>6. ASSUME NEW i \in 1 .. Len(todo')
      PROVE  todo'[i] = SyncBatch(f, 3 * g + q + i)
  <2>1. i \in Nat /\ i + 1 \in 1 .. Len(todo)
    BY <1>1, <1>5
  <2>2. todo[i + 1] = SyncBatch(f, 3 * h + p + (i + 1))
    BY <2>1 DEF Writing
  <2>3. 3 * h + p + (i + 1) = 3 * g + q + i
    BY <1>4, <2>1
  <2> QED
    BY <1>1, <2>2, <2>3
<1> QED
  BY <1>3, <1>6 DEF Left

\* The log is written: the block is next.
LEMMA WriteLog ==
  ASSUME StoreInv, Write, ~undoing, NEW f, NEW k \in Nat, NEW h \in Nat,
         Writing(f, k, h, 0)
  PROVE  StoreInv'
<1>1. h \in Heights /\ WalHead(h, f[h])
  BY WritingHead
<1>2. /\ Last /\ DiskInv' /\ Tip' = Tip /\ stored' = stored /\ stray' = stray
      /\ disk'[WalKey] = WalRecord(h, f[h])
  BY <1>1, WalData
<1>3. /\ Len(todo') = 3 * (k - h + 1) - 1
      /\ \A i \in 1 .. Len(todo') : todo'[i] = SyncBatch(f, 3 * h + 1 + i)
      /\ UNCHANGED <<goal, is_validator>>
      /\ Len(todo) = 3 * (k - h + 1) - 0
  <2>1. Follows(h, 0, h, 1) /\ 0 \in Nat /\ 1 \in Nat
    BY DEF Follows
  <2>2. Left(f, k, h, 1)'
    BY <1>2, <2>1, WritingShift, Zenon
  <2> QED
    BY <2>2, AdvanceFacts, Zenon DEF Left, Writing
<1>4. k \in Heights /\ h \in 0 .. k
  BY DEF Writing
<1>5. ~Returns
  BY <1>3, <1>4 DEF Returns
<1>6. UNCHANGED <<mode, world>>
  BY <1>5, AdvanceFacts
<1>7. Writing(f, k, h, 1)'
  <2>1. 1 \in 0 .. 2 /\ 0 # 2 /\ 1 # 2
    OBVIOUS
  <2>2. PutReady(h)
    BY <2>1 DEF Writing
  <2>3. PutReady(h)'
    BY <1>2, <1>3, <1>6, <2>2 DEF PutReady
  <2>4. /\ is_validator => h = k
        /\ goal = None \/ (WorldOf(goal, k + 1) /\ h = k)
        /\ \A g \in h .. k : Taken(f[g], g)
    BY DEF Writing
  <2>5. /\ goal' = None \/ (WorldOf(goal, k + 1)' /\ h = k)
        /\ \A g \in h .. k : Taken(f[g], g)'
    BY <1>2, <1>3, <2>4 DEF WorldOf, Taken
  <2> QED
    BY <1>2, <1>3, <1>4, <2>1, <2>3, <2>4, <2>5, Zenon DEF Writing
<1>8. WorldInv'
  BY <1>2, <1>5, AdvanceWorld
<1> QED
  BY <1>2, <1>7, <1>8, LastWrite

\* The block is written, key by key: clearing the log is next.
LEMMA WritePart ==
  ASSUME StoreInv, Write, ~undoing, NEW h \in Heights, NEW o, PutHead(h, o), done < 4,
         \/ \E f : \E k, g, p \in Nat : Writing(f, k, g, p)'
         \/ \E g, n \in Nat : StoringFirst(g, n)' \/ Deleting(g, n)'
  PROVE  StoreInv'
<1>1. /\ ~Last /\ DiskInv' /\ Tip' = Tip /\ stored' = stored /\ stray' = stray
      /\ \A i \in 1 .. done' : disk'[todo'[1][i].key] = todo'[1][i].val
      /\ \A i \in 1 .. Len(todo'[1]) :
             \/ snap'[todo'[1][i].key] = disk'[todo'[1][i].key]
             \/ Loose(todo'[1][i].key, snap'[todo'[1][i].key])
  BY PutPartData
<1>2. todo' = todo /\ UNCHANGED <<undoing, is_validator, prune_cold>>
  BY <1>1, AdvanceFacts
<1>3. \A key, v : Loose(key, v) => Loose(key, v)'
  BY <1>1, <1>2 DEF Loose
<1>4. CallInv'
  BY <1>1, <1>2, <1>3 DEF CallInv
<1>5. UndoInv'
  BY <1>2 DEF UndoInv
<1>6. WorldInv'
  BY <1>1, AdvanceWorld DEF Returns
<1> QED
  BY <1>1, <1>4, <1>5, <1>6, AdvanceControl DEF StoreInv

LEMMA WriteBlock ==
  ASSUME StoreInv, Write, ~undoing, NEW f, NEW k \in Nat, NEW h \in Nat,
         Writing(f, k, h, 1)
  PROVE  StoreInv'
<1>1. h \in Heights /\ PutHead(h, f[h]) /\ k \in Heights /\ h \in 0 .. k
  BY WritingHead DEF Writing
<1>2. 1 \in 0 .. 2 /\ 2 \in 0 .. 2 /\ 1 # 2 /\ 2 # 1
  OBVIOUS
<1>3. /\ is_validator => h = k
      /\ goal = None \/ (WorldOf(goal, k + 1) /\ h = k)
      /\ PutReady(h) /\ disk[WalKey] = WalRecord(h, f[h])
      /\ Len(todo) = 3 * (k - h + 1) - 1
      /\ \A g \in h .. k : Taken(f[g], g)
      /\ \A i \in 1 .. Len(todo) : todo[i] = SyncBatch(f, 3 * h + 1 + i)
  BY <1>2 DEF Writing
<1>4. ~Returns
  BY <1>1, <1>3 DEF Returns
<1>5. UNCHANGED <<mode, world, goal, is_validator>>
  BY <1>4, AdvanceFacts
<1>5a. goal' = None \/ (WorldOf(goal, k + 1)' /\ h = k)
  BY <1>3, <1>5 DEF WorldOf
<1>6. CASE done < 4
  <2>1. ~Last /\ Tip' = Tip /\ disk'[WalKey] = disk[WalKey] /\ stray' = stray
    BY <1>1, <1>6, PutPartData
  <2>2. todo' = todo
    BY <2>1, AdvanceFacts
  <2>3. PutReady(h)'
    BY <1>3, <1>5, <2>1 DEF PutReady
  <2>3a. \A g \in h .. k : Taken(f[g], g)'
    BY <1>3, <2>1 DEF Taken
  <2>4. Writing(f, k, h, 1)'
    BY <1>1, <1>2, <1>3, <1>5, <1>5a, <2>1, <2>2, <2>3, <2>3a, Zenon DEF Writing
  <2> QED
    BY <1>1, <1>6, <2>4, WritePart
<1>7. CASE ~(done < 4)
  <2>1. /\ Last /\ DiskInv' /\ Tip' = h /\ stored \subseteq stored'
        /\ stray \ {h} \subseteq stray' /\ Taken(f[h], h)'
    BY <1>1, <1>7, PutTipData
  <2>2. /\ Len(todo') = 3 * (k - h + 1) - 2
        /\ \A i \in 1 .. Len(todo') : todo'[i] = SyncBatch(f, 3 * h + 2 + i)
    <3>1. Follows(h, 1, h, 2) /\ 1 \in Nat /\ 2 \in Nat
      BY DEF Follows
    <3>2. Left(f, k, h, 2)'
      BY <2>1, <3>1, WritingShift, Zenon
    <3> QED
      BY <3>2, Zenon DEF Left
  <2>3. mode' = "up" /\ is_validator' => world' = Chain(h - 1)
    BY <1>3, <1>5 DEF PutReady
  <2>3a. \A g \in h .. k : Taken(f[g], g)'
    <3>1. ASSUME NEW g \in h .. k, g # h PROVE Taken(f[g], g)'
      BY <1>3, <2>1, <3>1 DEF Taken
    <3> QED
      BY <2>1, <3>1
  <2>4. Writing(f, k, h, 2)'
    BY <1>1, <1>2, <1>3, <1>5, <1>5a, <2>1, <2>2, <2>3, <2>3a, Zenon DEF Writing
  <2>5. WorldInv'
    BY <1>1, <1>3, <1>4, <2>1, AdvanceWorld
  <2> QED
    BY <2>1, <2>4, <2>5, LastWrite
<1> QED
  BY <1>6, <1>7

\* The log is cleared: the next height is next, or the call returns.
LEMMA WriteClear ==
  ASSUME StoreInv, Write, ~undoing, NEW f, NEW k \in Nat, NEW h \in Nat,
         Writing(f, k, h, 2)
  PROVE  StoreInv'
<1>1. h \in Heights /\ ClearHead /\ k \in Heights /\ h \in 0 .. k
  BY WritingHead DEF Writing
<1>2. Last /\ DiskInv' /\ Tip' = Tip /\ stored' = stored /\ stray' = stray
  BY <1>1, ClearData
<1>3. /\ is_validator => h = k
      /\ goal = None \/ (WorldOf(goal, k + 1) /\ h = k)
      /\ \A g \in h .. k : Taken(f[g], g)
      /\ \/ h = k /\ goal = None /\ mode = "recovering"
         \/ Tip = h
      /\ Len(todo) = 3 * (k - h + 1) - 2
  BY DEF Writing
<1>4. WorldInv'
  <2>1. Returns => goal = None \/ \E j \in Heights : WorldOf(goal, j + 1) /\ Tip' = j
    BY <1>1, <1>2, <1>3
  <2> QED
    BY <1>2, <2>1, AdvanceWorld
<1>5. ASSUME todo' # <<>>
      PROVE  Writing(f, k, h + 1, 0)'
  <2>1. /\ Len(todo') = 3 * (k - (h + 1) + 1) - 0
        /\ \A i \in 1 .. Len(todo') : todo'[i] = SyncBatch(f, 3 * (h + 1) + 0 + i)
    <3>1. Follows(h, 2, h + 1, 0) /\ h + 1 \in Nat /\ 0 \in Nat /\ 2 \in Nat
      BY DEF Follows
    <3>2. Left(f, k, h + 1, 0)'
      BY <1>2, <3>1, WritingShift, Zenon
    <3> QED
      BY <3>2, Zenon DEF Left
  <2>2. Len(todo) # 1
    BY <1>2, <1>5, AdvanceFacts DEF Returns
  <2>3. h # k /\ h + 1 \in 0 .. k
    BY <1>1, <1>3, <2>2
  <2>4. ~is_validator /\ Tip = h /\ goal = None
    BY <1>3, <2>3
  <2>5. UNCHANGED <<goal, is_validator>>
    BY AdvanceFacts
  <2>6. h + 1 \in Heights
    BY <1>1, <2>3, StoreAssumption DEF Heights
  <2>7. PutReady(h + 1)'
    <3>1. h >= (h + 1) - 1
      OBVIOUS
    <3> QED
      BY <1>2, <2>4, <2>5, <2>6, <3>1 DEF PutReady
  <2>8. 0 \in 0 .. 2 /\ 0 # 1 /\ 0 # 2
    OBVIOUS
  <2>9. \A g \in h + 1 .. k : Taken(f[g], g)'
    BY <1>1, <1>2, <1>3 DEF Taken
  <2> QED
    BY <1>1, <2>1, <2>3, <2>4, <2>5, <2>7, <2>8, <2>9, Zenon DEF Writing
<1>6. todo' # <<>> => \E e : \E j, g, p \in Nat : Writing(e, j, g, p)'
  <2>1. h + 1 \in Nat /\ 0 \in Nat
    OBVIOUS
  <2> QED
    BY <1>5, <2>1
<1> QED
  BY <1>2, <1>4, <1>6, LastWrite

\* A block is stored by a call that prunes after it.
LEMMA WriteFirst ==
  ASSUME StoreInv, Write, ~undoing, NEW h \in Nat, NEW n \in Nat, StoringFirst(h, n)
  PROVE  StoreInv'
<1>1. /\ h \in Heights /\ PutReady(h) /\ Len(todo) = n + 1 /\ is_validator /\ mode = "up"
      /\ goal = Chain(h) /\ todo[1] = put_block_ops(h, Decided(h)) /\ Pruning(h, n)
      /\ \A i \in 2 .. Len(todo) : todo[i] = <<Delete(<<"body", i - 2>>)>>
  BY DEF StoringFirst, Pruning
<1>2. PutHead(h, Decided(h))
  BY <1>1, OfferFacts DEF PutHead, Taken
<1>2a. WorldOf(goal, h + 1)
  <2>1. h \in Nat /\ h + 1 \in Nat /\ (h + 1) - 1 = h
    BY <1>1, ValueFacts
  <2> QED
    BY <1>1, <2>1, ChainFacts DEF WorldOf
<1>3. UNCHANGED <<goal, is_validator, prune_cold>> /\ todo # <<>>
  BY AdvanceFacts
<1>4. CASE done < 4
  <2>1. ~Last /\ Tip' = Tip
    BY <1>1, <1>2, <1>4, PutPartData
  <2>2. todo' = todo /\ UNCHANGED <<mode, world>>
    BY <2>1, AdvanceFacts DEF Returns
  <2>3. PutReady(h)' /\ Pruning(h, n)'
    BY <1>1, <1>3, <2>1, <2>2 DEF PutReady, Pruning
  <2>4. StoringFirst(h, n)'
    BY <1>1, <2>2, <2>3 DEF StoringFirst
  <2> QED
    BY <1>1, <1>2, <1>4, <2>4, WritePart
<1>5. CASE ~(done < 4)
  <2>1. Last /\ DiskInv' /\ Tip' = h /\ stored \subseteq stored'
    BY <1>1, <1>2, <1>5, PutTipData
  <2>2. WorldInv'
    BY <1>1, <1>2a, <2>1, AdvanceWorld
  <2>3. /\ todo' = Tail(todo) /\ Len(todo') = n
        /\ \A i \in 1 .. n : todo'[i] = todo[i + 1]
    <3>1. todo' = Tail(todo)
      BY <2>1, AdvanceFacts
    <3>2. /\ Len(Tail(todo)) = Len(todo) - 1
          /\ \A i \in 1 .. Len(Tail(todo)) : Tail(todo)[i] = todo[i + 1]
      BY <1>3, TodoFacts
    <3>3. Len(Tail(todo)) = n
      BY <1>1, <3>2
    <3> QED
      BY <3>1, <3>2, <3>3
  <2>4. ASSUME todo' # <<>>
        PROVE  Deleting(h, n)'
    <3>1. UNCHANGED <<mode, world>>
      BY <2>4, AdvanceFacts
    <3>2. Pruning(h, n)' /\ world' = Chain(h - 1)
      BY <1>1, <1>3, <3>1 DEF Pruning, PutReady
    <3>3. ASSUME NEW i \in 1 .. Len(todo')
          PROVE  todo'[i] = <<Delete(<<"body", n - Len(todo') + i - 1>>)>>
      <4>1. i \in 1 .. n /\ i + 1 \in 2 .. Len(todo) /\ (i + 1) - 2 = n - Len(todo') + i - 1
        BY <1>1, <2>3
      <4>2. todo[i + 1] = <<Delete(<<"body", (i + 1) - 2>>)>>
        BY <1>1, <4>1
      <4> QED
        BY <2>3, <4>1, <4>2, Zenon
    <3>4. Len(todo') <= n
      BY <2>3
    <3> QED
      BY <2>1, <3>2, <3>3, <3>4, Zenon DEF Deleting
  <2> QED
    BY <2>1, <2>2, <2>4, LastWrite
<1> QED
  BY <1>4, <1>5

\* A body is pruned.
LEMMA WriteDelete ==
  ASSUME StoreInv, Write, ~undoing, NEW h \in Nat, NEW n \in Nat, Deleting(h, n)
  PROVE  StoreInv'
<1>1. UNCHANGED <<goal, is_validator, prune_cold>> /\ todo # <<>>
  BY AdvanceFacts
<1>2. PICK g \in Heights : DeleteHead(g)
  BY <1>1, DeletingHead
<1>3. Last /\ DiskInv' /\ Tip' = Tip /\ stored' = stored
  BY <1>2, DeleteData
<1>4. /\ Pruning(h, n) /\ Tip = h /\ world = Chain(h - 1) /\ Len(todo) <= n
      /\ goal = Chain(h) /\ h \in Heights
      /\ \A i \in 1 .. Len(todo) : todo[i] = <<Delete(<<"body", n - Len(todo) + i - 1>>)>>
  BY DEF Deleting, Pruning
<1>4a. WorldOf(goal, h + 1)
  <2>1. h \in Nat /\ h + 1 \in Nat /\ (h + 1) - 1 = h
    BY <1>4, ValueFacts
  <2> QED
    BY <1>4, <2>1, ChainFacts DEF WorldOf
<1>5. WorldInv'
  <2>1. \E j \in Heights : WorldOf(goal, j + 1) /\ Tip' = j
    BY <1>3, <1>4, <1>4a
  <2>2. stored \subseteq stored'
    BY <1>3
  <2>3. Tip' = Tip
    BY <1>3
  <2> QED
    BY <1>3, <2>1, <2>2, <2>3, AdvanceWorld, Zenon
<1>6. /\ todo' = Tail(todo) /\ Len(todo') = Len(todo) - 1 /\ Len(todo) \in Nat
      /\ \A i \in 1 .. Len(todo') : todo'[i] = todo[i + 1]
  <2>1. todo' = Tail(todo)
    BY <1>3, AdvanceFacts
  <2>2. /\ Len(Tail(todo)) = Len(todo) - 1 /\ Len(todo) \in Nat
        /\ \A i \in 1 .. Len(Tail(todo)) : Tail(todo)[i] = todo[i + 1]
    BY <1>1, TodoFacts
  <2> QED
    BY <2>1, <2>2
<1>7. ASSUME todo' # <<>>
      PROVE  Deleting(h, n)'
  <2>1. UNCHANGED <<mode, world>>
    BY <1>7, AdvanceFacts
  <2>2. Pruning(h, n)'
    BY <1>1, <1>4, <2>1 DEF Pruning
  <2>3. ASSUME NEW i \in 1 .. Len(todo')
        PROVE  todo'[i] = <<Delete(<<"body", n - Len(todo') + i - 1>>)>>
    <3>1. i + 1 \in 1 .. Len(todo) /\ n - Len(todo) + (i + 1) - 1 = n - Len(todo') + i - 1
      <4>1. \A l \in Nat : \A m : m = l - 1 =>
                \A j \in 1 .. m : j + 1 \in 1 .. l /\ n - l + (j + 1) - 1 = n - m + j - 1
        OBVIOUS
      <4> QED
        BY <1>6, <4>1
    <3>2. todo[i + 1] = <<Delete(<<"body", n - Len(todo) + (i + 1) - 1>>)>>
      BY <1>4, <3>1
    <3> QED
      BY <1>6, <3>1, <3>2, Zenon
  <2>4. Len(todo') <= n
    BY <1>4, <1>6
  <2> QED
    BY <1>3, <1>4, <2>1, <2>2, <2>3, <2>4, Zenon DEF Deleting
<1> QED
  BY <1>3, <1>5, <1>7, LastWrite

LEMMA WriteStep == StoreInv /\ Write => StoreInv'
<1> SUFFICES ASSUME StoreInv, Write PROVE StoreInv'
  OBVIOUS
<1>1. CASE undoing
  BY <1>1, UndoStep
<1>2. CASE ~undoing
  <2>1. \/ \E f : \E k, h, p \in Nat : Writing(f, k, h, p)
        \/ \E h, n \in Nat : StoringFirst(h, n) \/ Deleting(h, n)
    BY <1>2 DEF StoreInv, CallInv, Write
  <2>2. ASSUME NEW f, NEW k \in Nat, NEW h \in Nat, NEW p \in Nat, Writing(f, k, h, p)
        PROVE  StoreInv'
    <3>1. p = 0 \/ p = 1 \/ p = 2
      <4>1. p \in 0 .. 2
        BY <2>2 DEF Writing
      <4> QED
        BY <4>1
    <3> QED
      BY <1>2, <2>2, <3>1, WriteLog, WriteBlock, WriteClear
  <2> QED
    BY <1>2, <2>1, <2>2, WriteFirst, WriteDelete
<1> QED
  BY <1>1, <1>2

----------------------------------------------------------------------------
(* The theorems.                                                           *)

LEMMA StoreStutter == StoreInv /\ UNCHANGED vars => StoreInv'
<1> SUFFICES ASSUME StoreInv, UNCHANGED vars PROVE StoreInv'
  OBVIOUS
<1>1. /\ UNCHANGED <<disk, mode, world, todo, done, snap, undoing>>
      /\ UNCHANGED <<goal, stored, stray, prune_cold, is_validator>>
  BY DEF vars
<1>2. /\ DiskInv' /\ Tip' = Tip /\ \A key, v : Loose(key, v)' <=> Loose(key, v)
      /\ \A o, h : Taken(o, h)' <=> Taken(o, h)
  BY <1>1, DiskSame DEF StoreInv
<1>3. WorldInv'
  BY <1>1, WorldSame DEF StoreInv
<1>4. ControlTypeOK'
  BY <1>1 DEF StoreInv, ControlTypeOK
<1>5. UndoInv'
  BY <1>1, <1>2 DEF StoreInv, UndoInv
<1>6. \A h : PutReady(h) <=> PutReady(h)'
  BY <1>1, <1>2 DEF PutReady
<1>7. \A f, k, h, p : Writing(f, k, h, p) => Writing(f, k, h, p)'
  BY <1>1, <1>2, <1>6 DEF Writing, WorldOf
<1>8. \A h, n : /\ StoringFirst(h, n) => StoringFirst(h, n)'
                /\ Deleting(h, n) => Deleting(h, n)'
  BY <1>1, <1>2, <1>6 DEF StoringFirst, Deleting, Pruning
<1>9. CallInv'
  BY <1>1, <1>2, <1>7, <1>8 DEF StoreInv, CallInv
<1> QED
  BY <1>2, <1>3, <1>4, <1>5, <1>9 DEF StoreInv

LEMMA StoreNext == StoreInv /\ [Next]_vars => StoreInv'
<1> SUFFICES ASSUME StoreInv, [Next]_vars PROVE StoreInv'
  OBVIOUS
<1>1. CASE RecoverFails
  BY <1>1, StoreStutter DEF RecoverFails
<1>2. CASE RestoreFails
  BY <1>2, UndoStep DEF RestoreFails
<1> QED
  BY <1>1, <1>2, CommitStep, PruneStep, CatchupStep, ReplayStep, DropStep, FinishStep,
     WriteStep, FailStep, CrashStep, StoreStutter DEF Next

\* Every reachable state of the store satisfies the inductive invariant.
THEOREM StoreInvariant == Spec => []StoreInv
  BY StoreInit, StoreNext, PTL DEF Spec

\* Whatever crashes, failed writes, roll backs and stray offers for other heights do,
\* a block whose put_block has finished stays whole, or is whole again once its decided
\* block is put after a stray offer; only pruning takes bodies, below the hot window.
THEOREM StoredBlocksKept == Spec => []StoredKept
<1>1. StoreInv => StoredKept
  <2> SUFFICES ASSUME StoreInv, NEW h \in stored \ stray
               PROVE  /\ disk[<<"header", h>>] = h
                      /\ disk[<<"hash", h>>] = h
                      /\ disk[<<"app", h>>] = Chain(h)
                      /\ \/ disk[<<"body", h>>] = h
                         \/ prune_cold /\ HotWindow > 0 /\ \E t \in stored : h + HotWindow <= t
    BY Zenon DEF StoredKept
  <2>1. \A k \in Kinds : disk[<<k, h>>] = Right(k, h) \/ (k = "body" /\ Pruned(h))
    BY DEF StoreInv, DiskInv, StoredInv, Whole
  <2> QED
    BY <2>1 DEF Kinds, Right, Pruned
<1> QED
  BY <1>1, StoreInvariant, PTL

\* A node that keeps its bodies can always be recovered from what is on its disk, as
\* long as no stray offer that wire_sync persisted stands there.
THEOREM CrashesRecover == Spec => []CrashRecoverable
<1>1. StoreInv => CrashRecoverable
  <2> SUFFICES ASSUME StoreInv, ~prune_cold, stray = {} PROVE recover_ok(disk)
    BY DEF CrashRecoverable
  <2>1. Tip \in Int /\ Tip + 1 \in Nat /\ Tip + 1 <= MaxHeight /\ (Tip + 1) - 1 = Tip
    BY TipFacts, StoreAssumption DEF StoreInv, DiskInv, Heights
  <2>2. ASSUME NEW h \in 0 .. Tip
        PROVE  h \in Heights /\ disk[<<"body", h>>] = h /\ disk[<<"app", h>>] = Chain(h)
    <3>1. h \in Heights /\ h <= Tip
      BY <2>1, StoreAssumption DEF Heights
    <3>2. Whole(h)
      BY <3>1 DEF StoreInv, DiskInv, StoredInv
    <3> QED
      BY <3>1, <3>2 DEF Whole, Pruned, Kinds, Right
  <2>3. Bodies(disk) = Chain(Tip)
    <3>1. \A i \in 1 .. Tip + 1 : i - 1 \in 0 .. Tip
      BY <2>1
    <3>2. \A i \in 1 .. Tip + 1 : disk[<<"body", i - 1>>] = i - 1
      BY <2>2, <3>1
    <3> QED
      BY <3>2 DEF Bodies, Chain, Tip
  <2>4. replay_ok(disk)
    <3> SUFFICES ASSUME NEW h \in 0 .. Tip
                 PROVE  /\ disk[<<"body", h>>] # None
                        /\ disk[<<"app", h>>] = SubSeq(Bodies(disk), 1, h + 1)
      BY Zenon DEF replay_ok, Tip
    <3>1. h + 1 \in Nat /\ h + 1 <= Tip + 1 /\ (h + 1) - 1 = h
      BY <2>1
    <3>2. SubSeq(Chain((Tip + 1) - 1), 1, h + 1) = Chain((h + 1) - 1)
      BY <2>1, <3>1, ChainFacts
    <3> QED
      BY <2>1, <2>2, <2>3, <3>1, <3>2, ValueFacts
  <2>5. ASSUME disk[WalKey] # None, ~WalDone(disk)
        PROVE  apply_block(Bodies(disk), disk[WalKey].block) = disk[WalKey].app
    <3>1. PICK h \in Heights : LogOf(h)
      BY <2>5 DEF StoreInv, DiskInv, DiskTypeOK
    <3>2. /\ disk[WalKey].height = h /\ disk[WalKey].block = h /\ disk[WalKey].app = Chain(h)
          /\ h \in Nat
      <4>1. Decided(h) \in Offers(h) /\ disk[WalKey] = WalRecord(h, Decided(h))
        BY <3>1, OfferFacts DEF LogOf
      <4> QED
        BY <4>1, OfferFacts, ValueFacts
    <3>3. disk[<<"body", h>>] = None
      BY <2>5, <3>2 DEF WalDone
    <3>4. h = Tip + 1
      BY <3>1, <3>3 DEF StoreInv, DiskInv, WalInv
    <3>5. apply_block(Chain(h - 1), h) = Chain(h) /\ h - 1 = Tip
      BY <2>1, <3>2, <3>4, ChainFacts
    <3> QED
      BY <2>3, <3>2, <3>5
  <2> QED
    BY <2>4, <2>5 DEF recover_ok
<1> QED
  BY <1>1, StoreInvariant, PTL

\* The blocks of the executed world of a running node have all been stored.
THEOREM WorldIsStored == Spec => []WorldStored
<1>1. StoreInv => WorldStored
  <2> SUFFICES ASSUME StoreInv, mode = "up", NEW h \in 0 .. Len(world) - 1
               PROVE  h \in stored
    BY DEF WorldStored
  <2>1. PICK n \in Nat : WorldIs(n)
    BY DEF StoreInv, WorldInv
  <2>2. Len(world) = n /\ n <= MaxHeight
    BY <2>1 DEF WorldIs, WorldOf
  <2>3. h \in Heights /\ h < n
    BY <2>2, StoreAssumption DEF Heights
  <2> QED
    BY <2>1, <2>3 DEF WorldIs
<1> QED
  BY <1>1, StoreInvariant, PTL

\* What a validator's world is when it comes up.
LEMMA ComesUp ==
  ASSUME StoreInv, [Next]_vars, StoreInv', is_validator, mode # "up", mode' = "up"
  PROVE  world' = Chain(Tip)' /\ stored \subseteq stored' /\ is_validator'
<1>1. CASE RecoverReplay
  <2>1. replay_ok(disk) /\ world' = Bodies(disk) /\ UNCHANGED <<disk, stored, is_validator>>
    BY <1>1 DEF RecoverReplay, recover_ok
  <2>2. PICK t : t = TipOf(disk)
    OBVIOUS
  <2>3. t \in Heights \cup {-1} /\ (t + 1) - 1 = t
    BY <2>2, TipFacts, ValueFacts DEF StoreInv, DiskInv, Tip
  <2>4. is_validator => BodiesDecided(disk)
    BY ValidatorBodies, Zenon DEF StoreInv, DiskInv
  <2>5. WorldOf(Bodies(disk), t + 1)
    BY <2>1, <2>2, <2>3, <2>4, Replayed DEF StoreInv, DiskInv, DiskTypeOK
  <2>6. Bodies(disk) = Chain(t)
    BY <2>3, <2>5 DEF WorldOf
  <2> QED
    BY <2>1, <2>2, <2>6 DEF Tip
<1>2. CASE Write \/ RestoreFails
  <2>1. todo # <<>> /\ Returns /\ UNCHANGED <<is_validator, goal>> /\ stored \subseteq stored'
    BY <1>2, AdvanceFacts
  <2>2. mode = "recovering"
    BY <2>1 DEF StoreInv, ControlTypeOK
  <2>3. CASE ~undoing /\ goal = None /\ replay_ok(disk') /\ world' = Bodies(disk')
    <3>0. DiskTypeOK' /\ disk' \in [Keys -> Values]
      BY DEF StoreInv, DiskInv, DiskTypeOK
    <3>1. PICK t : t = TipOf(disk')
      OBVIOUS
    <3>2a. t \in Heights \cup {-1}
      BY <3>0, <3>1, TipTypeNext
    <3>2. (t + 1) - 1 = t
      BY <3>2a, ValueFacts
    <3>3. is_validator => BodiesDecided(disk')
      BY <2>1, <3>0, ValidatorBodiesNext, Zenon
    <3>4. WorldOf(Bodies(disk'), t + 1)
      BY <2>3, <3>0, <3>1, <3>2a, <3>3, Replayed
    <3>5. Bodies(disk') = Chain(t)
      BY <3>2, <3>4 DEF WorldOf
    <3> QED
      BY <2>1, <2>3, <3>1, <3>5 DEF Tip
  <2>4. CASE ~undoing /\ goal # None /\ world' = goal
    <3>1. Write
      BY <1>2, <2>4 DEF RestoreFails
    <3>2a. PICK f : \E k, h, p \in Nat : Writing(f, k, h, p)
      BY <2>1, <2>2, <2>4 DEF StoreInv, CallInv, StoringFirst, Deleting, Pruning
    <3>2. PICK k \in Nat, h \in Nat, p \in Nat : Writing(f, k, h, p)
      BY <3>2a
    <3>3. /\ k \in Heights /\ h \in 0 .. k /\ p \in 0 .. 2 /\ Len(todo) = 3 * (k - h + 1) - p
          /\ WorldOf(goal, k + 1) /\ h = k
      BY <2>4, <3>2 DEF Writing
    <3>3a. goal = Chain(k)
      <4>1. (k + 1) - 1 = k
        BY <3>2
      <4> QED
        BY <3>3, <4>1 DEF WorldOf
    <3>4. p = 2
      <4>1. Len(todo) = 1
        BY <2>1 DEF Returns
      <4>2. 1 = 3 * (k - k + 1) - p
        BY <3>3, <4>1
      <4> QED
        BY <4>2
    <3>5. Tip = h
      BY <2>4, <3>2, <3>4 DEF Writing
    <3>6. ClearHead
      BY <3>2, <3>4, WritingHead
    <3>7. Tip' = Tip
      BY <2>4, <3>1, <3>6, ClearData
    <3> QED
      BY <2>1, <2>4, <3>3, <3>3a, <3>5, <3>7
  <2> QED
    BY <1>2, <2>1, <2>2, <2>3, <2>4, AdvanceFacts
<1>3. CASE ~(RecoverReplay \/ Write \/ RestoreFails)
  <2>1. mode' = mode \/ mode' # "up"
    BY <1>3 DEF Next, vars, Commit, put_then_maybe_prune, catchup, RecoverDrop, RecoverFinish,
                RecoverFails, WriteFails, Crash
  <2> QED
    BY <2>1
<1> QED
  BY <1>1, <1>2, <1>3

\* A validator that comes up after a crash has lost no block that was stored.
THEOREM RecoveryKeepsTip == Spec => RecoversTip
<1>1. ASSUME StoreInv, [Next]_vars, StoreInv',
             is_validator, mode # "up", mode' = "up", NEW h \in stored
      PROVE  h < Len(world')
  <2>1. world' = Chain(Tip)' /\ stored \subseteq stored' /\ is_validator'
    BY <1>1, ComesUp
  <2>2. PICK t : t = TipOf(disk')
    OBVIOUS
  <2>3. t \in Heights \cup {-1}
    BY <1>1, <2>2, TipTypeNext DEF StoreInv, DiskInv
  <2>4. h <= t /\ h \in Nat
    BY <1>1, <2>1, <2>2, ValueFacts DEF StoreInv, DiskInv, StoredInv, DiskTypeOK, Tip
  <2>5. t + 1 \in Nat /\ (t + 1) - 1 = t
    BY <2>3, ValueFacts
  <2>6. Len(Chain((t + 1) - 1)) = t + 1
    BY <2>5, ChainFacts
  <2>7. Len(world') = t + 1
    BY <2>1, <2>2, <2>5, <2>6 DEF Tip
  <2> QED
    BY <2>4, <2>5, <2>7
<1>2. StoreInv /\ [Next]_vars /\ StoreInv' =>
        [is_validator /\ mode # "up" /\ mode' = "up" => \A h \in stored : h < Len(world')]_vars
  BY <1>1
<1> QED
  BY <1>2, StoreInvariant, PTL DEF Spec, RecoversTip
=============================================================================
