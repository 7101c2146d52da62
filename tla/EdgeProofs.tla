----------------------------- MODULE EdgeProofs ------------------------------
(***************************************************************************)
(* Proofs about what a node takes from outside: the mempool, the table of  *)
(* peers, and the clients of its RPC with the faucet.  The three share no  *)
(* state, only lemmas about finite sets.                                   *)
(***************************************************************************)
EXTENDS Mempool, Peers, Services, BaseProofs

----------------------------------------------------------------------------
(* Finite sets and numbers.                                                *)

\* A bounded set of numbers has a greatest one, and Max is it.
LEMMA GreatestNumber ==
  ASSUME NEW T \in SUBSET Nat, T # {}, NEW b \in Nat, \A m \in T : m <= b
  PROVE  Max(T) \in T /\ \A m \in T : m <= Max(T)
<1> DEFINE U == {n \in Nat : \A m \in T : m <= n}
<1>1. PICK n \in U : \A m \in U : n <= m
  BY LeastNumber
<1>2. n \in T
  <2> SUFFICES ASSUME n \notin T PROVE FALSE
    OBVIOUS
  <2>1. PICK t \in T : TRUE
    OBVIOUS
  <2>2. \A m \in T : m <= n - 1
    OBVIOUS
  <2>3. n - 1 \in U
    BY <2>1, <2>2
  <2> QED
    BY <1>1, <2>3
<1>3. \E x \in T : \A y \in T : x >= y
  BY <1>2
<1> QED
  BY <1>3 DEF Max

\* A set with n + 1 different members has more than n.
LEMMA Outnumber ==
  ASSUME NEW T, IsFiniteSet(T), NEW n \in Nat, NEW f \in [0 .. n -> T],
         \A i, j \in 0 .. n : f[i] = f[j] => i = j
  PROVE  n < Cardinality(T)
<1>1. f \in Injection(0 .. n, T)
  BY DEF Injection, IsInjective
<1>2. Cardinality(0 .. n) = n + 1
  BY FS_Interval
<1>3. Cardinality(0 .. n) <= Cardinality(T)
  BY <1>1, FS_Injection
<1> QED
  BY <1>2, <1>3, FS_CardinalityType

\* One more element, and one fewer.
LEMMA AddOne ==
  ASSUME NEW S, IsFiniteSet(S), NEW x
  PROVE  IsFiniteSet(S \cup {x}) /\ Cardinality(S \cup {x}) <= Cardinality(S) + 1
<1>1. /\ IsFiniteSet(S \cup {x})
      /\ Cardinality(S \cup {x}) = IF x \in S THEN Cardinality(S) ELSE Cardinality(S) + 1
  BY FS_AddElement
<1>2. Cardinality(S) \in Nat
  BY FS_CardinalityType
<1> QED
  BY <1>1, <1>2

LEMMA RemoveOne ==
  ASSUME NEW S, IsFiniteSet(S), NEW x \in S
  PROVE  IsFiniteSet(S \ {x}) /\ Cardinality(S \ {x}) = Cardinality(S) - 1
  BY FS_RemoveElement

\* A union is no larger than its parts together.
LEMMA UnionCount ==
  ASSUME NEW A, NEW B, IsFiniteSet(A), IsFiniteSet(B)
  PROVE  Cardinality(A \cup B) <= Cardinality(A) + Cardinality(B)
<1>1. Cardinality(A \cup B) = Cardinality(A) + Cardinality(B) - Cardinality(A \cap B)
  BY FS_Union
<1>2. Cardinality(A \cap B) \in Nat /\ Cardinality(A) \in Nat /\ Cardinality(B) \in Nat
  BY FS_Subset, FS_CardinalityType
<1> QED
  BY <1>1, <1>2

----------------------------------------------------------------------------
(* Eviction.                                                               *)

Below(held, t) == {u \in held : EvictedBefore(u, t)}

Rest(held, k) == {t \in held : Cardinality(Below(held, t)) >= k}

Stops(held, tx) ==
    {k \in 0 .. Cardinality(held) :
        HasRoom(Rest(held, k), tx) \/ \A t \in Rest(held, k) : t.prio >= tx.prio}

\* ensure_room without its local definitions.
LEMMA EnsureRoomIs ==
  ASSUME NEW held, NEW tx
  PROVE  ensure_room(held, tx) = Rest(held, Min(Stops(held, tx)))
  BY DEF ensure_room, Rest, Below, Stops

LEMMA TxFields ==
  ASSUME NEW t \in Tx
  PROVE  /\ t.from \in Accounts /\ t.from \in Nat
         /\ t.nonce \in Nonces /\ t.nonce \in Nat
         /\ t.prio \in Nat /\ t.size \in Nat
<1>1. t.from \in Accounts /\ t.nonce \in Nonces /\ t.prio \in Prios /\ t.size \in Sizes
  BY DEF Tx
<1>2. \A n \in Nonces : n \in Nat
  BY PoolAssumption DEF Nonces
<1> QED
  BY <1>1, <1>2, PoolAssumption

\* What has fewer transactions below it does not have the higher priority.
LEMMA BelowOrdered ==
  ASSUME NEW held \in SUBSET Tx, IsFiniteSet(held), NEW t \in held, NEW u \in held,
         Cardinality(Below(held, t)) < Cardinality(Below(held, u))
  PROVE  u.prio >= t.prio
<1> SUFFICES ASSUME u.prio < t.prio PROVE FALSE
  BY TxFields
<1>1. Below(held, u) \subseteq Below(held, t)
  <2> SUFFICES ASSUME NEW v \in held, EvictedBefore(v, u) PROVE EvictedBefore(v, t)
    BY DEF Below
  <2>1. v.prio \in Nat /\ u.prio \in Nat /\ t.prio \in Nat
    BY TxFields
  <2>2. v.prio <= u.prio
    BY <2>1 DEF EvictedBefore
  <2> QED
    BY <2>1, <2>2 DEF EvictedBefore
<1>2. IsFiniteSet(Below(held, t)) /\ IsFiniteSet(Below(held, u))
  BY FS_Subset DEF Below
<1>3. Cardinality(Below(held, u)) <= Cardinality(Below(held, t))
  BY <1>1, <1>2, FS_Subset
<1> QED
  BY <1>2, <1>3, FS_CardinalityType

\* What stays after eviction is a part of the pool from some rank on.
LEMMA RoomFacts ==
  ASSUME NEW held \in SUBSET Tx, IsFiniteSet(held), NEW tx \in Tx
  PROVE  /\ ensure_room(held, tx) \subseteq held
         /\ \A t \in held, u \in ensure_room(held, tx) :
                t \notin ensure_room(held, tx) => u.prio >= t.prio
<1> DEFINE N == Cardinality(held)
<1> DEFINE S == Stops(held, tx)
<1>1. N \in Nat
  BY FS_CardinalityType
<1>2. Rest(held, N) = {}
  <2> SUFFICES ASSUME NEW t \in held PROVE ~(Cardinality(Below(held, t)) >= N)
    BY DEF Rest
  <2>1. Below(held, t) \subseteq held \ {t}
    BY TxFields DEF Below, EvictedBefore
  <2>2. IsFiniteSet(held \ {t}) /\ Cardinality(held \ {t}) = N - 1
    BY FS_RemoveElement
  <2>3. Cardinality(Below(held, t)) <= N - 1 /\ IsFiniteSet(Below(held, t))
    BY <2>1, <2>2, FS_Subset
  <2>4. Cardinality(Below(held, t)) \in Nat
    BY <2>3, FS_CardinalityType
  <2> QED
    BY <1>1, <2>3, <2>4
<1>3. N \in S
  BY <1>1, <1>2 DEF Stops
<1>4. S \in SUBSET Nat /\ S # {}
  BY <1>3 DEF Stops
<1>5. \E n \in S : \A m \in S : n <= m
  BY <1>4, LeastNumber
<1> DEFINE k == Min(S)
<1>6. k \in S
  BY <1>5 DEF Min
<1>7. k \in Nat
  BY <1>4, <1>6
<1> HIDE DEF k, S
<1>8. ensure_room(held, tx) = Rest(held, k)
  BY EnsureRoomIs DEF k, S
<1>9. ASSUME NEW t \in held, NEW u \in Rest(held, k), t \notin Rest(held, k)
      PROVE  u.prio >= t.prio
  <2>1. u \in held /\ Cardinality(Below(held, u)) >= k /\ ~(Cardinality(Below(held, t)) >= k)
    BY <1>9 DEF Rest
  <2>2. Cardinality(Below(held, u)) \in Nat /\ Cardinality(Below(held, t)) \in Nat
    BY FS_Subset, FS_CardinalityType DEF Below
  <2> QED
    BY <1>7, <2>1, <2>2, BelowOrdered
<1> QED
  BY <1>8, <1>9 DEF Rest

\* An insert keeps the pool within its count, and the slots distinct.
LEMMA InsertedFacts ==
  ASSUME NEW held \in SUBSET Tx, IsFiniteSet(held), NEW tx \in Tx,
         \A t, u \in held : SameSlot(t, u) => t = u
  PROVE  /\ Inserted(held, tx) \subseteq Tx /\ IsFiniteSet(Inserted(held, tx))
         /\ \A t, u \in Inserted(held, tx) : SameSlot(t, u) => t = u
         /\ Cardinality(held) <= MaxTxs => Cardinality(Inserted(held, tx)) <= MaxTxs
<1> DEFINE seen == Observed(held, tx.from)
<1> DEFINE old == {t \in seen : SameSlot(t, tx)}
<1> DEFINE room == ensure_room(seen, tx)
<1> DEFINE new == Inserted(held, tx)
<1>1. seen \subseteq held /\ seen \in SUBSET Tx
  BY DEF Observed
<1>2. IsFiniteSet(seen) /\ Cardinality(seen) <= Cardinality(held)
  BY <1>1, FS_Subset
<1>3. room \subseteq seen
  BY <1>1, <1>2, RoomFacts
<1>4. IsFiniteSet(room) /\ Cardinality(room) <= Cardinality(seen)
  BY <1>2, <1>3, FS_Subset
<1>5. /\ Cardinality(held) \in Nat /\ Cardinality(seen) \in Nat /\ Cardinality(room) \in Nat
      /\ MaxTxs \in Nat
  BY <1>2, <1>4, FS_CardinalityType, PoolAssumption
<1>6. CASE old # {} /\ \A t \in old : rbf_allowed(t, tx)
  <2>1. new = (seen \ old) \cup {tx}
    BY <1>6 DEF Inserted
  <2>2. PICK t \in old : TRUE
    BY <1>6
  <2>3. seen \ old \subseteq seen \ {t}
    BY <2>2
  <2>4. IsFiniteSet(seen \ {t}) /\ Cardinality(seen \ {t}) = Cardinality(seen) - 1
    BY <1>2, <2>2, FS_RemoveElement
  <2>5. IsFiniteSet(seen \ old) /\ Cardinality(seen \ old) <= Cardinality(seen) - 1
    BY <2>3, <2>4, FS_Subset
  <2>6. IsFiniteSet(new) /\ Cardinality(new) <= Cardinality(seen \ old) + 1
    <3> DEFINE kept == seen \ old
    <3>1. IsFiniteSet(kept) /\ new = kept \cup {tx}
      BY <2>1, <2>5
    <3> HIDE DEF kept, new
    <3>2. IsFiniteSet(new) /\ Cardinality(new) <= Cardinality(kept) + 1
      BY <3>1, AddOne
    <3> QED
      BY <3>2 DEF kept
  <2>7. Cardinality(new) \in Nat /\ Cardinality(seen \ old) \in Nat
    BY <2>5, <2>6, FS_CardinalityType
  <2>8. ASSUME NEW x \in new, NEW y \in new, SameSlot(x, y) PROVE x = y
    <3>1. SameSlot(y, x)
      BY <2>8 DEF SameSlot
    <3> QED
      BY <1>1, <2>1, <2>8, <3>1
  <2> QED
    BY <1>1, <1>2, <1>5, <2>1, <2>5, <2>6, <2>7, <2>8
<1>7. CASE old # {} /\ ~(\A t \in old : rbf_allowed(t, tx))
  <2>1. new = seen
    BY <1>7 DEF Inserted
  <2> QED
    BY <1>1, <1>2, <1>5, <2>1
<1>8. CASE old = {} /\ HasRoom(room, tx)
  <2>1. new = room \cup {tx}
    BY <1>8 DEF Inserted
  <2>2. Cardinality(room) < MaxTxs
    BY <1>8 DEF HasRoom
  <2>3. IsFiniteSet(new) /\ Cardinality(new) <= Cardinality(room) + 1
    BY <1>4, <2>1, AddOne
  <2>4. Cardinality(new) \in Nat
    BY <2>3, FS_CardinalityType
  <2>5. ASSUME NEW x \in new, NEW y \in new, SameSlot(x, y) PROVE x = y
    <3>1. SameSlot(y, x)
      BY <2>5 DEF SameSlot
    <3> QED
      BY <1>1, <1>3, <1>8, <2>1, <2>5, <3>1
  <2> QED
    BY <1>1, <1>3, <1>5, <2>1, <2>2, <2>3, <2>4, <2>5
<1>9. CASE old = {} /\ ~HasRoom(room, tx)
  <2>1. new = room
    BY <1>9 DEF Inserted
  <2> QED
    BY <1>1, <1>2, <1>3, <1>4, <1>5, <2>1
<1> QED
  BY <1>6, <1>7, <1>8, <1>9

----------------------------------------------------------------------------
(* One turn of take_ready.                                                 *)

Better(t, u) == t.prio > u.prio \/ (t.prio = u.prio /\ t.from <= u.from)

LEMMA BestFacts ==
  ASSUME NEW S \in SUBSET Tx, IsFiniteSet(S), S # {}
  PROVE  Best(S) \in S /\ \A u \in S : Better(Best(S), u)
<1> DEFINE P == {T \in SUBSET S : T = {} \/ \E t \in T : \A u \in T : Better(t, u)}
<1>1. {} \in P
  OBVIOUS
<1>2. \A t \in S : t.prio \in Nat /\ t.from \in Nat
  BY TxFields
<1>3. ASSUME NEW T \in SUBSET S, NEW x \in S, T \in P, x \notin T PROVE T \cup {x} \in P
  <2>1. \A t, u \in S : Better(t, u) \/ Better(u, t)
    BY <1>2 DEF Better
  <2>2. \A t, u, v \in S : Better(t, u) /\ Better(u, v) => Better(t, v)
    BY <1>2 DEF Better
  <2>3. CASE T = {}
    BY <2>1, <2>3
  <2>4. CASE T # {}
    <3>1. PICK t \in T : \A u \in T : Better(t, u)
      BY <1>3, <2>4
    <3>2. CASE Better(x, t)
      <4>1. \A u \in T \cup {x} : Better(x, u)
        BY <2>1, <2>2, <3>1, <3>2
      <4> QED
        BY <4>1
    <3>3. CASE Better(t, x)
      <4>1. \A u \in T \cup {x} : Better(t, u)
        BY <3>1, <3>3
      <4> QED
        BY <4>1
    <3> QED
      BY <2>1, <3>1, <3>2, <3>3
  <2> QED
    BY <2>3, <2>4
<1> HIDE DEF P
<1>4. S \in P
  BY <1>1, <1>3, FiniteInduction
<1>5. \E t \in S : \A u \in S : Better(t, u)
  BY <1>4 DEF P
<1> QED
  BY <1>5 DEF Best, Better

LoopStates(held) ==
    [pool : SUBSET held, local : [Accounts -> Nat], skip : SUBSET held, used : Nat,
     out : Seq(Tx)]

\* The fields after a turn.
LEMMA TurnFacts ==
  ASSUME NEW held \in SUBSET Tx, IsFiniteSet(held), NEW s \in LoopStates(held), Ready(s) # {}
  PROVE  \E t \in Ready(s) :
           /\ \A u \in Ready(s) : Better(t, u)
           /\ \/ /\ s.used + t.size > BlockCap
                 /\ Take(s) = [pool |-> s.pool, local |-> s.local, skip |-> s.skip \cup {t},
                               used |-> s.used, out |-> s.out]
              \/ /\ s.used + t.size <= BlockCap
                 /\ Take(s) = [pool |-> s.pool \ {t},
                               local |-> [s.local EXCEPT ![t.from] = t.nonce + 1],
                               skip |-> s.skip, used |-> s.used + t.size,
                               out |-> Append(s.out, t)]
<1> DEFINE t == Best(Ready(s))
<1>1. Ready(s) \in SUBSET Tx /\ Ready(s) \subseteq held
  BY DEF Ready, LoopStates
<1>2. IsFiniteSet(Ready(s))
  BY <1>1, FS_Subset
<1>3. t \in Ready(s) /\ \A u \in Ready(s) : Better(t, u)
  BY <1>1, <1>2, BestFacts
<1>4. t.size \in Nat /\ s.used \in Nat /\ BlockCap \in Nat
  BY <1>1, <1>3, TxFields, PoolAssumption DEF LoopStates
<1>5. s = [pool |-> s.pool, local |-> s.local, skip |-> s.skip, used |-> s.used, out |-> s.out]
  BY DEF LoopStates
<1>6. CASE s.used + t.size > BlockCap
  <2>1. Take(s) = [s EXCEPT !.skip = @ \cup {t}]
    BY <1>6 DEF Take
  <2> HIDE DEF t
  <2>2. Take(s) = [pool |-> s.pool, local |-> s.local, skip |-> s.skip \cup {t},
                   used |-> s.used, out |-> s.out]
    BY <1>5, <2>1
  <2> QED
    BY <1>3, <1>6, <2>2
<1>7. CASE ~(s.used + t.size > BlockCap)
  <2>1. Take(s) = [s EXCEPT !.pool = @ \ {t}, !.local[t.from] = t.nonce + 1,
                            !.used = @ + t.size, !.out = Append(@, t)]
    BY <1>7 DEF Take
  <2> HIDE DEF t
  <2>2. Take(s) = [pool |-> s.pool \ {t},
                   local |-> [s.local EXCEPT ![t.from] = t.nonce + 1],
                   skip |-> s.skip, used |-> s.used + t.size,
                   out |-> Append(s.out, t)]
    BY <1>5, <2>1
  <2>3. s.used + t.size <= BlockCap
    BY <1>4, <1>7
  <2> QED
    BY <1>3, <2>2, <2>3
<1> QED
  BY <1>6, <1>7

LEMMA TurnType ==
  ASSUME NEW held \in SUBSET Tx, IsFiniteSet(held), NEW s \in LoopStates(held)
  PROVE  Take(s) \in LoopStates(held)
<1>1. CASE Ready(s) = {}
  BY <1>1 DEF Take
<1>2. CASE Ready(s) # {}
  <2>1. PICK t \in Ready(s) :
              \/ Take(s) = [pool |-> s.pool, local |-> s.local, skip |-> s.skip \cup {t},
                            used |-> s.used, out |-> s.out]
              \/ Take(s) = [pool |-> s.pool \ {t},
                            local |-> [s.local EXCEPT ![t.from] = t.nonce + 1],
                            skip |-> s.skip, used |-> s.used + t.size,
                            out |-> Append(s.out, t)]
    BY <1>2, TurnFacts
  <2>2. t \in held /\ t \in Tx
    BY DEF Ready, LoopStates
  <2>3. t.nonce + 1 \in Nat /\ t.size \in Nat
    BY <2>2, TxFields
  <2>4. /\ s.pool \in SUBSET held /\ s.local \in [Accounts -> Nat] /\ s.skip \in SUBSET held
        /\ s.used \in Nat /\ s.out \in Seq(Tx)
    BY DEF LoopStates
  <2>5. s.pool \ {t} \in SUBSET held /\ s.skip \cup {t} \in SUBSET held
    BY <2>2, <2>4
  <2>6. s.used + t.size \in Nat
    BY <2>3, <2>4
  <2>7. Append(s.out, t) \in Seq(Tx)
    BY <2>2, <2>4
  <2>8. [s.local EXCEPT ![t.from] = t.nonce + 1] \in [Accounts -> Nat]
    BY <2>3, <2>4
  <2>9. CASE Take(s) = [pool |-> s.pool, local |-> s.local, skip |-> s.skip \cup {t},
                        used |-> s.used, out |-> s.out]
    BY <2>4, <2>5, <2>9 DEF LoopStates
  <2>10. CASE Take(s) = [pool |-> s.pool \ {t},
                         local |-> [s.local EXCEPT ![t.from] = t.nonce + 1],
                         skip |-> s.skip, used |-> s.used + t.size,
                         out |-> Append(s.out, t)]
    BY <2>4, <2>5, <2>6, <2>7, <2>8, <2>10 DEF LoopStates
  <2> QED
    BY <2>1, <2>9, <2>10
<1> QED
  BY <1>1, <1>2

----------------------------------------------------------------------------
(* The loop.                                                               *)

\* Used and NextNonce when a transaction is appended.
LEMMA AppendFacts ==
  ASSUME NEW out \in Seq(Tx), NEW t \in Tx, account_nonce \in [Accounts -> Nat]
  PROVE  /\ Used(out) \in Nat
         /\ Used(Append(out, t)) = Used(out) + t.size
         /\ \A a \in Accounts, n \in 0 .. Len(out) :
                /\ NextNonce(a, out, n) \in Nat
                /\ NextNonce(a, Append(out, t), n) = NextNonce(a, out, n)
         /\ \A a \in Accounts :
                NextNonce(a, Append(out, t), Len(out) + 1) =
                    IF t.from = a THEN NextNonce(a, out, Len(out)) + 1
                                  ELSE NextNonce(a, out, Len(out))
<1> DEFINE L == Len(out)
<1> DEFINE b == Append(out, t)
<1>1. /\ L \in Nat /\ DOMAIN out = 1 .. L /\ DOMAIN b = 1 .. L + 1 /\ b[L + 1] = t
      /\ \A i \in 1 .. L : b[i] = out[i]
  OBVIOUS
<1>2. \A i \in 1 .. L : out[i] \in Tx /\ out[i].size \in Nat
  BY <1>1, TxFields
<1> DEFINE f == [i \in DOMAIN out |-> out[i].size]
<1> DEFINE g == [i \in DOMAIN b |-> b[i].size]
<1> DEFINE S == 1 .. L
<1>3. IsFiniteSet(S) /\ L + 1 \notin S /\ S \cup {L + 1} = 1 .. L + 1
  <2>1. IsFiniteSet(S)
    BY <1>1, FS_Interval
  <2> HIDE DEF L
  <2>2. L + 1 \notin S /\ S \cup {L + 1} = 1 .. L + 1
    BY <1>1
  <2> QED
    BY <2>1, <2>2
<1>4. t.size \in Nat
  BY TxFields
<1> HIDE DEF b
<1>5. \A i \in S : f[i] \in Nat /\ g[i] = f[i]
  BY <1>1, <1>2
<1>6. g[L + 1] = t.size
  BY <1>1
<1>7. DOMAIN out = S /\ DOMAIN b = S \cup {L + 1}
  BY <1>1, <1>3
<1>8. Used(out) = SumOf(f, S) /\ Used(b) = SumOf(g, S \cup {L + 1})
  BY <1>7 DEF Used
<1> HIDE DEF f, g, S
<1>9. Numbers(f, S) /\ Numbers(g, S \cup {L + 1})
  BY <1>4, <1>5, <1>6 DEF Numbers
<1>10. SumOf(f, S) \in Nat
  BY <1>3, <1>9, SumType
<1>11. SumOf(g, S \cup {L + 1}) = g[L + 1] + SumOf(g, S)
  BY <1>3, <1>9, SumAdd
<1>12. SumOf(g, S) = SumOf(f, S)
  BY <1>3, <1>5, <1>9, SumCongruent
<1>13. Used(out) \in Nat /\ Used(b) = Used(out) + t.size
  BY <1>4, <1>6, <1>8, <1>10, <1>11, <1>12
<1>14. ASSUME NEW a \in Accounts, NEW n \in 0 .. L
       PROVE  /\ NextNonce(a, out, n) \in Nat /\ NextNonce(a, b, n) = NextNonce(a, out, n)
  <2>1. {i \in 1 .. n : b[i].from = a} = {i \in 1 .. n : out[i].from = a}
    BY <1>1
  <2>2. IsFiniteSet(1 .. n)
    BY FS_Interval
  <2>3. Cardinality({i \in 1 .. n : out[i].from = a}) \in Nat
    BY <2>2, FS_Subset, FS_CardinalityType
  <2>4. account_nonce[a] \in Nat
    OBVIOUS
  <2>5. NextNonce(a, out, n) = account_nonce[a] + Cardinality({i \in 1 .. n : out[i].from = a})
    BY DEF NextNonce
  <2>6. NextNonce(a, b, n) = account_nonce[a] + Cardinality({i \in 1 .. n : b[i].from = a})
    BY DEF NextNonce
  <2>7. NextNonce(a, out, n) \in Nat
    BY <2>3, <2>4, <2>5
  <2> QED
    BY <2>1, <2>5, <2>6, <2>7
<1>15. ASSUME NEW a \in Accounts
       PROVE  NextNonce(a, b, L + 1) = IF t.from = a THEN NextNonce(a, out, L) + 1
                                                     ELSE NextNonce(a, out, L)
  <2> DEFINE A == {i \in 1 .. L : out[i].from = a}
  <2> DEFINE B == {i \in 1 .. L + 1 : b[i].from = a}
  <2>1. IsFiniteSet(A)
    BY <1>3, FS_Subset DEF S
  <2>2. B = IF t.from = a THEN A \cup {L + 1} ELSE A
    BY <1>1
  <2>3. L + 1 \notin A
    BY <1>1
  <2>4. NextNonce(a, out, L) = account_nonce[a] + Cardinality(A)
    BY DEF NextNonce
  <2>5. NextNonce(a, b, L + 1) = account_nonce[a] + Cardinality(B)
    BY DEF NextNonce
  <2> HIDE DEF A, B
  <2>6. Cardinality(A) \in Nat /\ Cardinality(A \cup {L + 1}) = Cardinality(A) + 1
    BY <2>1, <2>3, FS_AddElement, FS_CardinalityType
  <2>7. account_nonce[a] \in Nat
    OBVIOUS
  <2> QED
    BY <2>2, <2>4, <2>5, <2>6, <2>7
<1> QED
  BY <1>13, <1>14, <1>15 DEF b

OrderedByFee(out) ==
    \A j \in DOMAIN out : \A i \in 1 .. j - 1 :
        Better(out[i], out[j]) \/ \E k \in i .. j - 1 : out[k].from = out[j].from

\* What is ready waits behind everything that was taken, unless its sender had a
\* transaction taken since.
Waits(s) ==
    \A i \in DOMAIN s.out, t \in Ready(s) :
        Better(s.out[i], t) \/ \E k \in i .. Len(s.out) : s.out[k].from = t.from

LoopInv(held, s, n) ==
    /\ s \in LoopStates(held)
    /\ s.used = Used(s.out) /\ s.used <= BlockCap
    /\ \A a \in Accounts : s.local[a] = NextNonce(a, s.out, Len(s.out))
    /\ \A i \in DOMAIN s.out : s.out[i].nonce = NextNonce(s.out[i].from, s.out, i - 1)
    /\ \A t \in s.skip : s.used + t.size > BlockCap
    /\ OrderedByFee(s.out)
    /\ Waits(s)
    /\ Ready(s) = {} \/ Cardinality(s.pool \ s.skip) + n <= Cardinality(held)

\* A turn that skips a transaction too large for what is left.
LEMMA SkipKeeps ==
  ASSUME NEW held \in SUBSET Tx, IsFiniteSet(held), NEW n \in Nat, NEW s,
         LoopInv(held, s, n), account_nonce \in [Accounts -> Nat],
         NEW t \in Ready(s), s.used + t.size > BlockCap,
         NEW x, x \in LoopStates(held),
         x = [pool |-> s.pool, local |-> s.local, skip |-> s.skip \cup {t},
              used |-> s.used, out |-> s.out]
  PROVE  LoopInv(held, x, n + 1)
<1>1. /\ x.pool = s.pool /\ x.local = s.local /\ x.skip = s.skip \cup {t}
      /\ x.used = s.used /\ x.out = s.out
  OBVIOUS
<1>2. Ready(x) \subseteq Ready(s)
  BY <1>1 DEF Ready
<1>3. t \in s.pool \ s.skip /\ x.pool \ x.skip = (s.pool \ s.skip) \ {t}
  BY <1>1 DEF Ready
<1>4. IsFiniteSet(s.pool \ s.skip)
  BY FS_Subset DEF LoopInv, LoopStates
<1>5. Cardinality(x.pool \ x.skip) = Cardinality(s.pool \ s.skip) - 1
  <2>1. PICK S : S = s.pool \ s.skip
    OBVIOUS
  <2>2. IsFiniteSet(S) /\ t \in S /\ x.pool \ x.skip = S \ {t}
    BY <1>3, <1>4, <2>1
  <2>3. Cardinality(S \ {t}) = Cardinality(S) - 1
    BY <2>2, RemoveOne
  <2> QED
    BY <2>1, <2>2, <2>3
<1>6. Cardinality(s.pool \ s.skip) \in Nat /\ Cardinality(held) \in Nat
  BY <1>4, FS_CardinalityType
<1>7. Cardinality(s.pool \ s.skip) + n <= Cardinality(held)
  BY DEF LoopInv
<1>8. Cardinality(x.pool \ x.skip) + (n + 1) <= Cardinality(held)
  BY <1>5, <1>6, <1>7
<1>9. Waits(x)
  BY <1>1, <1>2 DEF LoopInv, Waits
<1>10. \A u \in x.skip : x.used + u.size > BlockCap
  BY <1>1 DEF LoopInv
<1>11. /\ x.used = Used(x.out) /\ x.used <= BlockCap
       /\ \A a \in Accounts : x.local[a] = NextNonce(a, x.out, Len(x.out))
       /\ \A i \in DOMAIN x.out : x.out[i].nonce = NextNonce(x.out[i].from, x.out, i - 1)
       /\ OrderedByFee(x.out)
  BY <1>1 DEF LoopInv
<1> QED
  BY <1>8, <1>9, <1>10, <1>11 DEF LoopInv

\* A turn that takes the best of the ready transactions.
LEMMA TakeKeeps ==
  ASSUME NEW held \in SUBSET Tx, IsFiniteSet(held), NEW n \in Nat, NEW s,
         LoopInv(held, s, n), account_nonce \in [Accounts -> Nat],
         NEW t \in Ready(s), s.used + t.size <= BlockCap,
         \A u \in Ready(s) : Better(t, u),
         NEW x, x \in LoopStates(held),
         x = [pool |-> s.pool \ {t}, local |-> [s.local EXCEPT ![t.from] = t.nonce + 1],
              skip |-> s.skip, used |-> s.used + t.size, out |-> Append(s.out, t)]
  PROVE  LoopInv(held, x, n + 1)
<1>1. /\ x.pool = s.pool \ {t} /\ x.local = [s.local EXCEPT ![t.from] = t.nonce + 1]
      /\ x.skip = s.skip /\ x.used = s.used + t.size /\ x.out = Append(s.out, t)
  OBVIOUS
<1>2. /\ s.pool \in SUBSET held /\ s.local \in [Accounts -> Nat] /\ s.skip \in SUBSET held
      /\ s.used \in Nat /\ s.out \in Seq(Tx)
  BY DEF LoopInv, LoopStates
<1>3. t \in Tx /\ t \in s.pool /\ t \notin s.skip /\ t.nonce = s.local[t.from]
  BY <1>2 DEF Ready
<1>4. t.from \in Accounts /\ t.size \in Nat /\ t.nonce \in Nat
  BY <1>3, TxFields
<1> DEFINE L == Len(s.out)
<1>5. /\ L \in Nat /\ DOMAIN s.out = 1 .. L /\ DOMAIN x.out = 1 .. L + 1 /\ Len(x.out) = L + 1
      /\ x.out[L + 1] = t /\ \A i \in 1 .. L : x.out[i] = s.out[i]
  BY <1>1, <1>2, <1>3
<1> HIDE DEF L
<1>6. x.used = Used(x.out) /\ x.used <= BlockCap
  BY <1>1, <1>2, <1>3, AppendFacts DEF LoopInv
<1>7. ASSUME NEW a \in Accounts PROVE x.local[a] = NextNonce(a, x.out, Len(x.out))
  <2>1. NextNonce(a, x.out, L + 1) = IF t.from = a THEN NextNonce(a, s.out, L) + 1
                                                   ELSE NextNonce(a, s.out, L)
    BY <1>1, <1>2, <1>3, AppendFacts, ZenonT(40) DEF L
  <2>2. s.local[a] = NextNonce(a, s.out, L)
    BY DEF LoopInv, L
  <2> QED
    BY <1>1, <1>2, <1>3, <1>5, <2>1, <2>2
<1>8. ASSUME NEW i \in DOMAIN x.out
      PROVE  x.out[i].nonce = NextNonce(x.out[i].from, x.out, i - 1)
  <2>1. \A a \in Accounts, k \in 0 .. L : NextNonce(a, x.out, k) = NextNonce(a, s.out, k)
    BY <1>1, <1>2, <1>3, AppendFacts DEF L
  <2>2. CASE i = L + 1
    <3>1. i - 1 = L /\ L \in 0 .. L
      BY <1>5, <2>2
    <3>2. t.nonce = NextNonce(t.from, s.out, L)
      BY <1>3, <1>4 DEF LoopInv, L
    <3> QED
      BY <1>4, <1>5, <2>1, <2>2, <3>1, <3>2
  <2>3. CASE i \in 1 .. L
    <3>1. i - 1 \in 0 .. L /\ x.out[i] = s.out[i] /\ s.out[i] \in Tx
      BY <1>2, <1>5, <2>3
    <3>2. s.out[i].nonce = NextNonce(s.out[i].from, s.out, i - 1)
      BY <1>5, <2>3 DEF LoopInv
    <3>3. s.out[i].from \in Accounts
      BY <3>1, TxFields
    <3> QED
      BY <2>1, <3>1, <3>2, <3>3
  <2> QED
    BY <1>5, <2>2, <2>3
<1>9. \A u \in x.skip : x.used + u.size > BlockCap
  <2> SUFFICES ASSUME NEW u \in s.skip PROVE s.used + t.size + u.size > BlockCap
    BY <1>1
  <2>1. u \in Tx /\ s.used + u.size > BlockCap
    BY <1>2 DEF LoopInv
  <2>2. u.size \in Nat
    BY <2>1, TxFields
  <2> QED
    BY <1>2, <1>4, <2>1, <2>2, PoolAssumption
<1>10. OrderedByFee(x.out)
  <2> SUFFICES ASSUME NEW j \in DOMAIN x.out, NEW i \in 1 .. j - 1
               PROVE  \/ Better(x.out[i], x.out[j])
                      \/ \E k \in i .. j - 1 : x.out[k].from = x.out[j].from
    BY DEF OrderedByFee
  <2>1. CASE j = L + 1
    <3>1. i \in 1 .. L /\ j - 1 = L
      BY <1>5, <2>1
    <3>2. Better(s.out[i], t) \/ \E k \in i .. L : s.out[k].from = t.from
      BY <1>5, <3>1 DEF LoopInv, Waits, L
    <3>3. \A k \in i .. L : x.out[k] = s.out[k]
      BY <1>5, <3>1
    <3> QED
      BY <1>5, <2>1, <3>1, <3>2, <3>3
  <2>2. CASE j \in 1 .. L
    <3>1. i \in 1 .. L /\ \A k \in i .. j - 1 : k \in 1 .. L
      BY <1>5, <2>2
    <3>2. \/ Better(s.out[i], s.out[j])
          \/ \E k \in i .. j - 1 : s.out[k].from = s.out[j].from
      BY <1>5, <2>2 DEF LoopInv, OrderedByFee
    <3> QED
      BY <1>5, <2>2, <3>1, <3>2
  <2> QED
    BY <1>5, <2>1, <2>2
<1>11. Waits(x)
  <2> SUFFICES ASSUME NEW i \in DOMAIN x.out, NEW u \in Ready(x)
               PROVE  \/ Better(x.out[i], u)
                      \/ \E k \in i .. Len(x.out) : x.out[k].from = u.from
    BY DEF Waits
  <2>1. CASE u.from = t.from
    <3>1. L + 1 \in i .. Len(x.out)
      BY <1>5
    <3> QED
      BY <1>5, <2>1, <3>1
  <2>2. CASE u.from # t.from
    <3>1. u \in Tx /\ u \in s.pool /\ u \notin s.skip /\ u.nonce = x.local[u.from]
      BY <1>1, <1>2 DEF Ready
    <3>2. u.from \in Accounts
      BY <3>1, TxFields
    <3>3. x.local[u.from] = s.local[u.from]
      BY <1>1, <1>2, <2>2, <3>2
    <3>4. u \in Ready(s)
      BY <3>1, <3>3 DEF Ready
    <3>5. CASE i = L + 1
      BY <1>5, <3>4, <3>5
    <3>6. CASE i \in 1 .. L
      <4>1. Better(s.out[i], u) \/ \E k \in i .. L : s.out[k].from = u.from
        BY <1>5, <3>4, <3>6 DEF LoopInv, Waits, L
      <4>2. \A k \in i .. L : x.out[k] = s.out[k] /\ k \in i .. Len(x.out)
        BY <1>5, <3>6
      <4> QED
        BY <1>5, <3>6, <4>1, <4>2
    <3> QED
      BY <1>5, <3>5, <3>6
  <2> QED
    BY <2>1, <2>2
<1>12. Cardinality(x.pool \ x.skip) + (n + 1) <= Cardinality(held)
  <2>1. t \in s.pool \ s.skip /\ x.pool \ x.skip = (s.pool \ s.skip) \ {t}
    BY <1>1, <1>3
  <2>2. IsFiniteSet(s.pool \ s.skip)
    BY <1>2, FS_Subset
  <2>3. Cardinality(x.pool \ x.skip) = Cardinality(s.pool \ s.skip) - 1
    BY <2>1, <2>2, RemoveOne
  <2>4. Cardinality(s.pool \ s.skip) \in Nat /\ Cardinality(held) \in Nat
    BY <2>2, FS_CardinalityType
  <2>5. Cardinality(s.pool \ s.skip) + n <= Cardinality(held)
    BY DEF LoopInv
  <2> QED
    BY <2>3, <2>4, <2>5
<1> QED
  BY <1>6, <1>7, <1>8, <1>9, <1>10, <1>11, <1>12 DEF LoopInv

LEMMA TurnKeeps ==
  ASSUME NEW held \in SUBSET Tx, IsFiniteSet(held), NEW n \in Nat, NEW s,
         LoopInv(held, s, n), account_nonce \in [Accounts -> Nat]
  PROVE  LoopInv(held, Take(s), n + 1)
<1>0. s \in LoopStates(held)
  BY DEF LoopInv
<1>1. CASE Ready(s) = {}
  <2>1. Take(s) = s
    BY <1>1 DEF Take
  <2> QED
    BY <1>1, <2>1 DEF LoopInv
<1>2. CASE Ready(s) # {}
  <2>1. Take(s) \in LoopStates(held)
    BY <1>0, TurnType
  <2>2. PICK t \in Ready(s) :
           /\ \A u \in Ready(s) : Better(t, u)
           /\ \/ /\ s.used + t.size > BlockCap
                 /\ Take(s) = [pool |-> s.pool, local |-> s.local, skip |-> s.skip \cup {t},
                               used |-> s.used, out |-> s.out]
              \/ /\ s.used + t.size <= BlockCap
                 /\ Take(s) = [pool |-> s.pool \ {t},
                               local |-> [s.local EXCEPT ![t.from] = t.nonce + 1],
                               skip |-> s.skip, used |-> s.used + t.size,
                               out |-> Append(s.out, t)]
    BY <1>0, <1>2, TurnFacts
  <2> DEFINE x == Take(s)
  <2> HIDE DEF x
  <2>3. CASE /\ s.used + t.size > BlockCap
             /\ x = [pool |-> s.pool, local |-> s.local, skip |-> s.skip \cup {t},
                     used |-> s.used, out |-> s.out]
    <3>1. x \in LoopStates(held)
      BY <2>1 DEF x
    <3>2. LoopInv(held, x, n + 1)
      BY <2>3, <3>1, SkipKeeps
    <3> QED
      BY <3>2 DEF x
  <2>4. CASE /\ s.used + t.size <= BlockCap
             /\ x = [pool |-> s.pool \ {t},
                     local |-> [s.local EXCEPT ![t.from] = t.nonce + 1],
                     skip |-> s.skip, used |-> s.used + t.size,
                     out |-> Append(s.out, t)]
    <3>1. x \in LoopStates(held)
      BY <2>1 DEF x
    <3>2. LoopInv(held, x, n + 1)
      BY <2>2, <2>4, <3>1, TakeKeeps
    <3> QED
      BY <3>2 DEF x
  <2> QED
    BY <2>2, <2>3, <2>4 DEF x
<1> QED
  BY <1>1, <1>2

Start(held) ==
    [pool |-> held, local |-> account_nonce, skip |-> {}, used |-> 0, out |-> <<>>]

Loops(f, held, n) == f = [k \in 0 .. n |-> IF k = 0 THEN Start(held) ELSE Take(f[k - 1])]

\* take_ready as the value of a function that follows the recursion.
LEMMA TakeReadyIs ==
  ASSUME NEW held
  PROVE  take_ready(held) =
           (CHOOSE f : Loops(f, held, Cardinality(held)))[Cardinality(held)]
  BY DEF take_ready, Loops, Start

LEMMA StartInv ==
  ASSUME NEW held \in SUBSET Tx, IsFiniteSet(held), account_nonce \in [Accounts -> Nat]
  PROVE  LoopInv(held, Start(held), 0)
<1> DEFINE s == Start(held)
<1>1. /\ s.pool = held /\ s.local = account_nonce /\ s.skip = {} /\ s.used = 0 /\ s.out = <<>>
      /\ s \in LoopStates(held)
  BY DEF Start, LoopStates
<1>2. DOMAIN s.out = {} /\ Len(s.out) = 0
  BY <1>1
<1>3. Used(s.out) = 0
  BY <1>2, SumEmpty DEF Used
<1>4. ASSUME NEW a \in Accounts PROVE s.local[a] = NextNonce(a, s.out, Len(s.out))
  <2>1. {i \in 1 .. 0 : s.out[i].from = a} = {}
    OBVIOUS
  <2>2. account_nonce[a] \in Nat
    OBVIOUS
  <2>3. NextNonce(a, s.out, 0) = account_nonce[a] + Cardinality({})
    BY <2>1 DEF NextNonce
  <2> QED
    BY <1>1, <1>2, <2>2, <2>3, FS_EmptySet
<1>5. Cardinality(s.pool \ s.skip) + 0 <= Cardinality(held)
  <2>1. s.pool \ s.skip = held
    BY <1>1
  <2>2. Cardinality(held) \in Nat
    BY FS_CardinalityType
  <2> HIDE DEF s
  <2> QED
    BY <2>1, <2>2
<1>6. OrderedByFee(s.out) /\ Waits(s)
  BY <1>2 DEF OrderedByFee, Waits
<1>7. s.used <= BlockCap
  BY <1>1, PoolAssumption
<1> HIDE DEF s
<1>8. LoopInv(held, s, 0)
  BY <1>1, <1>2, <1>3, <1>4, <1>5, <1>6, <1>7 DEF LoopInv
<1> QED
  BY <1>8 DEF s

LEMMA LoopExists ==
  ASSUME NEW held \in SUBSET Tx, IsFiniteSet(held), account_nonce \in [Accounts -> Nat],
         NEW n \in Nat
  PROVE  \E f : Loops(f, held, n)
<1> DEFINE States == LoopStates(held)
<1> DEFINE step == [p \in (1 .. n) \X States |-> Take(p[2])]
<1>1. PICK f : Recurses(f, Start(held), step, n)
  BY Recursion
<1>2. \A i \in 1 .. n, s \in States : step[<<i, s>>] = Take(s) /\ Take(s) \in States
  BY TurnType
<1>3. f = [k \in 0 .. n |-> IF k = 0 THEN Start(held) ELSE step[<<k, f[k - 1]>>]]
  BY <1>1 DEF Recurses
<1> HIDE DEF step, States
<1> DEFINE P == {k \in Nat : k \in 0 .. n => f[k] \in States}
<1>4. 0 \in P
  <2>1. Start(held) \in States
    BY StartInv DEF LoopInv, States
  <2> QED
    BY <1>3, <2>1
<1>5. ASSUME NEW k \in Nat, k \in P PROVE k + 1 \in P
  <2> SUFFICES ASSUME k + 1 \in 0 .. n PROVE f[k + 1] \in States
    OBVIOUS
  <2>1. k \in 0 .. n /\ k + 1 \in 1 .. n /\ k + 1 # 0 /\ (k + 1) - 1 = k
    OBVIOUS
  <2>2. f[k + 1] = step[<<k + 1, f[k]>>]
    BY <1>3, <2>1
  <2> QED
    BY <1>2, <1>5, <2>1, <2>2
<1> HIDE DEF P
<1>6. \A k \in Nat : k \in P
  BY <1>4, <1>5, NumberInduction
<1>7. \A k \in 0 .. n : k # 0 => step[<<k, f[k - 1]>>] = Take(f[k - 1])
  <2> SUFFICES ASSUME NEW k \in 0 .. n, k # 0 PROVE step[<<k, f[k - 1]>>] = Take(f[k - 1])
    OBVIOUS
  <2>1. k \in 1 .. n /\ k - 1 \in Nat /\ k - 1 \in 0 .. n
    OBVIOUS
  <2>2. f[k - 1] \in States
    BY <1>6, <2>1 DEF P
  <2> QED
    BY <1>2, <2>1, <2>2
<1>8. f = [k \in 0 .. n |-> IF k = 0 THEN Start(held) ELSE Take(f[k - 1])]
  BY <1>3, <1>7
<1> QED
  BY <1>8 DEF Loops

\* When the loop ends nothing is ready that was not skipped.
LEMMA TakeReadyFacts ==
  ASSUME NEW held \in SUBSET Tx, IsFiniteSet(held), account_nonce \in [Accounts -> Nat]
  PROVE  /\ LoopInv(held, take_ready(held), Cardinality(held))
         /\ Ready(take_ready(held)) = {}
<1> DEFINE N == Cardinality(held)
<1> DEFINE f == CHOOSE g : Loops(g, held, N)
<1>0. N \in Nat
  BY FS_CardinalityType
<1>1. take_ready(held) = f[N]
  BY TakeReadyIs
<1>2. Loops(f, held, N)
  BY <1>0, LoopExists
<1> HIDE DEF f, N
<1>3. f[0] = Start(held) /\ \A k \in 1 .. N : f[k] = Take(f[k - 1])
  BY <1>0, <1>2 DEF Loops
<1> DEFINE P == {n \in Nat : n \in 0 .. N => LoopInv(held, f[n], n)}
<1>4. 0 \in P
  BY <1>3, StartInv
<1>5. ASSUME NEW n \in Nat, n \in P PROVE n + 1 \in P
  <2> SUFFICES ASSUME n + 1 \in 0 .. N PROVE LoopInv(held, f[n + 1], n + 1)
    OBVIOUS
  <2>1. n \in 0 .. N /\ n + 1 \in 1 .. N /\ (n + 1) - 1 = n
    BY <1>0
  <2>2. f[n + 1] = Take(f[n])
    BY <1>3, <2>1
  <2> QED
    BY <1>5, <2>1, <2>2, TurnKeeps
<1> HIDE DEF P
<1>6. \A n \in Nat : n \in P
  BY <1>4, <1>5, NumberInduction
<1>7. LoopInv(held, f[N], N)
  BY <1>0, <1>6 DEF P
<1> DEFINE s == f[N]
<1>8. Ready(s) = {}
  <2> SUFFICES ASSUME Ready(s) # {} PROVE FALSE
    OBVIOUS
  <2>1. Cardinality(s.pool \ s.skip) + N <= N
    BY <1>7 DEF LoopInv, N
  <2>2. IsFiniteSet(s.pool \ s.skip)
    BY <1>7, FS_Subset DEF LoopInv, LoopStates
  <2>3. Cardinality(s.pool \ s.skip) = 0
    BY <1>0, <2>1, <2>2, FS_CardinalityType
  <2>4. s.pool \ s.skip = {}
    BY <2>2, <2>3, FS_EmptySet
  <2> QED
    BY <2>4 DEF Ready
<1> QED
  BY <1>1, <1>7, <1>8 DEF N

----------------------------------------------------------------------------
(* The invariant.                                                          *)

PoolInv == PoolTypeOK /\ IsFiniteSet(queued) /\ WithinCount

LEMMA NonceType == PoolTypeOK => account_nonce \in [Accounts -> Nat]
<1>1. \A n \in 0 .. MaxNonce + 1 : n \in Nat
  BY PoolAssumption
<1> QED
  BY <1>1 DEF PoolTypeOK

LEMMA PoolInit == Init => PoolInv
<1> SUFFICES ASSUME Init PROVE PoolInv
  OBVIOUS
<1>1. 0 \in 0 .. MaxNonce + 1 /\ MaxTxs \in Nat
  BY PoolAssumption
<1>2. IsFiniteSet({}) /\ Cardinality({}) = 0
  BY FS_EmptySet
<1>3. gossip \in BOOLEAN
  BY PoolAssumption DEF Init
<1>4. queued = {} /\ block = None
  BY DEF Init
<1>5. account_nonce \in [Accounts -> 0 .. MaxNonce + 1] /\ chain \in [Accounts -> 0 .. MaxNonce + 1]
  BY <1>1 DEF Init
<1>6. \A a \in Accounts : account_nonce[a] <= chain[a]
  BY DEF Init
<1> QED
  BY <1>1, <1>2, <1>3, <1>4, <1>5, <1>6 DEF PoolInv, PoolTypeOK, WithinCount

LEMMA InsertStep ==
  ASSUME PoolInv, NEW tx \in Tx, insert(tx)
  PROVE  PoolInv'
<1>1. /\ queued \subseteq Tx /\ IsFiniteSet(queued)
      /\ \A t, u \in queued : SameSlot(t, u) => t = u
  BY DEF PoolInv, PoolTypeOK
<1>2. queued' = Inserted(queued, tx) /\ ~gossip /\ gossip' = gossip
  BY DEF insert
<1>3. Cardinality(queued) <= MaxTxs
  BY <1>2 DEF PoolInv, WithinCount
<1>4. /\ queued' \subseteq Tx /\ IsFiniteSet(queued')
      /\ \A t, u \in queued' : SameSlot(t, u) => t = u
      /\ Cardinality(queued') <= MaxTxs
  BY <1>1, <1>2, <1>3, InsertedFacts
<1>5. tx.from \in Accounts
  BY TxFields
<1>6. /\ account_nonce' = [account_nonce EXCEPT ![tx.from] = chain[tx.from]]
      /\ chain' = chain /\ block' = block
  BY DEF insert
<1>7. /\ account_nonce \in [Accounts -> 0 .. MaxNonce + 1]
      /\ chain \in [Accounts -> 0 .. MaxNonce + 1] /\ gossip \in BOOLEAN
      /\ block \in Seq(Tx) \cup {None} /\ \A a \in Accounts : account_nonce[a] <= chain[a]
  BY DEF PoolInv, PoolTypeOK
<1>8. chain[tx.from] <= chain[tx.from]
  BY <1>5, <1>7, PoolAssumption, SMTT(40)
<1>9. /\ account_nonce' \in [Accounts -> 0 .. MaxNonce + 1]
      /\ \A a \in Accounts : account_nonce'[a] <= chain'[a]
  BY <1>5, <1>6, <1>7, <1>8
<1> QED
  BY <1>2, <1>4, <1>6, <1>7, <1>9 DEF PoolInv, PoolTypeOK, WithinCount, SameSlot

LEMMA GossipStep ==
  ASSUME PoolInv, NEW tx \in Tx, wire_mempool(tx)
  PROVE  PoolInv'
<1> DEFINE kept == {t \in queued : ~SameSlot(t, tx)}
<1>1. /\ queued' = kept \cup {tx} /\ gossip' = gossip /\ gossip
      /\ UNCHANGED <<account_nonce, chain, block>>
  BY DEF wire_mempool
<1>2. queued \subseteq Tx /\ IsFiniteSet(kept)
  BY FS_Subset DEF PoolInv, PoolTypeOK
<1>3. ASSUME NEW x \in queued', NEW y \in queued', SameSlot(x, y) PROVE x = y
  <2>1. SameSlot(y, x)
    BY <1>3 DEF SameSlot
  <2> QED
    BY <1>1, <1>3, <2>1 DEF PoolInv, PoolTypeOK
<1>4. queued' \subseteq Tx
  BY <1>1, <1>2
<1>5. IsFiniteSet(queued')
  <2> HIDE DEF kept
  <2> QED
    BY <1>1, <1>2, FS_AddElement
<1> HIDE DEF kept
<1> QED
  BY <1>1, <1>3, <1>4, <1>5 DEF PoolInv, PoolTypeOK, WithinCount, SameSlot

LEMMA BuildStep == PoolInv /\ build_local => PoolInv'
<1> SUFFICES ASSUME PoolInv, build_local PROVE PoolInv'
  OBVIOUS
<1> DEFINE r == take_ready(queued)
<1>1. /\ queued' = r.pool /\ block' = r.out
      /\ UNCHANGED <<account_nonce, chain, gossip>>
  BY DEF build_local
<1>2. queued \in SUBSET Tx /\ IsFiniteSet(queued) /\ account_nonce \in [Accounts -> Nat]
  BY NonceType DEF PoolInv, PoolTypeOK
<1>3. r \in LoopStates(queued)
  BY <1>2, TakeReadyFacts DEF LoopInv
<1> HIDE DEF r
<1>4. queued' \subseteq queued /\ block' \in Seq(Tx)
  BY <1>1, <1>3 DEF LoopStates
<1>5. IsFiniteSet(queued') /\ Cardinality(queued') <= Cardinality(queued)
  BY <1>2, <1>4, FS_Subset
<1>6. Cardinality(queued) \in Nat /\ Cardinality(queued') \in Nat /\ MaxTxs \in Nat
  BY <1>2, <1>5, FS_CardinalityType, PoolAssumption
<1>7. WithinCount'
  BY <1>1, <1>5, <1>6 DEF PoolInv, WithinCount
<1>8. PoolTypeOK'
  BY <1>1, <1>4 DEF PoolInv, PoolTypeOK, SameSlot
<1> QED
  BY <1>5, <1>7, <1>8 DEF PoolInv

LEMMA PoolNext == PoolInv /\ [Next]_vars => PoolInv'
<1> SUFFICES ASSUME PoolInv, [Next]_vars PROVE PoolInv'
  OBVIOUS
<1>1. CASE UNCHANGED vars
  BY <1>1 DEF vars, PoolInv, PoolTypeOK, WithinCount, SameSlot
<1>2. CASE apply_block
  <2>1. PICK upto \in [Accounts -> 0 .. MaxNonce + 1] :
          (\A a \in Accounts : upto[a] >= chain[a]) /\ chain' = upto
    BY <1>2 DEF apply_block
  <2>2. \A n \in 0 .. MaxNonce + 1 : n \in Int
    OBVIOUS
  <2>3. \A a \in Accounts : account_nonce[a] <= chain'[a]
    <3> SUFFICES ASSUME NEW a \in Accounts PROVE account_nonce[a] <= chain'[a]
      OBVIOUS
    <3>1. account_nonce[a] \in Int /\ chain[a] \in Int /\ upto[a] \in Int
      BY <2>2 DEF PoolInv, PoolTypeOK
    <3>2. account_nonce[a] <= chain[a] /\ upto[a] >= chain[a]
      BY <2>1 DEF PoolInv, PoolTypeOK
    <3> QED
      BY <2>1, <3>1, <3>2
  <2>4. block' = None /\ UNCHANGED <<queued, account_nonce, gossip>>
    BY <1>2 DEF apply_block
  <2> QED
    BY <2>1, <2>3, <2>4 DEF PoolInv, PoolTypeOK, WithinCount, SameSlot
<1>3. CASE Abandon
  BY <1>3 DEF Abandon, PoolInv, PoolTypeOK, WithinCount, SameSlot
<1>4. ASSUME NEW a \in Accounts, OtherBlock(a) PROVE PoolInv'
  <2>1. /\ chain[a] <= MaxNonce /\ chain' = [chain EXCEPT ![a] = chain[a] + 1]
        /\ UNCHANGED <<queued, account_nonce, block, gossip>>
    BY <1>4 DEF OtherBlock
  <2>2. chain[a] + 1 \in 0 .. MaxNonce + 1
    BY <2>1, PoolAssumption DEF PoolInv, PoolTypeOK
  <2>3. chain' \in [Accounts -> 0 .. MaxNonce + 1]
    BY <2>1, <2>2 DEF PoolInv, PoolTypeOK
  <2>4. ASSUME NEW b \in Accounts PROVE account_nonce[b] <= chain'[b]
    <3>1. account_nonce[b] \in 0 .. MaxNonce + 1 /\ chain[b] \in 0 .. MaxNonce + 1
      BY DEF PoolInv, PoolTypeOK
    <3>2. account_nonce[b] <= chain[b]
      BY DEF PoolInv, PoolTypeOK
    <3>3. chain'[b] = chain[b] \/ chain'[b] = chain[b] + 1
      BY <2>1 DEF PoolInv, PoolTypeOK
    <3> QED
      BY <3>1, <3>2, <3>3
  <2> QED
    BY <2>1, <2>3, <2>4 DEF PoolInv, PoolTypeOK, WithinCount, SameSlot
<1> QED
  BY <1>1, <1>2, <1>3, <1>4, InsertStep, GossipStep, BuildStep DEF Next

\* Every reachable pool satisfies the invariant.
THEOREM PoolInvariant == Spec => []PoolInv
  BY PoolInit, PoolNext, PTL DEF Spec

\* A pool fed by insert stays within its count.
THEOREM CountKept == Spec => []WithinCount
<1>1. PoolInv => WithinCount
  BY DEF PoolInv
<1> QED
  BY <1>1, PoolInvariant, PTL

----------------------------------------------------------------------------
(* Evictions and blocks.                                                   *)

\* Whatever leaves the pool was taken, is stale, gave way in its slot, or was evicted
\* and nothing cheaper stays.
THEOREM LowestEvicted == Spec => EvictsLowest
<1>1. ASSUME PoolInv, [Next]_vars, ~gossip, NEW t \in queued \ queued'
      PROVE  \/ block' # block
             \/ t.nonce < chain[t.from]
             \/ \E u \in queued' : SameSlot(t, u) /\ rbf_allowed(t, u)
             \/ \A u \in queued \cap queued' : u.prio >= t.prio
  <2>1. queued' # queued
    BY <1>1
  <2>2. build_local \/ \E tx \in Tx : insert(tx)
    BY <1>1, <2>1 DEF Next, vars, wire_mempool, apply_block, Abandon, OtherBlock
  <2>3. CASE build_local
    <3>1. queued \in SUBSET Tx /\ IsFiniteSet(queued) /\ account_nonce \in [Accounts -> Nat]
      BY <1>1, NonceType DEF PoolInv, PoolTypeOK
    <3>2. block = None /\ block' = take_ready(queued).out
      BY <2>3 DEF build_local
    <3>3. take_ready(queued) \in LoopStates(queued)
      BY <3>1, TakeReadyFacts DEF LoopInv
    <3>4. block' \in Seq(Tx)
      BY <3>2, <3>3 DEF LoopStates
    <3> QED
      BY <3>2, <3>4, NoneAssumption
  <2>4. ASSUME NEW tx \in Tx, insert(tx)
        PROVE  \/ t.nonce < chain[t.from]
               \/ \E u \in queued' : SameSlot(t, u) /\ rbf_allowed(t, u)
               \/ \A u \in queued \cap queued' : u.prio >= t.prio
    <3> DEFINE seen == Observed(queued, tx.from)
    <3> DEFINE old == {u \in seen : SameSlot(u, tx)}
    <3> DEFINE room == ensure_room(seen, tx)
    <3>1. queued' = Inserted(queued, tx)
      BY <2>4 DEF insert
    <3>2. queued \in SUBSET Tx /\ IsFiniteSet(queued) /\ seen \subseteq queued
      BY <1>1 DEF PoolInv, PoolTypeOK, Observed
    <3>3. seen \in SUBSET Tx /\ IsFiniteSet(seen)
      BY <3>2, FS_Subset
    <3>4. CASE t \notin seen
      <4>1. t.from = tx.from /\ ~(t.nonce >= chain[t.from])
        BY <3>4 DEF Observed
      <4>2. t \in Tx /\ tx.from \in Accounts
        BY <3>2, TxFields
      <4>3. t.nonce \in Nat /\ chain[t.from] \in 0 .. MaxNonce + 1
        BY <1>1, <4>1, <4>2, TxFields DEF PoolInv, PoolTypeOK
      <4> QED
        BY <4>1, <4>3
    <3>5. CASE t \in seen /\ old # {}
      <4>1. CASE \A u \in old : rbf_allowed(u, tx)
        <5>1. queued' = (seen \ old) \cup {tx}
          BY <3>1, <3>5, <4>1 DEF Inserted
        <5>2. t \in old
          BY <1>1, <3>5, <5>1
        <5> QED
          BY <4>1, <5>1, <5>2
      <4>2. CASE ~(\A u \in old : rbf_allowed(u, tx))
        <5>1. queued' = seen
          BY <3>1, <3>5, <4>2 DEF Inserted
        <5> QED
          BY <1>1, <3>5, <5>1
      <4> QED
        BY <4>1, <4>2
    <3>6. CASE t \in seen /\ old = {}
      <4>1. room \subseteq queued' /\ queued' \subseteq room \cup {tx}
        BY <3>1, <3>6 DEF Inserted
      <4>2. t \notin room
        BY <1>1, <4>1
      <4>3. \A u \in room : u.prio >= t.prio
        BY <3>3, <3>6, <4>2, RoomFacts
      <4>4. CASE tx \notin queued
        BY <4>1, <4>3, <4>4
      <4>5. CASE tx \in queued
        <5>1. tx \in seen
          BY <2>4, <4>5 DEF insert, Observed
        <5>2. tx \in old
          BY <5>1 DEF SameSlot
        <5> QED
          BY <3>6, <5>2
      <4> QED
        BY <4>4, <4>5
    <3> QED
      BY <3>4, <3>5, <3>6
  <2> QED
    BY <2>2, <2>3, <2>4
<1>2. PoolInv /\ [Next]_vars =>
        [~gossip =>
           \A t \in queued \ queued' :
             \/ block' # block
             \/ t.nonce < chain[t.from]
             \/ \E u \in queued' : SameSlot(t, u) /\ rbf_allowed(t, u)
             \/ \A u \in queued \cap queued' : u.prio >= t.prio]_vars
  BY <1>1
<1> QED
  BY <1>2, PoolInvariant, PTL DEF Spec, EvictsLowest

\* The step that makes a block is build_local, with what the loop gives.
LEMMA BuiltBlock ==
  ASSUME PoolInv, [Next]_vars, block = None, block' # None
  PROVE  \E r : /\ LoopInv(queued, r, Cardinality(queued)) /\ Ready(r) = {}
                /\ queued' = r.pool /\ block' = r.out
<1>1. build_local
  BY DEF Next, vars, insert, wire_mempool, apply_block, Abandon, OtherBlock
<1>2. queued \in SUBSET Tx /\ IsFiniteSet(queued) /\ account_nonce \in [Accounts -> Nat]
  BY NonceType DEF PoolInv, PoolTypeOK
<1>3. /\ LoopInv(queued, take_ready(queued), Cardinality(queued))
      /\ Ready(take_ready(queued)) = {}
  BY <1>2, TakeReadyFacts
<1>4. queued' = take_ready(queued).pool /\ block' = take_ready(queued).out
  BY <1>1 DEF build_local
<1> QED
  BY <1>3, <1>4

\* A new block fits, is in nonce order without gaps, and leaves nothing behind that
\* is next and would fit.
THEOREM BlocksAreFull == Spec => BuildsFullBlocks
<1>1. ASSUME PoolInv, [Next]_vars, block = None, block' # None
      PROVE  /\ Used(block') <= BlockCap
             /\ \A i \in DOMAIN block' :
                    block'[i].nonce = NextNonce(block'[i].from, block', i - 1)
             /\ \A t \in queued' :
                    t.nonce = NextNonce(t.from, block', Len(block'))
                        => Used(block') + t.size > BlockCap
  <2>1. PICK r : /\ LoopInv(queued, r, Cardinality(queued)) /\ Ready(r) = {}
                 /\ queued' = r.pool /\ block' = r.out
    BY <1>1, BuiltBlock
  <2>2. /\ r.used = Used(block') /\ r.used <= BlockCap
        /\ \A i \in DOMAIN block' : block'[i].nonce = NextNonce(block'[i].from, block', i - 1)
        /\ \A a \in Accounts : r.local[a] = NextNonce(a, block', Len(block'))
    BY <2>1 DEF LoopInv
  <2>3. ASSUME NEW t \in r.pool, t.nonce = NextNonce(t.from, block', Len(block'))
        PROVE  r.used + t.size > BlockCap
    <3>1. t \in Tx
      BY <1>1, <2>1 DEF LoopInv, LoopStates, PoolInv, PoolTypeOK
    <3>2. t.from \in Accounts
      BY <3>1, TxFields
    <3>3. t.nonce = r.local[t.from]
      BY <2>2, <2>3, <3>2
    <3>4. t \in r.skip
      BY <2>1, <3>3 DEF Ready
    <3> QED
      BY <2>1, <3>4 DEF LoopInv
  <2> QED
    BY <2>1, <2>2, <2>3
<1>2. PoolInv /\ [Next]_vars =>
        [block = None /\ block' # None =>
          /\ Used(block') <= BlockCap
          /\ \A i \in DOMAIN block' :
                 block'[i].nonce = NextNonce(block'[i].from, block', i - 1)
          /\ \A t \in queued' :
                 t.nonce = NextNonce(t.from, block', Len(block'))
                     => Used(block') + t.size > BlockCap]_vars
  BY <1>1
<1> QED
  BY <1>2, PoolInvariant, PTL DEF Spec, BuildsFullBlocks

\* A new block is ordered by fee, as far as the senders' nonces allow.
THEOREM BlocksByFee == Spec => BuildsByFee
<1>1. ASSUME PoolInv, [Next]_vars, block = None, block' # None
      PROVE  \A j \in DOMAIN block' : \A i \in 1 .. j - 1 :
                \/ block'[i].prio > block'[j].prio
                \/ block'[i].prio = block'[j].prio /\ block'[i].from <= block'[j].from
                \/ \E k \in i .. j - 1 : block'[k].from = block'[j].from
  <2>1. OrderedByFee(block')
    BY <1>1, BuiltBlock DEF LoopInv
  <2> QED
    BY <2>1 DEF OrderedByFee, Better
<1>2. PoolInv /\ [Next]_vars =>
        [block = None /\ block' # None =>
          \A j \in DOMAIN block' : \A i \in 1 .. j - 1 :
            \/ block'[i].prio > block'[j].prio
            \/ block'[i].prio = block'[j].prio /\ block'[i].from <= block'[j].from
            \/ \E k \in i .. j - 1 : block'[k].from = block'[j].from]_vars
  BY <1>1
<1> QED
  BY <1>2, PoolInvariant, PTL DEF Spec, BuildsByFee

----------------------------------------------------------------------------
(* Peer slots.                                                             *)

\* The peers with a prefix.
Holders(t, p) == {k \in DOMAIN t.peers : t.peers[k] = p}

\* SlotsAccounted of a table.
Accounted(t) ==
    /\ DOMAIN t.peers \subseteq PeerIds
    /\ \A p \in DOMAIN t.by_prefix :
          /\ t.by_prefix[p] = Cardinality(Holders(t, p))
          /\ t.by_prefix[p] \in 1 .. max_per_prefix
    /\ \A k \in DOMAIN t.peers : t.peers[k] \in DOMAIN t.by_prefix
    /\ Cardinality(DOMAIN t.peers) <= max_slots

LEMMA HoldersFinite ==
  ASSUME NEW t, Accounted(t), NEW p
  PROVE  /\ IsFiniteSet(Holders(t, p)) /\ Cardinality(Holders(t, p)) \in Nat
         /\ IsFiniteSet(DOMAIN t.peers) /\ Cardinality(DOMAIN t.peers) \in Nat
<1>1. IsFiniteSet(DOMAIN t.peers)
  BY PeersAssumption, FS_Subset DEF Accounted
<1>2. IsFiniteSet(Holders(t, p))
  BY <1>1, FS_Subset DEF Holders
<1> QED
  BY <1>1, <1>2, FS_CardinalityType

\* admit counts a peer once, under the prefix it came with first.
LEMMA AdmitKeeps ==
  ASSUME NEW t, Accounted(t), NEW peer \in PeerIds, NEW ip
  PROVE  Accounted(admit(t, peer, ip))
<1> DEFINE p == prefix_of(ip)
<1> DEFINE n == count_prefix(t.by_prefix, p)
<1>1. CASE peer \in DOMAIN t.peers \/ Cardinality(DOMAIN t.peers) >= max_slots \/ n >= max_per_prefix
  <2>1. admit(t, peer, ip) = t
    BY <1>1 DEF admit
  <2> QED
    BY <2>1
<1>2. CASE ~(peer \in DOMAIN t.peers \/ Cardinality(DOMAIN t.peers) >= max_slots \/ n >= max_per_prefix)
  <2> DEFINE x == [peers |-> Put(t.peers, peer, p), by_prefix |-> Put(t.by_prefix, p, n + 1)]
  <2>1. admit(t, peer, ip) = x
    BY <1>2 DEF admit
  <2>2. x.peers = Put(t.peers, peer, p) /\ x.by_prefix = Put(t.by_prefix, p, n + 1)
    OBVIOUS
  <2>3. n = Cardinality(Holders(t, p)) /\ n \in Nat
    <3>1. CASE p \in DOMAIN t.by_prefix
      BY <3>1, HoldersFinite DEF count_prefix, CountOf, Accounted
    <3>2. CASE p \notin DOMAIN t.by_prefix
      <4>1. Holders(t, p) = {}
        BY <3>2 DEF Accounted, Holders
      <4> QED
        BY <3>2, <4>1, FS_EmptySet DEF count_prefix, CountOf
    <3> QED
      BY <3>1, <3>2
  <2> HIDE DEF x, n, p
  <2>4. /\ DOMAIN x.peers = DOMAIN t.peers \cup {peer} /\ x.peers[peer] = p
        /\ \A k \in DOMAIN t.peers : x.peers[k] = t.peers[k]
    BY <1>2, <2>2 DEF Put
  <2>5. /\ DOMAIN x.by_prefix = DOMAIN t.by_prefix \cup {p} /\ x.by_prefix[p] = n + 1
        /\ \A q \in DOMAIN t.by_prefix : q # p => x.by_prefix[q] = t.by_prefix[q]
    BY <2>2 DEF Put
  <2>6. Holders(x, p) = Holders(t, p) \cup {peer} /\ peer \notin Holders(t, p)
    BY <1>2, <2>4 DEF Holders
  <2>7. \A q : q # p => Holders(x, q) = Holders(t, q)
    BY <1>2, <2>4 DEF Holders
  <2>8. Cardinality(Holders(x, p)) = n + 1
    BY <2>3, <2>6, HoldersFinite, FS_AddElement
  <2>9. n + 1 \in 1 .. max_per_prefix
    BY <1>2, <2>3, PeersAssumption
  <2>10. Cardinality(DOMAIN x.peers) = Cardinality(DOMAIN t.peers) + 1
    BY <1>2, <2>4, HoldersFinite, FS_AddElement
  <2>11. Cardinality(DOMAIN x.peers) <= max_slots
    BY <1>2, <2>10, HoldersFinite, PeersAssumption
  <2>12. ASSUME NEW q \in DOMAIN x.by_prefix
         PROVE  x.by_prefix[q] = Cardinality(Holders(x, q)) /\ x.by_prefix[q] \in 1 .. max_per_prefix
    <3>1. CASE q = p
      BY <2>5, <2>8, <2>9, <3>1
    <3>2. CASE q # p
      BY <2>5, <2>7, <3>2 DEF Accounted
    <3> QED
      BY <3>1, <3>2
  <2>13. \A k \in DOMAIN x.peers : x.peers[k] \in DOMAIN x.by_prefix
    BY <2>4, <2>5 DEF Accounted
  <2>14. DOMAIN x.peers \subseteq PeerIds
    BY <2>4 DEF Accounted
  <2> QED
    BY <2>1, <2>11, <2>12, <2>13, <2>14 DEF Accounted
<1> QED
  BY <1>1, <1>2

\* remove gives the slot of the recorded prefix back.
LEMMA RemoveKeeps ==
  ASSUME NEW t, Accounted(t), NEW peer
  PROVE  Accounted(remove(t, peer))
<1>1. CASE peer \notin DOMAIN t.peers
  BY <1>1 DEF remove
<1>2. CASE peer \in DOMAIN t.peers
  <2> DEFINE p == t.peers[peer]
  <2> DEFINE n == count_prefix(t.by_prefix, p)
  <2> DEFINE counts == IF n <= 1 THEN Without(t.by_prefix, p) ELSE Put(t.by_prefix, p, n - 1)
  <2> DEFINE x == [peers |-> Without(t.peers, peer), by_prefix |-> counts]
  <2>1. remove(t, peer) = x
    BY <1>2 DEF remove
  <2>2. x.peers = Without(t.peers, peer) /\ x.by_prefix = counts
    OBVIOUS
  <2>3. p \in DOMAIN t.by_prefix /\ n = t.by_prefix[p]
    BY <1>2 DEF Accounted, count_prefix, CountOf
  <2>4. n = Cardinality(Holders(t, p)) /\ n \in 1 .. max_per_prefix /\ n \in Nat
    BY <2>3, PeersAssumption DEF Accounted
  <2> HIDE DEF x, n
  <2>5. /\ DOMAIN x.peers = DOMAIN t.peers \ {peer}
        /\ \A k \in DOMAIN x.peers : x.peers[k] = t.peers[k]
    BY <2>2 DEF Without
  <2>6. Holders(x, p) = Holders(t, p) \ {peer} /\ peer \in Holders(t, p)
    BY <1>2, <2>5 DEF Holders
  <2>7. \A q : q # p => Holders(x, q) = Holders(t, q)
    BY <2>5 DEF Holders
  <2> HIDE DEF p
  <2>8. Cardinality(Holders(x, p)) = n - 1 /\ IsFiniteSet(Holders(x, p))
    BY <2>4, <2>6, HoldersFinite, FS_RemoveElement
  <2>9. Cardinality(DOMAIN x.peers) <= max_slots
    <3>1. Cardinality(DOMAIN x.peers) = Cardinality(DOMAIN t.peers) - 1
      BY <1>2, <2>5, HoldersFinite, FS_RemoveElement
    <3>2. Cardinality(DOMAIN t.peers) <= max_slots
      BY DEF Accounted
    <3> QED
      BY <3>1, <3>2, HoldersFinite, PeersAssumption
  <2>10. DOMAIN x.peers \subseteq PeerIds
    BY <2>5 DEF Accounted
  <2>11. CASE n <= 1
    <3>1. /\ DOMAIN x.by_prefix = DOMAIN t.by_prefix \ {p}
          /\ \A q \in DOMAIN x.by_prefix : x.by_prefix[q] = t.by_prefix[q]
      BY <2>2, <2>11 DEF Without
    <3>2. Cardinality(Holders(x, p)) = 0
      BY <2>4, <2>8, <2>11
    <3>3. Holders(x, p) = {}
      BY <2>8, <3>2, FS_EmptySet
    <3>4. ASSUME NEW k \in DOMAIN x.peers PROVE x.peers[k] \in DOMAIN x.by_prefix
      <4>1. x.peers[k] # p
        BY <3>3 DEF Holders
      <4> QED
        BY <2>5, <3>1, <4>1 DEF Accounted
    <3>5. ASSUME NEW q \in DOMAIN x.by_prefix
          PROVE  x.by_prefix[q] = Cardinality(Holders(x, q)) /\ x.by_prefix[q] \in 1 .. max_per_prefix
      BY <2>7, <3>1 DEF Accounted
    <3> QED
      BY <2>1, <2>9, <2>10, <3>4, <3>5 DEF Accounted
  <2>12. CASE ~(n <= 1)
    <3>1. /\ DOMAIN x.by_prefix = DOMAIN t.by_prefix /\ x.by_prefix[p] = n - 1
          /\ \A q \in DOMAIN x.by_prefix : q # p => x.by_prefix[q] = t.by_prefix[q]
      BY <2>2, <2>3, <2>12 DEF Put
    <3>2. n - 1 \in 1 .. max_per_prefix
      BY <2>4, <2>12, PeersAssumption
    <3>3. ASSUME NEW q \in DOMAIN x.by_prefix
          PROVE  x.by_prefix[q] = Cardinality(Holders(x, q)) /\ x.by_prefix[q] \in 1 .. max_per_prefix
      <4>1. CASE q = p
        BY <2>8, <3>1, <3>2, <4>1
      <4>2. CASE q # p
        BY <2>7, <3>1, <4>2 DEF Accounted
      <4> QED
        BY <4>1, <4>2
    <3>4. \A k \in DOMAIN x.peers : x.peers[k] \in DOMAIN x.by_prefix
      BY <2>5, <3>1 DEF Accounted
    <3> QED
      BY <2>1, <2>9, <2>10, <3>3, <3>4 DEF Accounted
  <2> QED
    BY <2>11, <2>12
<1> QED
  BY <1>1, <1>2

Removals(f, t, order, n) ==
    f = [k \in 0 .. n |-> IF k = 0 THEN t
                          ELSE IF k > Len(order) THEN f[k - 1] ELSE remove(f[k - 1], order[k])]

LEMMA RemovalsExist ==
  ASSUME NEW t, NEW order
  PROVE  \A n \in Nat : \E f : Removals(f, t, order, n)
<1> DEFINE Step(s, k) == IF k > Len(order) THEN s ELSE remove(s, order[k])
<1> DEFINE P == {n \in Nat : \E f : Removals(f, t, order, n)}
<1>1. 0 \in P
  <2> DEFINE f == [k \in 0 .. 0 |-> t]
  <2>1. \A k \in 0 .. 0 : k = 0
    OBVIOUS
  <2>2. f = [k \in 0 .. 0 |-> IF k = 0 THEN t ELSE Step(f[k - 1], k)]
    BY <2>1
  <2>3. Removals(f, t, order, 0)
    BY <2>2 DEF Removals
  <2> QED
    BY <2>3
<1>2. ASSUME NEW n \in Nat, n \in P PROVE n + 1 \in P
  <2>1. PICK f : Removals(f, t, order, n)
    BY <1>2
  <2>2. \A k \in 0 .. n : f[k] = IF k = 0 THEN t ELSE Step(f[k - 1], k)
    BY <2>1 DEF Removals
  <2> HIDE DEF Step
  <2> DEFINE g == [k \in 0 .. n + 1 |-> IF k = n + 1 THEN Step(f[n], n + 1) ELSE f[k]]
  <2>3. ASSUME NEW k \in 0 .. n + 1
        PROVE  g[k] = IF k = 0 THEN t ELSE Step(g[k - 1], k)
    <3>1. CASE k = n + 1
      <4>1. k # 0 /\ k - 1 = n /\ n \in 0 .. n + 1 /\ n # n + 1
        BY <3>1
      <4>2. g[n] = f[n] /\ g[k] = Step(f[n], n + 1)
        BY <3>1, <4>1
      <4> HIDE DEF g
      <4> QED
        BY <3>1, <4>1, <4>2
    <3>2. CASE k # n + 1
      <4>1. k \in 0 .. n /\ (k # 0 => k - 1 \in 0 .. n + 1 /\ k - 1 # n + 1)
        BY <3>2
      <4>2. g[k] = f[k] /\ (k # 0 => g[k - 1] = f[k - 1])
        BY <3>2, <4>1
      <4> HIDE DEF g
      <4> QED
        BY <2>2, <4>1, <4>2
    <3> QED
      BY <3>1, <3>2
  <2>4. DOMAIN g = 0 .. n + 1 /\ g = [k \in 0 .. n + 1 |-> g[k]]
    OBVIOUS
  <2> HIDE DEF g
  <2>5. g = [k \in 0 .. n + 1 |-> IF k = 0 THEN t ELSE Step(g[k - 1], k)]
    BY <2>3, <2>4
  <2>6. Removals(g, t, order, n + 1)
    BY <2>5 DEF Removals, Step
  <2> QED
    BY <2>6
<1> HIDE DEF P
<1>3. \A n \in Nat : n \in P
  BY <1>1, <1>2, NumberInduction
<1> QED
  BY <1>3 DEF P

\* rotate_peers removes one peer after the other.
LEMMA RotateKeeps ==
  ASSUME NEW t, Accounted(t), NEW listed, NEW stats, NEW len, NEW evict_count \in Nat
  PROVE  Accounted(rotate_peers(t, listed, stats, len, evict_count))
<1> DEFINE order == EvictionOrder(t, listed, stats, len)
<1> DEFINE f == CHOOSE g : Removals(g, t, order, evict_count)
<1>1. rotate_peers(t, listed, stats, len, evict_count) = f[evict_count]
  BY DEF rotate_peers, Removals
<1> HIDE DEF order
<1>2. Removals(f, t, order, evict_count)
  BY RemovalsExist
<1> HIDE DEF f
<1> DEFINE P == {n \in Nat : n \in 0 .. evict_count => Accounted(f[n])}
<1>3. 0 \in P
  <2>1. f[0] = t
    BY <1>2 DEF Removals
  <2> QED
    BY <2>1
<1>4. ASSUME NEW n \in Nat, n \in P PROVE n + 1 \in P
  <2> SUFFICES ASSUME n + 1 \in 0 .. evict_count PROVE Accounted(f[n + 1])
    OBVIOUS
  <2>1. n \in 0 .. evict_count /\ n + 1 # 0 /\ (n + 1) - 1 = n
    OBVIOUS
  <2>2. f[n + 1] = IF n + 1 > Len(order) THEN f[n] ELSE remove(f[n], order[n + 1])
    BY <1>2, <2>1 DEF Removals
  <2> QED
    BY <1>4, <2>1, <2>2, RemoveKeeps
<1> HIDE DEF P
<1>5. \A n \in Nat : n \in P
  BY <1>3, <1>4, NumberInduction
<1>6. Accounted(f[evict_count])
  BY <1>5 DEF P
<1> QED
  BY <1>1, <1>6

PeersInv == Accounted(Table)

LEMMA TableIs ==
  ASSUME NEW t, Accounted(t), Become(t)
  PROVE  PeersInv'
<1>1. Table' = [peers |-> t.peers, by_prefix |-> t.by_prefix]
  BY DEF Become, Table
<1> DEFINE x == [peers |-> t.peers, by_prefix |-> t.by_prefix]
<1>2. x.peers = t.peers /\ x.by_prefix = t.by_prefix
  OBVIOUS
<1> HIDE DEF x
<1>3. Accounted(x)
  BY <1>2 DEF Accounted, Holders
<1>4. Table' = x
  BY <1>1 DEF x
<1> QED
  BY <1>3, <1>4 DEF PeersInv, Accounted, Holders

LEMMA PeersStep == PeersInv /\ [PeersNext]_peer_vars => PeersInv'
<1> SUFFICES ASSUME PeersInv, [PeersNext]_peer_vars PROVE PeersInv'
  OBVIOUS
<1>1. CASE UNCHANGED peer_vars
  BY <1>1 DEF peer_vars, PeersInv, Accounted, Holders, Table
<1>2. ASSUME NEW peer \in PeerIds, NEW ip \in Addresses, AdmitPeer(peer, ip) PROVE PeersInv'
  BY <1>2, AdmitKeeps, TableIs DEF AdmitPeer, PeersInv
<1>3. ASSUME NEW peer \in PeerIds, RemovePeer(peer) PROVE PeersInv'
  BY <1>3, RemoveKeeps, TableIs DEF RemovePeer, PeersInv
<1>4. ASSUME NEW listed, NEW stats, NEW len, NEW evict_count \in 1 .. 2,
             RotatePeers(listed, stats, len, evict_count)
      PROVE  PeersInv'
  <2>1. evict_count \in Nat
    OBVIOUS
  <2> QED
    BY <1>4, <2>1, RotateKeeps, TableIs DEF RotatePeers, PeersInv
<1> QED
  BY <1>1, <1>2, <1>3, <1>4 DEF PeersNext

\* However peers are admitted, removed and rotated out, every slot is accounted for.
THEOREM SlotsAreAccounted == PeersSpec => []SlotsAccounted
<1>1. PeersInit => PeersInv
  <2> SUFFICES ASSUME PeersInit PROVE PeersInv
    OBVIOUS
  <2>1. DOMAIN Table.peers = {} /\ DOMAIN Table.by_prefix = {}
    BY DEF PeersInit, Table
  <2>2. Cardinality({}) <= max_slots
    BY FS_EmptySet, PeersAssumption
  <2> QED
    BY <2>1, <2>2 DEF PeersInv, Accounted
<1>2. PeersInv => SlotsAccounted
  <2>1. Table.peers = peers /\ Table.by_prefix = by_prefix
    BY DEF Table
  <2> QED
    BY <2>1 DEF PeersInv, Accounted, Holders, SlotsAccounted
<1> QED
  BY <1>1, <1>2, PeersStep, PTL DEF PeersSpec

----------------------------------------------------------------------------
(* The faucet's nonces.                                                    *)

\* The faucet's nonce n is in the pool or in the chain.
Covered(n) == n < nonces[Faucet] \/ \E s \in pool : Slot(s) = <<Faucet, n>>

\* A call is for the nonce the faucet has not moved past, and a good reply to it
\* means that the nonce is covered.
CallInv ==
    call # Nothing =>
        /\ "http_faucet" \in clients
        /\ call.signed \in Transfers
        /\ call.signed.from = Faucet /\ call.signed.tx.nonce = next_nonce
        /\ call.reply = "ok" => Covered(next_nonce)

NonceInv ==
    /\ clients \in ClientSets
    /\ pool \subseteq Transfers /\ IsFiniteSet(pool)
    /\ \A s, r \in pool : Slot(s) = Slot(r) => s = r
    /\ nonces \in [Payers -> Nat]
    /\ next_nonce \in Nat
    /\ \A s \in in_flight : s \in Transfers /\ s.from = Faucet
    /\ CallInv
    /\ \A n \in Nat : n < next_nonce => Covered(n)

\* The parts of a transfer.
LEMMA TransferFacts ==
  ASSUME NEW s \in Transfers
  PROVE  s.from \in Payers /\ s.tx.nonce \in Nat /\ Slot(s) = <<s.from, s.tx.nonce>>
  BY DEF Transfers, Slot

\* What l1_submitTx does to the pool.
LEMMA SubmitFacts ==
  ASSUME NonceInv, NEW signed \in Transfers, submit_tx(signed)
  PROVE  /\ pool' \subseteq Transfers /\ IsFiniteSet(pool')
         /\ \A s, r \in pool' : Slot(s) = Slot(r) => s = r
         /\ nonces' = nonces
         /\ \A n \in Nat : Covered(n) => Covered(n)'
         /\ Accepted(signed) /\ signed.from = Faucet => Covered(signed.tx.nonce)'
<1> DEFINE kept == {s \in pool : Slot(s) # Slot(signed)}
<1>1. nonces' = nonces /\ pool' = IF Accepted(signed) THEN kept \cup {signed} ELSE pool
  BY DEF submit_tx
<1>2. IsFiniteSet(kept)
  BY FS_Subset DEF NonceInv
<1>3. IsFiniteSet(kept \cup {signed})
  <2> HIDE DEF kept
  <2> QED
    BY <1>2, FS_AddElement
<1>4. pool' \subseteq Transfers /\ IsFiniteSet(pool')
  BY <1>1, <1>3 DEF NonceInv
<1>5. \A s, r \in pool' : Slot(s) = Slot(r) => s = r
  BY <1>1 DEF NonceInv
<1>6. ASSUME NEW n \in Nat, Covered(n) PROVE Covered(n)'
  <2>1. CASE n < nonces[Faucet]
    BY <1>1, <2>1 DEF Covered
  <2>2. CASE \E s \in pool : Slot(s) = <<Faucet, n>>
    <3>1. PICK s \in pool : Slot(s) = <<Faucet, n>>
      BY <2>2
    <3>2. \E r \in pool' : Slot(r) = <<Faucet, n>>
      BY <1>1, <3>1
    <3> QED
      BY <3>2 DEF Covered, Slot
  <2> QED
    BY <1>6, <2>1, <2>2 DEF Covered
<1>7. ASSUME Accepted(signed), signed.from = Faucet PROVE Covered(signed.tx.nonce)'
  <2>1. signed \in pool' /\ Slot(signed) = <<Faucet, signed.tx.nonce>>
    BY <1>1, <1>7 DEF Slot
  <2> QED
    BY <2>1 DEF Covered, Slot
<1> QED
  BY <1>1, <1>4, <1>5, <1>6, <1>7

LEMMA NonceInit == ServicesInit => NonceInv
<1> SUFFICES ASSUME ServicesInit PROVE NonceInv
  OBVIOUS
<1>1. /\ clients \in ClientSets /\ pool = {} /\ nonces = [a \in Payers |-> 0]
      /\ next_nonce = 0 /\ call = Nothing /\ in_flight = {}
  BY DEF ServicesInit
<1>2. \A n \in Nat : ~(n < 0)
  OBVIOUS
<1> QED
  BY <1>1, <1>2, FS_EmptySet DEF NonceInv, CallInv

\* Steps that leave the faucet, its calls and the pool alone.
LEMMA NonceFrame ==
  ASSUME NonceInv, UNCHANGED <<clients, pool, nonces, next_nonce, in_flight, call>>
  PROVE  NonceInv'
  BY DEF NonceInv, CallInv, Covered, Slot

LEMMA WaitStep ==
  ASSUME NonceInv, NEW to \in Recipients, WaitFinality(to)
  PROVE  NonceInv'
<1> DEFINE signed == Transfer(Client, 0, to)
<1>1. /\ submit_tx(signed) /\ UNCHANGED <<clients, next_nonce, call, in_flight>>
  BY DEF WaitFinality
<1>2. signed \in Transfers
  BY DEF Transfer, Transfers, Payers
<1> HIDE DEF signed
<1>3. /\ pool' \subseteq Transfers /\ IsFiniteSet(pool')
      /\ \A s, r \in pool' : Slot(s) = Slot(r) => s = r
      /\ nonces' = nonces
      /\ \A n \in Nat : Covered(n) => Covered(n)'
  BY <1>1, <1>2, SubmitFacts
<1>4. CallInv'
  <2> SUFFICES ASSUME call # Nothing PROVE CallInv'
    BY <1>1 DEF CallInv
  <2>1. call.reply = "ok" => Covered(next_nonce)
    BY DEF NonceInv, CallInv
  <2>2. next_nonce \in Nat /\ next_nonce' = next_nonce
    BY <1>1 DEF NonceInv
  <2>3. PICK n \in Nat : n = next_nonce
    BY <2>2
  <2>4. call.reply = "ok" => Covered(n)'
    BY <1>3, <2>1, <2>3
  <2>5. call'.reply = "ok" => Covered(next_nonce)'
    BY <1>1, <2>2, <2>3, <2>4 DEF Covered
  <2> QED
    BY <1>1, <2>2, <2>5 DEF NonceInv, CallInv
<1>5. ASSUME NEW n \in Nat, n < next_nonce' PROVE Covered(n)'
  BY <1>1, <1>3, <1>5 DEF NonceInv
<1> QED
  BY <1>1, <1>3, <1>4, <1>5 DEF NonceInv, Slot

\* The gated faucet moves on in the step that queues its transfer.
LEMMA DripStep ==
  ASSUME NonceInv, NEW to \in Recipients, NEW ip \in IPs, Drip(to, ip)
  PROVE  NonceInv'
<1> DEFINE signed == Transfer(Faucet, next_nonce, to)
<1>1. /\ "gated_faucet" \in clients /\ UNCHANGED <<clients, call, in_flight>>
      /\ \/ UNCHANGED <<pool, nonces, next_nonce>>
         \/ /\ submit_tx(signed)
            /\ next_nonce' = IF Accepted(signed) THEN next_nonce + 1 ELSE next_nonce
  BY DEF Drip, rpc_vars
<1>2. call = Nothing
  BY <1>1, ServicesAssumption DEF NonceInv, CallInv
<1>3. CASE UNCHANGED <<pool, nonces, next_nonce>>
  BY <1>1, <1>3, NonceFrame
<1>4. CASE /\ submit_tx(signed)
           /\ next_nonce' = IF Accepted(signed) THEN next_nonce + 1 ELSE next_nonce
  <2>1. signed \in Transfers /\ signed.from = Faucet /\ signed.tx.nonce = next_nonce
    BY DEF Transfer, Transfers, Payers, NonceInv
  <2> HIDE DEF signed
  <2>2. /\ pool' \subseteq Transfers /\ IsFiniteSet(pool')
        /\ \A s, r \in pool' : Slot(s) = Slot(r) => s = r
        /\ nonces' = nonces
        /\ \A n \in Nat : Covered(n) => Covered(n)'
    BY <1>4, <2>1, SubmitFacts
  <2>3. next_nonce \in Nat /\ next_nonce' \in Nat
    BY <1>4 DEF NonceInv
  <2>4. ASSUME NEW n \in Nat, n < next_nonce' PROVE Covered(n)'
    <3>1. CASE n < next_nonce
      BY <2>2, <3>1 DEF NonceInv
    <3>2. CASE ~(n < next_nonce)
      <4>1. n = next_nonce /\ Accepted(signed)
        BY <1>4, <2>3, <2>4, <3>2
      <4>2. PICK m : m = signed
        OBVIOUS
      <4>3. n = m.tx.nonce /\ Covered(m.tx.nonce)'
        <5>1. signed.from = Faucet /\ \E s \in pool' : s = signed
          BY <1>4, <2>1, <4>1 DEF submit_tx
        <5>2. m \in pool' /\ m.from = Faucet /\ n = m.tx.nonce
          BY <2>1, <4>1, <4>2, <5>1
        <5> QED
          BY <5>2 DEF Covered, Slot
      <4> QED
        BY <4>3
    <3> QED
      BY <3>1, <3>2
  <2>5. CallInv'
    BY <1>1, <1>2 DEF CallInv
  <2> QED
    BY <1>1, <2>2, <2>3, <2>4, <2>5 DEF NonceInv, Slot
<1> QED
  BY <1>1, <1>3, <1>4

\* A request that is sent covers nothing yet, and has no reply.
LEMMA DripHttpStep ==
  ASSUME NonceInv, NEW to \in Recipients, DripHttp(to)
  PROVE  NonceInv'
<1> DEFINE signed == Transfer(Faucet, next_nonce, to)
<1>1. /\ "http_faucet" \in clients
      /\ in_flight' = in_flight \cup {signed}
      /\ call' = [signed |-> signed, reply |-> Nothing]
      /\ UNCHANGED <<clients, pool, nonces, next_nonce>>
  BY DEF DripHttp, rpc_vars
<1>2. signed \in Transfers /\ signed.from = Faucet /\ signed.tx.nonce = next_nonce
  BY DEF Transfer, Transfers, Payers, NonceInv
<1> HIDE DEF signed
<1>3. call'.signed = signed /\ call'.reply # "ok"
  BY <1>1, NothingAssumption
<1>4. CallInv'
  BY <1>1, <1>2, <1>3 DEF CallInv
<1>5. \A s \in in_flight' : s \in Transfers /\ s.from = Faucet
  BY <1>1, <1>2 DEF NonceInv
<1>6. \A n \in Nat : n < next_nonce' => Covered(n)'
  BY <1>1 DEF NonceInv, Covered, Slot
<1> QED
  BY <1>1, <1>4, <1>5, <1>6 DEF NonceInv, Slot

\* A request that is handled late may be for a nonce already moved past; only the
\* caller that waits for it learns of it.
LEMMA HandleStep ==
  ASSUME NonceInv, NEW signed \in in_flight, HandleHttp(signed)
  PROVE  NonceInv'
<1>1. /\ in_flight' = in_flight \ {signed} /\ submit_tx(signed)
      /\ call' = IF call # Nothing /\ call.signed = signed
                 THEN [call EXCEPT !.reply = IF Accepted(signed) THEN "ok" ELSE "error"]
                 ELSE call
      /\ UNCHANGED <<clients, next_nonce>>
  BY DEF HandleHttp
<1>2. signed \in Transfers /\ signed.from = Faucet
  BY DEF NonceInv
<1>3. /\ pool' \subseteq Transfers /\ IsFiniteSet(pool')
      /\ \A s, r \in pool' : Slot(s) = Slot(r) => s = r
      /\ nonces' = nonces
      /\ \A n \in Nat : Covered(n) => Covered(n)'
  BY <1>1, <1>2, SubmitFacts
<1>4. next_nonce \in Nat
  BY DEF NonceInv
<1>5. PICK n \in Nat : n = next_nonce
  BY <1>4
<1>6. CallInv'
  <2>1. CASE call # Nothing /\ call.signed = signed
    <3>1. call' = [call EXCEPT !.reply = IF Accepted(signed) THEN "ok" ELSE "error"]
      BY <1>1, <2>1
    <3>2. call'.signed = call.signed
      BY <3>1
    <3>3. call'.reply = "ok" => Accepted(signed)
      BY <3>1
    <3>4. "http_faucet" \in clients /\ signed.tx.nonce = n
      BY <1>5, <2>1 DEF NonceInv, CallInv
    <3>5. ASSUME Accepted(signed) PROVE Covered(next_nonce)'
      <4>1. PICK m : m = signed
        OBVIOUS
      <4>2. m \in pool' /\ m.from = Faucet /\ m.tx.nonce = n
        BY <1>1, <1>2, <3>4, <3>5, <4>1 DEF submit_tx
      <4>3. next_nonce' = n
        BY <1>1, <1>5
      <4> QED
        BY <4>2, <4>3 DEF Covered, Slot
    <3> QED
      BY <1>1, <1>2, <1>5, <2>1, <3>2, <3>3, <3>4, <3>5 DEF CallInv
  <2>2. CASE ~(call # Nothing /\ call.signed = signed)
    <3>1. call' = call
      BY <1>1, <2>2
    <3>2. call # Nothing /\ call.reply = "ok" => Covered(n)
      BY <1>5 DEF NonceInv, CallInv
    <3>3. call # Nothing /\ call.reply = "ok" => Covered(n)'
      BY <1>3, <3>2
    <3>4. Covered(n)' => Covered(next_nonce)'
      BY <1>1, <1>5 DEF Covered
    <3> QED
      BY <1>1, <3>1, <3>3, <3>4 DEF NonceInv, CallInv
  <2> QED
    BY <2>1, <2>2
<1>7. ASSUME NEW k \in Nat, k < next_nonce' PROVE Covered(k)'
  BY <1>1, <1>3, <1>7 DEF NonceInv
<1>8. \A s \in in_flight' : s \in Transfers /\ s.from = Faucet
  BY <1>1 DEF NonceInv
<1> QED
  BY <1>1, <1>3, <1>6, <1>7, <1>8 DEF NonceInv, Slot

\* A good reply moves the nonce on, and by then it is covered; a timeout does not.
LEMMA ReturnStep == NonceInv /\ Return => NonceInv'
<1> SUFFICES ASSUME NonceInv, Return PROVE NonceInv'
  OBVIOUS
<1>1. /\ call # Nothing /\ call' = Nothing
      /\ (call.reply = "ok" /\ next_nonce' = next_nonce + 1) \/ next_nonce' = next_nonce
      /\ UNCHANGED <<clients, pool, nonces, in_flight>>
  BY DEF Return, rpc_vars
<1>2. next_nonce \in Nat /\ next_nonce' \in Nat
  BY <1>1 DEF NonceInv
<1>3. ASSUME NEW n \in Nat, n < next_nonce' PROVE Covered(n)'
  <2>1. Covered(n)
    <3>1. CASE n < next_nonce
      BY <3>1 DEF NonceInv
    <3>2. CASE ~(n < next_nonce)
      <4>1. n = next_nonce /\ call.reply = "ok"
        BY <1>1, <1>2, <1>3, <3>2
      <4> QED
        BY <1>1, <4>1 DEF NonceInv, CallInv
    <3> QED
      BY <3>1, <3>2
  <2> QED
    BY <1>1, <2>1 DEF Covered, Slot
<1>4. CallInv'
  BY <1>1 DEF CallInv
<1> QED
  BY <1>1, <1>2, <1>3, <1>4 DEF NonceInv, Slot

Taken == UNION {ReadyRun(a) : a \in Payers}

\* What a block takes of the pool comes with everything of its sender before it.
LEMMA TakenRuns ==
  ASSUME NonceInv
  PROVE  /\ Taken \subseteq pool /\ IsFiniteSet(Taken)
         /\ \A s \in Taken : \A n \in 0 .. s.tx.nonce : \E r \in Taken : Slot(r) = <<s.from, n>>
<1>1. Taken \subseteq pool
  BY DEF Taken, ReadyRun
<1>2. IsFiniteSet(Taken)
  BY <1>1, FS_Subset DEF NonceInv
<1>3. ASSUME NEW s \in Taken, NEW n \in 0 .. s.tx.nonce
      PROVE  \E r \in Taken : Slot(r) = <<s.from, n>>
  <2>1. s \in Transfers
    BY <1>1 DEF NonceInv
  <2>2. s.tx.nonce \in Nat /\ s.from \in Payers
    BY <2>1, TransferFacts
  <2>3. \A k \in 0 .. s.tx.nonce : \E r \in pool : Slot(r) = <<s.from, k>>
    BY DEF Taken, ReadyRun
  <2>4. PICK r \in pool : Slot(r) = <<s.from, n>>
    BY <2>3
  <2>5. r.from = s.from /\ r.tx.nonce = n
    BY <2>4 DEF Slot
  <2>6. \A k \in 0 .. n : k \in 0 .. s.tx.nonce
    BY <2>2
  <2>7. r \in ReadyRun(s.from)
    BY <2>3, <2>5, <2>6 DEF ReadyRun
  <2> QED
    BY <2>2, <2>4, <2>7 DEF Taken
<1> QED
  BY <1>1, <1>2, <1>3

\* The nonces after a block: none goes back, and every transfer taken is behind its account's.
LEMMA TakenApplied ==
  ASSUME NonceInv, NEW a \in Payers,
         NEW top, top = Max({nonces[a]} \cup {n + 1 : n \in Applied(a, Taken)})
  PROVE  /\ top \in Nat /\ nonces[a] <= top
         /\ \A s \in Taken : s.from = a => s.tx.nonce < top
<1> DEFINE T == {nonces[a]} \cup {n + 1 : n \in Applied(a, Taken)}
           c == Cardinality(Taken)
<1>1. nonces[a] \in Nat /\ c \in Nat
  BY TakenRuns, FS_CardinalityType DEF NonceInv
<1>2. T \in SUBSET Nat /\ \A n \in T : n <= nonces[a] + c + 1
  <2>1. \A n \in Applied(a, Taken) : n \in 0 .. c
    BY DEF Applied
  <2> HIDE DEF c
  <2> QED
    BY <1>1, <2>1
<1>3. nonces[a] + c + 1 \in Nat
  BY <1>1
<1> HIDE DEF T, c
<1>4. T # {} /\ nonces[a] \in T
  BY DEF T
<1>5. Max(T) \in T /\ \A m \in T : m <= Max(T)
  BY <1>2, <1>3, <1>4, GreatestNumber
<1>6. top = Max(T)
  BY DEF T
<1>7. ASSUME NEW s \in Taken, s.from = a PROVE s.tx.nonce < top
  <2> DEFINE n == s.tx.nonce
  <2>1. n \in Nat
    BY TakenRuns, TransferFacts DEF NonceInv
  <2>2. \A k \in 0 .. n : \E r \in Taken : Slot(r) = <<a, k>>
    BY <1>7, TakenRuns
  <2> HIDE DEF n
  <2> DEFINE f == [k \in 0 .. n |-> CHOOSE r \in Taken : Slot(r) = <<a, k>>]
  <2>3. \A k \in 0 .. n : f[k] \in Taken /\ Slot(f[k]) = <<a, k>>
    BY <2>2
  <2>4. f \in [0 .. n -> Taken] /\ \A i, j \in 0 .. n : f[i] = f[j] => i = j
    <3>1. f \in [0 .. n -> Taken]
      BY <2>3
    <3> HIDE DEF f
    <3> QED
      BY <2>3, <3>1
  <2> HIDE DEF f
  <2>5. n < c
    BY <2>1, <2>4, TakenRuns, Outnumber DEF c
  <2>6. n \in 0 .. c /\ \A k \in nonces[a] .. n : k \in 0 .. n
    BY <1>1, <2>1, <2>5
  <2>7. n \in Applied(a, Taken)
    BY <2>2, <2>6 DEF Applied, c
  <2>8. n + 1 \in T
    BY <2>7 DEF T
  <2>9. n + 1 <= top /\ top \in Nat
    BY <1>2, <1>5, <1>6, <2>8
  <2>10. n < top
    BY <2>1, <2>9
  <2> QED
    BY <2>10 DEF n
<1> QED
  BY <1>1, <1>2, <1>4, <1>5, <1>6, <1>7

\* A block takes covered nonces from the pool to the chain.
LEMMA ProduceStep == NonceInv /\ Produce => NonceInv'
<1> SUFFICES ASSUME NonceInv, Produce PROVE NonceInv'
  OBVIOUS
<1>1. /\ pool' = pool \ Taken
      /\ nonces' = [a \in Payers |-> Max({nonces[a]} \cup {n + 1 : n \in Applied(a, Taken)})]
      /\ UNCHANGED <<clients, next_nonce, call, in_flight>>
  BY DEF Produce, Taken, client_vars
<1>2. ASSUME NEW a \in Payers
      PROVE  /\ nonces'[a] \in Nat /\ nonces[a] <= nonces'[a]
             /\ \A s \in Taken : s.from = a => s.tx.nonce < nonces'[a]
  <2>1. nonces'[a] = Max({nonces[a]} \cup {n + 1 : n \in Applied(a, Taken)})
    BY <1>1
  <2> QED
    BY <2>1, TakenApplied
<1>3. nonces' \in [Payers -> Nat]
  BY <1>1, <1>2
<1>4. Faucet \in Payers
  BY DEF Payers
<1>5. ASSUME NEW n \in Nat, Covered(n) PROVE Covered(n)'
  <2>1. CASE n < nonces[Faucet]
    <3>1. nonces[Faucet] \in Nat /\ nonces'[Faucet] \in Nat /\ nonces[Faucet] <= nonces'[Faucet]
      BY <1>2, <1>4 DEF NonceInv
    <3>2. n < nonces'[Faucet]
      BY <2>1, <3>1
    <3> QED
      BY <3>2 DEF Covered
  <2>2. CASE \E s \in pool : Slot(s) = <<Faucet, n>>
    <3>1. PICK s \in pool : Slot(s) = <<Faucet, n>>
      BY <2>2
    <3>2. s.from = Faucet /\ s.tx.nonce = n
      BY <3>1 DEF Slot
    <3>3. CASE s \in Taken
      <4>1. n < nonces'[Faucet]
        BY <1>2, <1>4, <3>2, <3>3
      <4> QED
        BY <4>1 DEF Covered
    <3>4. CASE s \notin Taken
      BY <1>1, <3>1, <3>4 DEF Covered, Slot
    <3> QED
      BY <3>3, <3>4
  <2> QED
    BY <1>5, <2>1, <2>2 DEF Covered
<1>6. pool' \subseteq Transfers /\ IsFiniteSet(pool')
  BY <1>1, FS_Subset DEF NonceInv
<1>7. \A s, r \in pool' : Slot(s) = Slot(r) => s = r
  BY <1>1 DEF NonceInv
<1>8. CallInv'
  <2>1. PICK n \in Nat : n = next_nonce
    BY DEF NonceInv
  <2>2. call # Nothing /\ call.reply = "ok" => Covered(n)
    BY <2>1 DEF NonceInv, CallInv
  <2>3. call # Nothing /\ call.reply = "ok" => Covered(n)'
    BY <1>5, <2>2
  <2>4. Covered(n)' => Covered(next_nonce)'
    BY <1>1, <2>1 DEF Covered
  <2> QED
    BY <1>1, <2>3, <2>4 DEF NonceInv, CallInv
<1>9. ASSUME NEW n \in Nat, n < next_nonce' PROVE Covered(n)'
  BY <1>1, <1>5, <1>9 DEF NonceInv
<1> QED
  BY <1>1, <1>3, <1>6, <1>7, <1>8, <1>9 DEF NonceInv, Slot

LEMMA NonceStep == NonceInv /\ [ServicesNext]_service_vars => NonceInv'
<1> SUFFICES ASSUME NonceInv, [ServicesNext]_service_vars PROVE NonceInv'
  OBVIOUS
<1>1. CASE Produce
  BY <1>1, ProduceStep
<1>2. CASE Prune
  BY <1>2, NonceFrame DEF Prune, client_vars
<1>3. CASE Subscribe
  BY <1>3, NonceFrame DEF Subscribe, client_vars
<1>4. CASE \E id \in DOMAIN subs : Unsubscribe(id)
  BY <1>4, NonceFrame DEF Unsubscribe, client_vars
<1>5. CASE \E to \in Recipients : WaitFinality(to)
  BY <1>5, WaitStep
<1>6. CASE Poll
  BY <1>6, NonceFrame DEF Poll, rpc_vars
<1>7. CASE \E to \in Recipients, ip \in IPs : Drip(to, ip)
  BY <1>7, DripStep
<1>8. CASE \E to \in Recipients : DripHttp(to)
  BY <1>8, DripHttpStep
<1>9. CASE \E signed \in in_flight : HandleHttp(signed)
  BY <1>9, HandleStep
<1>10. CASE Return
  BY <1>10, ReturnStep
<1>11. CASE Tick
  BY <1>11, NonceFrame DEF Tick, rpc_vars
<1>12. CASE UNCHANGED service_vars
  BY <1>12, NonceFrame DEF service_vars, rpc_vars, client_vars
<1> QED
  BY <1>1, <1>2, <1>3, <1>4, <1>5, <1>6, <1>7, <1>8, <1>9, <1>10, <1>11, <1>12
  DEF ServicesNext

\* The faucet's nonces keep their invariant in every run of the services.
THEOREM NonceInvariant == ServicesSpec => []NonceInv
<1> QED
  BY NonceInit, NonceStep, PTL DEF ServicesSpec

\* Whatever requests of drip_http are lost, late or refused, every nonce that the faucet
\* has moved past is in the pool or in the chain.
THEOREM NoncesAreCovered == ServicesSpec => []NoNonceGap
<1>1. NonceInv => NoNonceGap
  <2> SUFFICES ASSUME NonceInv, NEW n \in 0 .. next_nonce - 1
               PROVE  n < nonces[Faucet] \/ \E s \in pool : Slot(s) = <<Faucet, n>>
    BY DEF NoNonceGap
  <2>1. n \in Nat /\ n < next_nonce
    BY DEF NonceInv
  <2> QED
    BY <2>1 DEF NonceInv, Covered
<1> QED
  BY <1>1, NonceInvariant, PTL

----------------------------------------------------------------------------
(* The order of a block.                                                   *)

Earlier(T, s) == {r \in T : Before(r, s)}

\* The order of a block is total on transfers with distinct slots.
LEMMA BeforeFacts ==
  ASSUME NEW T \in SUBSET Transfers, \A s, r \in T : Slot(s) = Slot(r) => s = r
  PROVE  /\ \A s \in T : ~Before(s, s)
         /\ \A s, r, q \in T : Before(q, r) /\ Before(r, s) => Before(q, s)
         /\ \A s, r \in T : s # r => Before(s, r) \/ Before(r, s)
<1>0. Client # Faucet
  BY ServicesAssumption
<1>1. \A s \in T : s.from \in {Client, Faucet} /\ s.tx.nonce \in Nat
  BY TransferFacts DEF Payers
<1>2. \A s \in T : ~Before(s, s)
  BY <1>1 DEF Before
<1>3. \A s, r, q \in T : Before(q, r) /\ Before(r, s) => Before(q, s)
  BY <1>0, <1>1 DEF Before
<1>4. ASSUME NEW s \in T, NEW r \in T, s # r PROVE Before(s, r) \/ Before(r, s)
  <2>1. s.from # r.from \/ s.tx.nonce # r.tx.nonce
    BY <1>4 DEF Slot
  <2> QED
    BY <1>0, <1>1, <2>1 DEF Before
<1> QED
  BY <1>2, <1>3, <1>4

\* Every place of the order is taken.
LEMMA EveryPlace ==
  ASSUME NEW T \in SUBSET Transfers, IsFiniteSet(T),
         \A s, r \in T : Slot(s) = Slot(r) => s = r
  PROVE  \A i \in 1 .. Cardinality(T) : \E s \in T : Cardinality(Earlier(T, s)) = i - 1
<1> DEFINE c == Cardinality(T)
           rank == [s \in T |-> Cardinality(Earlier(T, s))]
<1>1. c \in Nat
  BY FS_CardinalityType
<1>2. \A s \in T : IsFiniteSet(Earlier(T, s)) /\ Cardinality(Earlier(T, s)) \in Nat
  BY FS_Subset, FS_CardinalityType DEF Earlier
<1>3. ASSUME NEW s \in T PROVE Cardinality(Earlier(T, s)) \in 0 .. c - 1
  <2>1. Earlier(T, s) \subseteq T \ {s}
    BY BeforeFacts DEF Earlier
  <2>2. IsFiniteSet(T \ {s}) /\ Cardinality(T \ {s}) = c - 1
    BY FS_RemoveElement
  <2>3. Cardinality(Earlier(T, s)) <= c - 1
    BY <2>1, <2>2, FS_Subset
  <2> QED
    BY <1>1, <1>2, <2>3
<1>4. ASSUME NEW s \in T, NEW r \in T, Before(r, s)
      PROVE  Cardinality(Earlier(T, r)) < Cardinality(Earlier(T, s))
  <2>1. Earlier(T, r) \subseteq Earlier(T, s) \ {r}
    BY <1>4, BeforeFacts DEF Earlier
  <2>2. r \in Earlier(T, s)
    BY <1>4 DEF Earlier
  <2>3. /\ IsFiniteSet(Earlier(T, s) \ {r})
        /\ Cardinality(Earlier(T, s) \ {r}) = Cardinality(Earlier(T, s)) - 1
    BY <1>2, <2>2, FS_RemoveElement
  <2>4. Cardinality(Earlier(T, r)) <= Cardinality(Earlier(T, s)) - 1
    BY <2>1, <2>3, FS_Subset
  <2> QED
    BY <1>2, <2>4
<1>5. ASSUME NEW s \in T, NEW r \in T, s # r
      PROVE  Cardinality(Earlier(T, r)) # Cardinality(Earlier(T, s))
  <2>1. Before(s, r) \/ Before(r, s)
    BY <1>5, BeforeFacts
  <2> QED
    BY <1>2, <1>4, <2>1
<1>6. rank \in [T -> 0 .. c - 1]
  BY <1>3
<1>7. \A s \in T : rank[s] = Cardinality(Earlier(T, s))
  OBVIOUS
<1> HIDE DEF rank
<1>8. rank \in Injection(T, 0 .. c - 1)
  BY <1>5, <1>6, <1>7 DEF Injection, IsInjective
<1>9. IsFiniteSet(0 .. c - 1) /\ Cardinality(0 .. c - 1) = c
  <2>1. c - 1 \in Int /\ 0 \in Int
    BY <1>1
  <2> HIDE DEF c
  <2>2. /\ IsFiniteSet(0 .. c - 1)
        /\ Cardinality(0 .. c - 1) = IF 0 > c - 1 THEN 0 ELSE (c - 1) - 0 + 1
    BY <2>1, FS_Interval
  <2> QED
    BY <1>1, <2>2
<1>10. rank \in Surjection(T, 0 .. c - 1)
  BY <1>8, <1>9, FS_Injection
<1>11. \A j \in 0 .. c - 1 : \E s \in T : rank[s] = j
  BY <1>10 DEF Surjection
<1>12. ASSUME NEW i \in 1 .. c PROVE \E s \in T : Cardinality(Earlier(T, s)) = i - 1
  <2>1. i - 1 \in 0 .. c - 1
    BY <1>1
  <2> QED
    BY <1>7, <1>11, <2>1
<1> QED
  BY <1>12

\* So the body of a block is a sequence of transfers.
LEMMA InOrderFacts ==
  ASSUME NEW T \in SUBSET Transfers, IsFiniteSet(T),
         \A s, r \in T : Slot(s) = Slot(r) => s = r
  PROVE  InOrder(T) \in Seq(Transfers)
<1> DEFINE c == Cardinality(T)
           body == InOrder(T)
<1>1. c \in Nat
  BY FS_CardinalityType
<1>2. body = [i \in 1 .. c |-> CHOOSE s \in T : Cardinality(Earlier(T, s)) = i - 1]
  BY DEF InOrder, Earlier
<1>3. \A i \in 1 .. c : body[i] \in T
  <2> HIDE DEF body
  <2> QED
    BY <1>2, EveryPlace
<1> HIDE DEF c, body
<1>4. body \in [1 .. c -> Transfers]
  BY <1>2, <1>3
<1>5. body \in Seq(Transfers)
  BY <1>1, <1>4
<1> QED
  BY <1>5 DEF body

----------------------------------------------------------------------------
(* The index of transactions.                                              *)

\* The height of the last block, or nothing yet.
HeightInv == last_finalized = Nothing \/ last_finalized \in Nat

\* Pruning takes bodies from below only.
BodiesInv ==
    /\ \A h \in DOMAIN bodies : h \in Nat /\ h <= Tip /\ bodies[h] \in Seq(Transfers)
    /\ \A h \in DOMAIN bodies : \A k \in Nat : h <= k /\ k <= Tip => k \in DOMAIN bodies

\* A locator points at its transaction, unless that body was pruned.
LocatorInv ==
    \A hash \in DOMAIN tx_index :
        /\ tx_index[hash].height \in Nat /\ tx_index[hash].height <= Tip
        /\ tx_index[hash].height \in DOMAIN bodies =>
               /\ tx_index[hash].position \in DOMAIN bodies[tx_index[hash].height]
               /\ hash_of(bodies[tx_index[hash].height][tx_index[hash].position]) = hash

\* What is stored has a locator, to its own block or a later one.
LocatedInv ==
    \A h \in DOMAIN bodies : \A i \in DOMAIN bodies[h] :
        /\ hash_of(bodies[h][i]) \in DOMAIN tx_index
        /\ h <= tx_index[hash_of(bodies[h][i])].height

IndexInv == HeightInv /\ BodiesInv /\ LocatorInv /\ LocatedInv

LEMMA TipType == HeightInv => Tip \in Int /\ Tip + 1 \in Nat
  BY DEF HeightInv, Tip

LEMMA IndexInit == ServicesInit => IndexInv
<1> SUFFICES ASSUME ServicesInit PROVE IndexInv
  OBVIOUS
<1>1. bodies = <<>> /\ tx_index = <<>> /\ last_finalized = Nothing
  BY DEF ServicesInit
<1>2. DOMAIN bodies = {} /\ DOMAIN tx_index = {}
  BY <1>1
<1> QED
  BY <1>1, <1>2 DEF IndexInv, HeightInv, BodiesInv, LocatorInv, LocatedInv

LEMMA IndexFrame ==
  ASSUME IndexInv, UNCHANGED <<bodies, tx_index, last_finalized>>
  PROVE  IndexInv'
  BY DEF IndexInv, HeightInv, BodiesInv, LocatorInv, LocatedInv, Tip

\* Pruning takes the oldest bodies, so a later locator survives an earlier body.
LEMMA IndexPrune == IndexInv /\ Prune => IndexInv'
<1> SUFFICES ASSUME IndexInv, Prune PROVE IndexInv'
  OBVIOUS
<1>1. /\ bodies' = Restrict(bodies, {h \in DOMAIN bodies : h + retain > Tip})
      /\ tx_index' = tx_index /\ last_finalized' = last_finalized
  BY DEF Prune
<1>2. Tip' = Tip /\ HeightInv' /\ Tip \in Int /\ retain \in Nat
  BY <1>1, TipType, ServicesAssumption DEF IndexInv, HeightInv, Tip
<1>3. /\ DOMAIN bodies' = {h \in DOMAIN bodies : h + retain > Tip}
      /\ \A h \in DOMAIN bodies' : bodies'[h] = bodies[h]
  BY <1>1 DEF Restrict
<1>4. BodiesInv'
  <2>1. \A h \in DOMAIN bodies' : h \in Nat /\ h <= Tip' /\ bodies'[h] \in Seq(Transfers)
    BY <1>2, <1>3 DEF IndexInv, BodiesInv
  <2>2. ASSUME NEW h \in DOMAIN bodies', NEW k \in Nat, h <= k, k <= Tip'
        PROVE  k \in DOMAIN bodies'
    <3>1. h \in Nat /\ h + retain > Tip /\ k \in DOMAIN bodies
      BY <1>2, <1>3, <2>2 DEF IndexInv, BodiesInv
    <3>2. k + retain > Tip
      BY <1>2, <2>2, <3>1
    <3> QED
      BY <1>3, <3>1, <3>2
  <2> QED
    BY <2>1, <2>2 DEF BodiesInv
<1>5. LocatorInv'
  BY <1>1, <1>2, <1>3 DEF IndexInv, LocatorInv, hash_of
<1>6. LocatedInv'
  BY <1>1, <1>2, <1>3 DEF IndexInv, LocatedInv, hash_of
<1> QED
  BY <1>2, <1>4, <1>5, <1>6 DEF IndexInv

HashesOf(body) == {hash_of(body[i]) : i \in DOMAIN body}

\* The last transaction with a hash has its locator.
Indexed(index, h, body, new, hashes) ==
    /\ DOMAIN new = DOMAIN index \cup hashes
    /\ \A hash \in hashes :
           /\ new[hash].height = h /\ new[hash].position \in DOMAIN body
           /\ hash_of(body[new[hash].position]) = hash
    /\ \A hash \in DOMAIN index \ hashes : new[hash] = index[hash]

LEMMA IndexOps ==
  ASSUME NEW index, NEW h, NEW body \in Seq(Transfers),
         NEW new, new = tx_index_ops(index, h, body),
         NEW hashes, hashes = HashesOf(body)
  PROVE  Indexed(index, h, body, new, hashes)
<1> DEFINE Places(hash) == {i \in DOMAIN body : hash_of(body[i]) = hash}
<1>1. new = [hash \in DOMAIN index \cup hashes |->
                IF hash \in hashes THEN [height |-> h, position |-> Max(Places(hash))]
                ELSE index[hash]]
  <2>1. hashes = {hash_of(body[i]) : i \in DOMAIN body}
    BY DEF HashesOf
  <2> QED
    BY <2>1 DEF tx_index_ops
<1>2. ASSUME NEW hash \in hashes
      PROVE  Max(Places(hash)) \in DOMAIN body /\ hash_of(body[Max(Places(hash))]) = hash
  <2>1. Places(hash) # {}
    BY DEF HashesOf
  <2>2. DOMAIN body = 1 .. Len(body) /\ Len(body) \in Nat
    OBVIOUS
  <2>3. Places(hash) \in SUBSET Nat /\ \A i \in Places(hash) : i <= Len(body)
    BY <2>2
  <2>4. Max(Places(hash)) \in Places(hash)
    <3> DEFINE P == Places(hash)
    <3> HIDE DEF Places
    <3> SUFFICES Max(P) \in P
      OBVIOUS
    <3>1. P \in SUBSET Nat /\ P # {} /\ Len(body) \in Nat /\ \A i \in P : i <= Len(body)
      BY <2>1, <2>2, <2>3
    <3> HIDE DEF P
    <3> QED
      BY <3>1, GreatestNumber
  <2> QED
    BY <2>4
<1> HIDE DEF Places
<1>3. DOMAIN new = DOMAIN index \cup hashes
  BY <1>1
<1>4. ASSUME NEW hash \in hashes
      PROVE  /\ new[hash].height = h /\ new[hash].position \in DOMAIN body
             /\ hash_of(body[new[hash].position]) = hash
  <2>1. new[hash] = [height |-> h, position |-> Max(Places(hash))]
    BY <1>1
  <2> QED
    BY <1>2, <2>1
<1>5. \A hash \in DOMAIN index \ hashes : new[hash] = index[hash]
  BY <1>1
<1> QED
  BY <1>3, <1>4, <1>5 DEF Indexed

\* A new block gives its hashes their locators, taking over those of older blocks.
LEMMA IndexProduce == NonceInv /\ IndexInv /\ Produce => IndexInv'
<1> SUFFICES ASSUME NonceInv, IndexInv, Produce PROVE IndexInv'
  OBVIOUS
<1> DEFINE body == InOrder(Taken)
           height == Tip + 1
           hashes == HashesOf(body)
<1>1. /\ bodies' = Put(bodies, height, body)
      /\ tx_index' = tx_index_ops(tx_index, height, body)
      /\ last_finalized' = height
  BY DEF Produce, Taken
<1>2. body \in Seq(Transfers)
  <2>1. /\ Taken \in SUBSET Transfers /\ IsFiniteSet(Taken)
        /\ \A s, r \in Taken : Slot(s) = Slot(r) => s = r
    BY TakenRuns DEF NonceInv
  <2> QED
    BY <2>1, InOrderFacts
<1>3. height \in Nat /\ Tip \in Int /\ height = Tip + 1
  BY TipType DEF IndexInv
<1>4. Tip' = height /\ HeightInv'
  <2> HIDE DEF height
  <2> QED
    BY <1>1, <1>3, NothingAssumption DEF Tip, HeightInv
<1> HIDE DEF body, height
<1>5. /\ DOMAIN bodies' = DOMAIN bodies \cup {height} /\ bodies'[height] = body
      /\ \A h \in DOMAIN bodies : h # height => bodies'[h] = bodies[h]
  BY <1>1 DEF Put
<1>6. \A h \in DOMAIN bodies : h \in Nat /\ h <= Tip /\ h # height
  BY <1>3 DEF IndexInv, BodiesInv
<1>7. \A i \in DOMAIN body : hash_of(body[i]) \in hashes
  BY DEF HashesOf
<1>8. /\ DOMAIN tx_index' = DOMAIN tx_index \cup hashes
      /\ \A hash \in hashes :
             /\ tx_index'[hash].height = height /\ tx_index'[hash].position \in DOMAIN body
             /\ hash_of(body[tx_index'[hash].position]) = hash
      /\ \A hash \in DOMAIN tx_index \ hashes : tx_index'[hash] = tx_index[hash]
  <2>1. Indexed(tx_index, height, body, tx_index', hashes)
    BY <1>1, <1>2, IndexOps
  <2> QED
    BY <2>1 DEF Indexed
<1> HIDE DEF hashes
<1>9. BodiesInv'
  <2>1. ASSUME NEW h \in DOMAIN bodies'
        PROVE  h \in Nat /\ h <= Tip' /\ bodies'[h] \in Seq(Transfers)
    <3>1. CASE h = height
      BY <1>2, <1>3, <1>4, <1>5, <3>1
    <3>2. CASE h \in DOMAIN bodies
      BY <1>3, <1>4, <1>5, <1>6, <3>2 DEF IndexInv, BodiesInv
    <3> QED
      BY <1>5, <3>1, <3>2
  <2>2. ASSUME NEW h \in DOMAIN bodies', NEW k \in Nat, h <= k, k <= Tip'
        PROVE  k \in DOMAIN bodies'
    <3>1. CASE k = height
      BY <1>5, <3>1
    <3>2. CASE k # height
      <4>1. k <= Tip /\ h \in Nat
        BY <1>3, <1>4, <2>1, <2>2, <3>2
      <4>2. h # height
        BY <1>3, <2>2, <4>1
      <4>3. h \in DOMAIN bodies
        BY <1>5, <4>2
      <4> QED
        BY <1>5, <2>2, <4>1, <4>3 DEF IndexInv, BodiesInv
    <3> QED
      BY <3>1, <3>2
  <2> QED
    BY <2>1, <2>2 DEF BodiesInv
<1>10. LocatorInv'
  <2> SUFFICES ASSUME NEW hash \in DOMAIN tx_index'
               PROVE  /\ tx_index'[hash].height \in Nat /\ tx_index'[hash].height <= Tip'
                      /\ tx_index'[hash].height \in DOMAIN bodies' =>
                           /\ tx_index'[hash].position \in DOMAIN bodies'[tx_index'[hash].height]
                           /\ hash_of(bodies'[tx_index'[hash].height][tx_index'[hash].position])
                                = hash
    BY DEF LocatorInv, hash_of
  <2>1. CASE hash \in hashes
    <3>1. tx_index'[hash].height = height
      BY <1>8, <2>1
    <3>2. bodies'[tx_index'[hash].height] = body
      BY <1>5, <3>1
    <3> QED
      BY <1>3, <1>4, <1>8, <2>1, <3>1, <3>2
  <2>2. CASE hash \notin hashes
    <3>1. hash \in DOMAIN tx_index /\ tx_index'[hash] = tx_index[hash]
      BY <1>8, <2>2
    <3>2. tx_index[hash].height \in Nat /\ tx_index[hash].height <= Tip
      BY <3>1 DEF IndexInv, LocatorInv
    <3>3. tx_index[hash].height # height /\ tx_index[hash].height <= height
      BY <1>3, <3>2
    <3>4. tx_index[hash].height \in DOMAIN bodies' => tx_index[hash].height \in DOMAIN bodies
      BY <1>5, <3>3
    <3>5. tx_index[hash].height \in DOMAIN bodies =>
            bodies'[tx_index[hash].height] = bodies[tx_index[hash].height]
      BY <1>5, <3>3
    <3> QED
      BY <1>4, <3>1, <3>2, <3>3, <3>4, <3>5 DEF IndexInv, LocatorInv
  <2> QED
    BY <2>1, <2>2
<1>11. LocatedInv'
  <2> SUFFICES ASSUME NEW h \in DOMAIN bodies', NEW i \in DOMAIN bodies'[h]
               PROVE  /\ hash_of(bodies'[h][i]) \in DOMAIN tx_index'
                      /\ h <= tx_index'[hash_of(bodies'[h][i])].height
    BY DEF LocatedInv, hash_of
  <2>1. CASE h = height
    <3>1. bodies'[h] = body /\ hash_of(body[i]) \in hashes
      BY <1>5, <1>7, <2>1
    <3>2. tx_index'[hash_of(body[i])].height = height /\ hash_of(body[i]) \in DOMAIN tx_index'
      BY <1>8, <3>1
    <3> QED
      BY <1>3, <2>1, <3>1, <3>2
  <2>2. CASE h # height
    <3>1. h \in DOMAIN bodies /\ bodies'[h] = bodies[h]
      BY <1>5, <2>2
    <3>2. PICK hash : hash = hash_of(bodies[h][i])
      OBVIOUS
    <3>3. hash \in DOMAIN tx_index /\ h <= tx_index[hash].height
      BY <3>1, <3>2 DEF IndexInv, LocatedInv
    <3>4. h <= height
      BY <1>3, <1>6, <3>1
    <3>5. hash \in DOMAIN tx_index' /\ h <= tx_index'[hash].height
      BY <1>8, <3>3, <3>4
    <3> QED
      BY <3>1, <3>2, <3>5
  <2> QED
    BY <2>1, <2>2
<1> QED
  BY <1>4, <1>9, <1>10, <1>11 DEF IndexInv

LEMMA IndexStep == NonceInv /\ IndexInv /\ [ServicesNext]_service_vars => IndexInv'
<1> SUFFICES ASSUME NonceInv, IndexInv, [ServicesNext]_service_vars PROVE IndexInv'
  OBVIOUS
<1>1. CASE Produce
  BY <1>1, IndexProduce
<1>2. CASE Prune
  BY <1>2, IndexPrune
<1>3. CASE Subscribe
  BY <1>3, IndexFrame DEF Subscribe
<1>4. CASE \E id \in DOMAIN subs : Unsubscribe(id)
  BY <1>4, IndexFrame DEF Unsubscribe
<1>5. CASE \E to \in Recipients : WaitFinality(to)
  BY <1>5, IndexFrame DEF WaitFinality, submit_tx
<1>6. CASE Poll
  BY <1>6, IndexFrame DEF Poll, rpc_vars
<1>7. CASE \E to \in Recipients, ip \in IPs : Drip(to, ip)
  BY <1>7, IndexFrame DEF Drip, submit_tx, rpc_vars
<1>8. CASE \E to \in Recipients : DripHttp(to)
  BY <1>8, IndexFrame DEF DripHttp, rpc_vars
<1>9. CASE \E signed \in in_flight : HandleHttp(signed)
  BY <1>9, IndexFrame DEF HandleHttp, submit_tx
<1>10. CASE Return
  BY <1>10, IndexFrame DEF Return, rpc_vars
<1>11. CASE Tick
  BY <1>11, IndexFrame DEF Tick, rpc_vars
<1>12. CASE UNCHANGED service_vars
  BY <1>12, IndexFrame DEF service_vars, rpc_vars
<1> QED
  BY <1>1, <1>2, <1>3, <1>4, <1>5, <1>6, <1>7, <1>8, <1>9, <1>10, <1>11, <1>12
  DEF ServicesNext

\* A stored transaction's locator points into a body at least as recent, still stored.
LEMMA LocatorsFind == IndexInv => StoredTxsFound
<1> SUFFICES ASSUME IndexInv, NEW h \in DOMAIN bodies, NEW i \in DOMAIN bodies[h]
             PROVE  /\ get_tx_by_hash(hash_of(bodies[h][i])) # Nothing
                    /\ h <= tx_index[hash_of(bodies[h][i])].height
  BY DEF StoredTxsFound
<1>1. PICK hash : hash = hash_of(bodies[h][i])
  OBVIOUS
<1>2. PICK at : at = tx_index[hash]
  OBVIOUS
<1>3. hash \in DOMAIN tx_index /\ h <= at.height /\ at.height \in Nat /\ at.height <= Tip
  BY <1>1, <1>2 DEF IndexInv, LocatedInv, LocatorInv
<1>4. at.height \in DOMAIN bodies
  BY <1>3 DEF IndexInv, BodiesInv
<1>5. PICK body : body = bodies[at.height]
  OBVIOUS
<1>6. at.position \in DOMAIN body /\ hash_of(body[at.position]) = hash
  BY <1>2, <1>3, <1>4, <1>5 DEF IndexInv, LocatorInv
<1>7. body \in Seq(Transfers)
  BY <1>4, <1>5 DEF IndexInv, BodiesInv
<1>8. ~(at.position > Len(body)) /\ body[at.position] \in Transfers
  BY <1>6, <1>7
<1>9. get_tx_by_hash(hash) = body[at.position]
  BY <1>2, <1>3, <1>4, <1>5, <1>6, <1>8 DEF get_tx_by_hash
<1> QED
  BY <1>1, <1>2, <1>3, <1>8, <1>9, NothingAssumption

\* get_tx_by_hash finds something of the same height or a later one under the hash of
\* every stored transaction, whatever blocks were put and pruned since.
THEOREM StoredAreFound == ServicesSpec => []StoredTxsFound
<1> QED
  BY IndexInit, IndexStep, NonceInvariant, LocatorsFind, PTL DEF ServicesSpec

----------------------------------------------------------------------------
(* The faucet's quota.  Grants are kept as two sequences, whom they charge *)
(* and when, so that the argument is the same for addresses and for IPs.   *)

Keys == ({"a"} \X Recipients) \cup ({"ip"} \X IPs)

ByAddress(g) == [i \in DOMAIN g |-> <<"a", g[i].to>>]
ByIp(g) == [i \in DOMAIN g |-> <<"ip", g[i].ip>>]
Times(g) == [i \in DOMAIN g |-> g[i].at]

\* The grants that charged a key at one of some times.
Marks(who, at, key, S) == {i \in DOMAIN at : who[i] = key /\ at[i] \in S}

Hit(hs, key, t) == IF key \in DOMAIN hs THEN CountOf(hs[key], t) ELSE 0

HitsOK(hs) ==
    \A key \in DOMAIN hs :
        /\ IsFiniteSet(DOMAIN hs[key]) /\ DOMAIN hs[key] \subseteq Nat
        /\ \A t \in DOMAIN hs[key] : hs[key][t] \in Nat

PastOK(who, at, n, now) ==
    /\ n \in Nat /\ DOMAIN who = 1 .. n /\ DOMAIN at = 1 .. n
    /\ \A i \in 1 .. n : at[i] \in Nat /\ at[i] <= now

\* Within the window the limiter has counted at least the grants.
Charged(who, at, hs, now) ==
    \A key \in Keys : \A t \in 0 .. now :
        now - t < window => Cardinality(Marks(who, at, key, {t})) <= Hit(hs, key, t)

Quota(who, at) ==
    \A d \in DOMAIN at :
        Cardinality(Marks(who, at, who[d], at[d] .. at[d] + window - 1)) <= max_per_window

Grants == Seq([to : Recipients, ip : IPs, at : Nat])

QuotaOf(c, h, g) ==
    /\ c \in Nat /\ HitsOK(h) /\ g \in Grants /\ \A i \in DOMAIN g : g[i].at <= c
    /\ Charged(ByAddress(g), Times(g), h, c) /\ Charged(ByIp(g), Times(g), h, c)
    /\ Quota(ByAddress(g), Times(g)) /\ Quota(ByIp(g), Times(g))

QuotaInv == QuotaOf(clock, hits, granted)

\* Grants can be counted, and hits are numbers.
LEMMA MarksFinite ==
  ASSUME NEW who, NEW at, NEW n, NEW now, PastOK(who, at, n, now), NEW key, NEW S
  PROVE  IsFiniteSet(Marks(who, at, key, S)) /\ Cardinality(Marks(who, at, key, S)) \in Nat
<1>1. IsFiniteSet(1 .. n)
  BY FS_Interval DEF PastOK
<1>2. Marks(who, at, key, S) \subseteq 1 .. n
  BY DEF Marks, PastOK
<1> QED
  BY <1>1, <1>2, FS_Subset, FS_CardinalityType

LEMMA HitType ==
  ASSUME NEW hs, HitsOK(hs), NEW key, NEW t
  PROVE  Hit(hs, key, t) \in Nat
  BY DEF HitsOK, Hit, CountOf

\* A set whose members each fall on one key of a map is no larger than the map's sum
\* when no key has more of them than the map says.
LEMMA CountBound ==
  ASSUME NEW I, IsFiniteSet(I), NEW at,
         NEW m, IsFiniteSet(DOMAIN m), \A t \in DOMAIN m : m[t] \in Nat,
         \A i \in I : at[i] \in DOMAIN m,
         \A t \in DOMAIN m : Cardinality({i \in I : at[i] = t}) <= m[t]
  PROVE  Cardinality(I) <= SumOf(m, DOMAIN m)
<1> DEFINE D == DOMAIN m
           On(T) == {i \in I : at[i] \in T}
           P == {T \in SUBSET D : Cardinality(On(T)) <= SumOf(m, T)}
<1>1. {} \in P
  <2>1. On({}) = {}
    OBVIOUS
  <2> QED
    BY <2>1, SumEmpty, FS_EmptySet
<1>2. ASSUME NEW T \in SUBSET D, NEW x \in D, T \in P, x \notin T
      PROVE  T \cup {x} \in P
  <2> DEFINE A == On(T)
             B == {i \in I : at[i] = x}
  <2>1. On(T \cup {x}) = A \cup B /\ A \cap B = {}
    BY <1>2
  <2>2. IsFiniteSet(A) /\ IsFiniteSet(B)
    BY FS_Subset
  <2>3. Cardinality(A) <= SumOf(m, T) /\ Cardinality(B) <= m[x]
    BY <1>2
  <2>4. IsFiniteSet(T) /\ Numbers(m, T \cup {x}) /\ Numbers(m, T)
    BY FS_Subset DEF Numbers
  <2>5. SumOf(m, T \cup {x}) = m[x] + SumOf(m, T) /\ SumOf(m, T) \in Nat
    BY <1>2, <2>4, SumAdd, SumType
  <2>6. m[x] \in Nat
    OBVIOUS
  <2> HIDE DEF A, B
  <2>8. Cardinality(A \cup B) <= Cardinality(A) + Cardinality(B)
    BY <2>2, UnionCount
  <2>9. Cardinality(A) \in Nat /\ Cardinality(B) \in Nat /\ IsFiniteSet(A \cup B)
    BY <2>2, FS_CardinalityType, FS_Union
  <2>10. Cardinality(A \cup B) <= SumOf(m, T \cup {x})
    BY <2>3, <2>5, <2>6, <2>8, <2>9, FS_CardinalityType
  <2>11. Cardinality(On(T \cup {x})) <= SumOf(m, T \cup {x})
    BY <2>1, <2>10
  <2> QED
    BY <2>11
<1> HIDE DEF P
<1>3. D \in P
  BY <1>1, <1>2, FiniteInduction
<1>4. On(D) = I
  OBVIOUS
<1> QED
  BY <1>3, <1>4 DEF P

\* What admit makes of a key's hits.
LEMMA AdmitHits ==
  ASSUME NEW hs, HitsOK(hs), NEW key \in Keys, NEW now \in Nat,
         NEW kept, kept = recent(IF key \in DOMAIN hs THEN hs[key] ELSE <<>>, now)
  PROVE  /\ IsFiniteSet(DOMAIN kept) /\ DOMAIN kept \subseteq Nat
         /\ \A t \in DOMAIN kept : kept[t] \in Nat
         /\ \A t \in 0 .. now : now - t < window => CountOf(kept, t) = Hit(hs, key, t)
<1> DEFINE times == IF key \in DOMAIN hs THEN hs[key] ELSE <<>>
<1>1. /\ IsFiniteSet(DOMAIN times) /\ DOMAIN times \subseteq Nat
      /\ \A t \in DOMAIN times : times[t] \in Nat
  <2>1. DOMAIN <<>> = {}
    OBVIOUS
  <2> QED
    BY <2>1, FS_EmptySet DEF HitsOK
<1>2. \A t : CountOf(times, t) = Hit(hs, key, t)
  <2>1. DOMAIN <<>> = {}
    OBVIOUS
  <2> QED
    BY <2>1 DEF Hit, CountOf
<1> HIDE DEF times
<1>3. kept = recent(times, now)
  BY DEF times
<1>4. /\ DOMAIN kept = {t \in DOMAIN times : now - t < window}
      /\ \A t \in DOMAIN kept : kept[t] = times[t]
  BY <1>3 DEF recent, Restrict
<1>5. IsFiniteSet(DOMAIN kept)
  BY <1>1, <1>4, FS_Subset
<1>6. ASSUME NEW t \in 0 .. now, now - t < window PROVE CountOf(kept, t) = Hit(hs, key, t)
  <2>1. t \in DOMAIN kept <=> t \in DOMAIN times
    BY <1>4, <1>6
  <2>2. CountOf(kept, t) = CountOf(times, t)
    BY <1>4, <2>1 DEF CountOf
  <2> QED
    BY <1>2, <2>2
<1> QED
  BY <1>1, <1>4, <1>5, <1>6

\* admit keeps every count within the window and adds one to the key's if it lets it through.
LEMMA AdmitFacts ==
  ASSUME NEW hs, HitsOK(hs), NEW key \in Keys, NEW now \in Nat,
         NEW r, r = admit_key(hs, key, now)
  PROVE  /\ HitsOK(r.hits)
         /\ \A k \in Keys : \A t \in 0 .. now :
                now - t < window =>
                    /\ Hit(hs, k, t) <= Hit(r.hits, k, t)
                    /\ r.ok /\ k = key /\ t = now => Hit(hs, k, t) + 1 <= Hit(r.hits, k, t)
<1> DEFINE kept == recent(IF key \in DOMAIN hs THEN hs[key] ELSE <<>>, now)
           ok == SumOf(kept, DOMAIN kept) < max_per_window
           new == IF ok THEN Put(kept, now, CountOf(kept, now) + 1) ELSE kept
<1>1. r.ok = ok /\ r.hits = Put(hs, key, new)
  BY DEF admit_key
<1>2. /\ IsFiniteSet(DOMAIN kept) /\ DOMAIN kept \subseteq Nat
      /\ \A t \in DOMAIN kept : kept[t] \in Nat
      /\ \A t \in 0 .. now : now - t < window => CountOf(kept, t) = Hit(hs, key, t)
  BY AdmitHits
<1>3. r.ok => new = Put(kept, now, CountOf(kept, now) + 1)
  BY <1>1
<1>4. ~r.ok => new = kept
  BY <1>1
<1>5. r.hits = Put(hs, key, new)
  BY <1>1
<1> HIDE DEF kept, ok, new
<1>6. CountOf(kept, now) \in Nat
  BY <1>2 DEF CountOf
<1>7. /\ IsFiniteSet(DOMAIN new) /\ DOMAIN new \subseteq Nat
      /\ \A t \in DOMAIN new : new[t] \in Nat
  <2>1. CASE r.ok
    <3>1. DOMAIN new = DOMAIN kept \cup {now}
      BY <1>3, <2>1 DEF Put
    <3>2. \A t \in DOMAIN new : new[t] = IF t = now THEN CountOf(kept, now) + 1 ELSE kept[t]
      BY <1>3, <2>1 DEF Put
    <3>3. IsFiniteSet(DOMAIN new)
      BY <1>2, <3>1, FS_AddElement
    <3> QED
      BY <1>2, <1>6, <3>1, <3>2, <3>3
  <2>2. CASE ~r.ok
    BY <1>2, <1>4, <2>2
  <2> QED
    BY <2>1, <2>2
<1>8. /\ DOMAIN r.hits = DOMAIN hs \cup {key} /\ r.hits[key] = new
      /\ \A k \in DOMAIN hs : k # key => r.hits[k] = hs[k]
  BY <1>5 DEF Put
<1>9. HitsOK(r.hits)
  BY <1>7, <1>8 DEF HitsOK
<1>10. ASSUME NEW k \in Keys, NEW t \in 0 .. now, now - t < window
       PROVE  /\ Hit(hs, k, t) <= Hit(r.hits, k, t)
              /\ r.ok /\ k = key /\ t = now => Hit(hs, k, t) + 1 <= Hit(r.hits, k, t)
  <2>1. Hit(hs, k, t) \in Nat
    BY HitType
  <2>2. CASE k # key
    BY <1>8, <2>1, <2>2 DEF Hit
  <2>3. CASE k = key
    <3>1. Hit(r.hits, k, t) = CountOf(new, t) /\ CountOf(kept, t) = Hit(hs, k, t)
      BY <1>2, <1>8, <1>10, <2>3 DEF Hit
    <3>2. CASE r.ok /\ t = now
      <4>1. CountOf(new, t) = CountOf(kept, now) + 1
        BY <1>3, <3>2 DEF CountOf, Put
      <4> QED
        BY <2>1, <3>1, <3>2, <4>1
    <3>3. CASE r.ok /\ t # now
      <4>1. CountOf(new, t) = CountOf(kept, t)
        BY <1>3, <3>3 DEF CountOf, Put
      <4> QED
        BY <2>1, <3>1, <3>3, <4>1
    <3>4. CASE ~r.ok
      BY <1>4, <2>1, <3>1, <3>4
    <3> QED
      BY <3>2, <3>3, <3>4
  <2> QED
    BY <2>2, <2>3
<1> QED
  BY <1>9, <1>10

\* What admit lets through has room left in every window that ends now.
LEMMA AdmitBound ==
  ASSUME NEW who, NEW at, NEW n, NEW now \in Nat, PastOK(who, at, n, now),
         NEW hs, HitsOK(hs), Charged(who, at, hs, now), NEW key \in Keys,
         admit_key(hs, key, now).ok, NEW a \in Nat, now - a < window
  PROVE  Cardinality(Marks(who, at, key, a .. now)) < max_per_window
<1> DEFINE kept == recent(IF key \in DOMAIN hs THEN hs[key] ELSE <<>>, now)
           I == Marks(who, at, key, a .. now)
<1>1. SumOf(kept, DOMAIN kept) < max_per_window
  BY DEF admit_key
<1>2. /\ IsFiniteSet(DOMAIN kept) /\ DOMAIN kept \subseteq Nat
      /\ \A t \in DOMAIN kept : kept[t] \in Nat
      /\ \A t \in 0 .. now : now - t < window => CountOf(kept, t) = Hit(hs, key, t)
  BY AdmitHits
<1> HIDE DEF kept
<1>3. IsFiniteSet(I) /\ Cardinality(I) \in Nat
  BY MarksFinite
<1>4. window \in Nat /\ max_per_window \in Nat
  BY ServicesAssumption
<1>5. ASSUME NEW t \in Nat
      PROVE  /\ IsFiniteSet({i \in I : at[i] = t})
             /\ Cardinality({i \in I : at[i] = t}) <= CountOf(kept, t)
  <2>0. IsFiniteSet({i \in I : at[i] = t})
    BY <1>3, FS_Subset
  <2>1. CountOf(kept, t) \in Nat
    BY <1>2 DEF CountOf
  <2>2. CASE t \in a .. now
    <3>1. t \in 0 .. now /\ now - t < window
      BY <1>4, <2>2
    <3>2. {i \in I : at[i] = t} = Marks(who, at, key, {t})
      BY <2>2 DEF Marks
    <3>3. Cardinality(Marks(who, at, key, {t})) <= Hit(hs, key, t)
      BY <3>1 DEF Charged
    <3> QED
      BY <1>2, <2>0, <3>1, <3>2, <3>3
  <2>3. CASE t \notin a .. now
    <3>1. {i \in I : at[i] = t} = {}
      BY <2>3 DEF Marks
    <3> QED
      BY <2>0, <2>1, <3>1, FS_EmptySet
  <2> QED
    BY <2>2, <2>3
<1>6. \A i \in I : at[i] \in Nat
  BY DEF Marks, PastOK
<1>7. ASSUME NEW i \in I PROVE at[i] \in DOMAIN kept
  <2> SUFFICES ASSUME at[i] \notin DOMAIN kept PROVE FALSE
    OBVIOUS
  <2>1. PICK t \in Nat : t = at[i]
    BY <1>6
  <2> DEFINE J == {j \in I : at[j] = t}
  <2>2. IsFiniteSet(J) /\ Cardinality(J) <= 0
    BY <1>5, <2>1 DEF CountOf
  <2>3. i \in J
    BY <2>1
  <2> HIDE DEF J
  <2>4. Cardinality(J) \in Nat /\ Cardinality(J) # 0
    BY <2>2, <2>3, FS_CardinalityType, FS_EmptySet
  <2> QED
    BY <2>2, <2>4
<1>8. \A t \in DOMAIN kept : Cardinality({i \in I : at[i] = t}) <= kept[t]
  BY <1>2, <1>5 DEF CountOf
<1> HIDE DEF I
<1>9. Cardinality(I) <= SumOf(kept, DOMAIN kept)
  BY <1>2, <1>3, <1>7, <1>8, CountBound
<1>10. SumOf(kept, DOMAIN kept) \in Nat
  BY <1>2, SumType DEF Numbers
<1>11. Cardinality(I) < max_per_window
  BY <1>1, <1>3, <1>4, <1>9, <1>10
<1> QED
  BY <1>11 DEF I

\* Counts that only grow still cover the grants.
LEMMA ChargedGrows ==
  ASSUME NEW who, NEW at, NEW n, NEW now \in Nat, PastOK(who, at, n, now),
         NEW hs, NEW new, HitsOK(hs), HitsOK(new), Charged(who, at, hs, now),
         \A k \in Keys : \A t \in 0 .. now :
             now - t < window => Hit(hs, k, t) <= Hit(new, k, t)
  PROVE  Charged(who, at, new, now)
<1> SUFFICES ASSUME NEW key \in Keys, NEW t \in 0 .. now, now - t < window
             PROVE  Cardinality(Marks(who, at, key, {t})) <= Hit(new, key, t)
  BY DEF Charged
<1>1. Cardinality(Marks(who, at, key, {t})) <= Hit(hs, key, t)
  BY DEF Charged
<1>2. Hit(hs, key, t) <= Hit(new, key, t)
  OBVIOUS
<1>3. Cardinality(Marks(who, at, key, {t})) \in Nat
  BY MarksFinite
<1>4. Hit(hs, key, t) \in Nat /\ Hit(new, key, t) \in Nat
  BY HitType
<1> QED
  BY <1>1, <1>2, <1>3, <1>4

\* One more grant, charged and within the quota.
LEMMA GrantKeeps ==
  ASSUME NEW who, NEW at, NEW n, NEW now \in Nat, PastOK(who, at, n, now),
         NEW who2, NEW at2, NEW key \in Keys,
         DOMAIN who2 = 1 .. n + 1, DOMAIN at2 = 1 .. n + 1,
         \A i \in 1 .. n : who2[i] = who[i] /\ at2[i] = at[i],
         who2[n + 1] = key, at2[n + 1] = now,
         NEW hs, NEW new, HitsOK(hs), HitsOK(new),
         Charged(who, at, hs, now), Quota(who, at),
         \A k \in Keys : \A t \in 0 .. now :
             now - t < window =>
                 /\ Hit(hs, k, t) <= Hit(new, k, t)
                 /\ k = key /\ t = now => Hit(hs, k, t) + 1 <= Hit(new, k, t),
         \A a \in Nat : now - a < window =>
             Cardinality(Marks(who, at, key, a .. now)) < max_per_window
  PROVE  Charged(who2, at2, new, now) /\ Quota(who2, at2)
<1>0. n \in Nat /\ window \in Nat /\ max_per_window \in Nat
  BY ServicesAssumption DEF PastOK
<1>1. \A i \in 1 .. n + 1 : i \in 1 .. n \/ i = n + 1
  BY <1>0
<1>2. n + 1 \in 1 .. n + 1 /\ n + 1 \notin 1 .. n /\ \A i \in 1 .. n : i \in 1 .. n + 1
  BY <1>0
<1>3. DOMAIN who = 1 .. n /\ DOMAIN at = 1 .. n /\ \A i \in 1 .. n : at[i] \in Nat /\ at[i] <= now
  BY DEF PastOK
<1>4. ASSUME NEW k, NEW S, k # key \/ now \notin S
      PROVE  Marks(who2, at2, k, S) = Marks(who, at, k, S)
  BY <1>1, <1>2, <1>3, <1>4 DEF Marks
<1>5. ASSUME NEW S
      PROVE  /\ IsFiniteSet(Marks(who2, at2, key, S))
             /\ Cardinality(Marks(who2, at2, key, S)) <= Cardinality(Marks(who, at, key, S)) + 1
  <2> DEFINE M == Marks(who, at, key, S)
  <2>1. IsFiniteSet(M) /\ Cardinality(M) \in Nat
    BY MarksFinite
  <2>2. Marks(who2, at2, key, S) \subseteq M \cup {n + 1}
    BY <1>1, <1>2, <1>3 DEF Marks
  <2> HIDE DEF M
  <2>3. IsFiniteSet(M \cup {n + 1}) /\ Cardinality(M \cup {n + 1}) <= Cardinality(M) + 1
    BY <2>1, AddOne
  <2>4. /\ IsFiniteSet(Marks(who2, at2, key, S))
        /\ Cardinality(Marks(who2, at2, key, S)) <= Cardinality(M \cup {n + 1})
    BY <2>2, <2>3, FS_Subset
  <2>5. Cardinality(M \cup {n + 1}) \in Nat /\ Cardinality(Marks(who2, at2, key, S)) \in Nat
    BY <2>3, <2>4, FS_CardinalityType
  <2>6. Cardinality(Marks(who2, at2, key, S)) <= Cardinality(M) + 1
    BY <2>1, <2>3, <2>4, <2>5
  <2> QED
    BY <2>4, <2>6 DEF M
<1>6. Charged(who2, at2, new, now)
  <2> SUFFICES ASSUME NEW k \in Keys, NEW t \in 0 .. now, now - t < window
               PROVE  Cardinality(Marks(who2, at2, k, {t})) <= Hit(new, k, t)
    BY DEF Charged
  <2>1. Cardinality(Marks(who, at, k, {t})) <= Hit(hs, k, t)
    BY DEF Charged
  <2>2. Hit(hs, k, t) \in Nat /\ Hit(new, k, t) \in Nat
    BY HitType
  <2>3. Cardinality(Marks(who, at, k, {t})) \in Nat
    BY MarksFinite
  <2>4. CASE k = key /\ t = now
    <3>1. Cardinality(Marks(who2, at2, k, {t})) <= Cardinality(Marks(who, at, k, {t})) + 1
      BY <1>5, <2>4
    <3>2. Hit(hs, k, t) + 1 <= Hit(new, k, t)
      BY <2>4
    <3>3. Cardinality(Marks(who2, at2, k, {t})) \in Nat
      BY <1>5, <2>4, FS_CardinalityType
    <3> QED
      BY <2>1, <2>2, <2>3, <3>1, <3>2, <3>3
  <2>5. CASE k # key \/ t # now
    <3>1. Marks(who2, at2, k, {t}) = Marks(who, at, k, {t})
      BY <1>4, <2>5
    <3>2. Hit(hs, k, t) <= Hit(new, k, t)
      OBVIOUS
    <3> QED
      BY <2>1, <2>2, <2>3, <3>1, <3>2
  <2> QED
    BY <2>4, <2>5
<1>7. Quota(who2, at2)
  <2> SUFFICES ASSUME NEW d \in 1 .. n + 1
               PROVE  Cardinality(Marks(who2, at2, who2[d], at2[d] .. at2[d] + window - 1))
                        <= max_per_window
    BY DEF Quota
  <2>1. PICK a : a = at2[d]
    OBVIOUS
  <2>2. a \in Nat /\ a <= now
    BY <1>1, <1>3, <2>1
  <2> DEFINE S == a .. a + window - 1
  <2>3. CASE who2[d] = key /\ now \in S
    <3>1. now - a < window
      BY <1>0, <2>2, <2>3
    <3>2. Marks(who, at, key, S) = Marks(who, at, key, a .. now)
      BY <1>0, <1>3, <2>2, <3>1 DEF Marks
    <3>3. Cardinality(Marks(who, at, key, S)) < max_per_window
      BY <2>2, <3>1, <3>2
    <3>4. Cardinality(Marks(who, at, key, S)) \in Nat
      BY MarksFinite
    <3>5. /\ Cardinality(Marks(who2, at2, key, S)) <= Cardinality(Marks(who, at, key, S)) + 1
          /\ Cardinality(Marks(who2, at2, key, S)) \in Nat
      BY <1>5, FS_CardinalityType
    <3> HIDE DEF S
    <3>6. Cardinality(Marks(who2, at2, key, S)) <= max_per_window
      BY <1>0, <3>3, <3>4, <3>5
    <3> QED
      BY <2>1, <2>3, <3>6 DEF S
  <2>4. CASE ~(who2[d] = key /\ now \in S)
    <3>1. Marks(who2, at2, who2[d], S) = Marks(who, at, who2[d], S)
      <4> HIDE DEF S
      <4> QED
        BY <1>4, <2>4
    <3>2. CASE d \in 1 .. n
      BY <1>3, <2>1, <3>1, <3>2 DEF Quota
    <3>3. CASE d = n + 1
      <4>1. who2[d] = key /\ a = now
        BY <2>1, <3>3
      <4>2. S = {}
        BY <1>0, <2>2, <2>4, <4>1
      <4>3. Marks(who2, at2, who2[d], S) = {}
        BY <4>2 DEF Marks
      <4>4. Cardinality(Marks(who2, at2, who2[d], S)) = 0
        BY <4>3, FS_EmptySet
      <4>5. 0 <= max_per_window
        BY <1>0
      <4> QED
        BY <2>1, <4>4, <4>5
    <3> QED
      BY <1>1, <3>2, <3>3
  <2> QED
    BY <2>3, <2>4
<1> QED
  BY <1>6, <1>7

LEMMA GrantTimes ==
  ASSUME NEW g \in Grants
  PROVE  DOMAIN g = 1 .. Len(g) /\ Len(g) \in Nat /\ \A i \in 1 .. Len(g) : g[i].at \in Nat
<1> DEFINE R == [to : Recipients, ip : IPs, at : Nat]
<1>1. \A r \in R : r.at \in Nat
  OBVIOUS
<1>2. g \in Seq(R)
  BY DEF Grants
<1> HIDE DEF R
<1>3. DOMAIN g = 1 .. Len(g) /\ Len(g) \in Nat /\ \A i \in 1 .. Len(g) : g[i] \in R
  BY <1>2
<1> QED
  BY <1>1, <1>3

\* Both views of the grants are histories up to now.
LEMMA GrantViews ==
  ASSUME NEW g \in Grants, NEW now, \A i \in DOMAIN g : g[i].at <= now
  PROVE  PastOK(ByAddress(g), Times(g), Len(g), now) /\ PastOK(ByIp(g), Times(g), Len(g), now)
<1>1. DOMAIN g = 1 .. Len(g) /\ Len(g) \in Nat /\ \A i \in 1 .. Len(g) : g[i].at \in Nat
  BY GrantTimes
<1> QED
  BY <1>1 DEF PastOK, ByAddress, ByIp, Times

LEMMA QuotaInit == ServicesInit => QuotaInv
<1> SUFFICES ASSUME ServicesInit PROVE QuotaInv
  OBVIOUS
<1>1. clock = 0 /\ hits = <<>> /\ granted = <<>>
  BY DEF ServicesInit
<1>2. DOMAIN <<>> = {}
  OBVIOUS
<1>3. HitsOK(hits)
  BY <1>1, <1>2 DEF HitsOK
<1>4. DOMAIN Times(granted) = {}
  BY <1>1, <1>2 DEF Times
<1>5. \A who : Charged(who, Times(granted), hits, clock) /\ Quota(who, Times(granted))
  <2>1. \A who, key, S : Marks(who, Times(granted), key, S) = {}
    BY <1>4 DEF Marks
  <2>2. \A key, t : Hit(hits, key, t) \in Nat
    BY <1>3, HitType
  <2>3. Cardinality({}) = 0 /\ \A k \in Nat : 0 <= k
    BY FS_EmptySet
  <2> QED
    BY <1>4, <2>1, <2>2, <2>3 DEF Charged, Quota
<1> QED
  BY <1>1, <1>2, <1>3, <1>5 DEF QuotaInv, QuotaOf, Grants

LEMMA QuotaFrame ==
  ASSUME QuotaInv, UNCHANGED <<clock, hits, granted>>
  PROVE  QuotaInv'
  BY DEF QuotaInv

\* As time passes the window lets go of old grants only.
LEMMA QuotaTick == QuotaInv /\ Tick => QuotaInv'
<1> SUFFICES ASSUME QuotaInv, Tick PROVE QuotaInv'
  OBVIOUS
<1>1. PICK c, h, g : c = clock /\ h = hits /\ g = granted
  OBVIOUS
<1>2. clock' = c + 1 /\ hits' = h /\ granted' = g
  BY <1>1 DEF Tick
<1>3. /\ c \in Nat /\ HitsOK(h) /\ g \in Grants /\ \A i \in DOMAIN g : g[i].at <= c
      /\ Charged(ByAddress(g), Times(g), h, c) /\ Charged(ByIp(g), Times(g), h, c)
      /\ Quota(ByAddress(g), Times(g)) /\ Quota(ByIp(g), Times(g))
  BY <1>1 DEF QuotaInv, QuotaOf
<1>4. \A i \in DOMAIN g : g[i].at <= c + 1
  <2>1. \A i \in DOMAIN g : g[i].at \in Nat
    BY <1>3, GrantTimes
  <2> QED
    BY <1>3, <2>1
<1>5. ASSUME NEW who, PastOK(who, Times(g), Len(g), c), Charged(who, Times(g), h, c)
      PROVE  Charged(who, Times(g), h, c + 1)
  <2> SUFFICES ASSUME NEW key \in Keys, NEW t \in 0 .. c + 1, (c + 1) - t < window
               PROVE  Cardinality(Marks(who, Times(g), key, {t})) <= Hit(h, key, t)
    BY DEF Charged
  <2>1. CASE t = c + 1
    <3>1. Marks(who, Times(g), key, {t}) = {}
      BY <1>3, <1>5, <2>1 DEF Marks, PastOK
    <3>2. Cardinality(Marks(who, Times(g), key, {t})) = 0
      BY <3>1, FS_EmptySet
    <3>3. Hit(h, key, t) \in Nat
      BY <1>3, HitType
    <3> QED
      BY <3>2, <3>3
  <2>2. CASE t # c + 1
    <3>1. t \in 0 .. c /\ c - t < window
      BY <1>3, <2>2, ServicesAssumption
    <3> QED
      BY <1>5, <3>1 DEF Charged
  <2> QED
    BY <2>1, <2>2
<1>6. PastOK(ByAddress(g), Times(g), Len(g), c) /\ PastOK(ByIp(g), Times(g), Len(g), c)
  BY <1>3, GrantViews
<1>7. Charged(ByAddress(g), Times(g), h, c + 1) /\ Charged(ByIp(g), Times(g), h, c + 1)
  BY <1>3, <1>5, <1>6
<1>8. c + 1 \in Nat
  BY <1>3
<1>9. QuotaOf(c + 1, h, g)
  BY <1>3, <1>4, <1>7, <1>8 DEF QuotaOf
<1> QED
  BY <1>2, <1>9 DEF QuotaInv

\* A drip, with its hits before, after the address was charged, and after the IP was.
LEMMA QuotaDrip ==
  ASSUME QuotaInv, NEW to \in Recipients, NEW ip \in IPs, Drip(to, ip)
  PROVE  QuotaInv'
<1>1. PICK c, h, g : c = clock /\ h = hits /\ g = granted
  OBVIOUS
<1>2. /\ c \in Nat /\ HitsOK(h) /\ g \in Grants /\ \A i \in DOMAIN g : g[i].at <= c
      /\ Charged(ByAddress(g), Times(g), h, c) /\ Charged(ByIp(g), Times(g), h, c)
      /\ Quota(ByAddress(g), Times(g)) /\ Quota(ByIp(g), Times(g))
  BY <1>1 DEF QuotaInv, QuotaOf
<1>3. PICK a : a = admit_key(h, <<"a", to>>, c)
  OBVIOUS
<1>4. PICK b : b = admit_key(a.hits, <<"ip", ip>>, c)
  OBVIOUS
<1>5. /\ clock' = c
      /\ hits' = IF a.ok THEN b.hits ELSE a.hits
      /\ \/ granted' = g
         \/ a.ok /\ b.ok /\ granted' = Append(g, [to |-> to, ip |-> ip, at |-> c])
  BY <1>1, <1>3, <1>4 DEF Drip, Pay
<1>6. <<"a", to>> \in Keys /\ <<"ip", ip>> \in Keys /\ <<"a", to>> # <<"ip", ip>>
  BY DEF Keys
<1>7. /\ HitsOK(a.hits)
      /\ \A k \in Keys : \A t \in 0 .. c :
             c - t < window =>
                 /\ Hit(h, k, t) <= Hit(a.hits, k, t)
                 /\ a.ok /\ k = <<"a", to>> /\ t = c => Hit(h, k, t) + 1 <= Hit(a.hits, k, t)
  BY <1>2, <1>3, <1>6, AdmitFacts
<1>8. /\ HitsOK(b.hits)
      /\ \A k \in Keys : \A t \in 0 .. c :
             c - t < window =>
                 /\ Hit(a.hits, k, t) <= Hit(b.hits, k, t)
                 /\ b.ok /\ k = <<"ip", ip>> /\ t = c =>
                        Hit(a.hits, k, t) + 1 <= Hit(b.hits, k, t)
  BY <1>2, <1>4, <1>6, <1>7, AdmitFacts
<1>9. PastOK(ByAddress(g), Times(g), Len(g), c) /\ PastOK(ByIp(g), Times(g), Len(g), c)
  BY <1>2, GrantViews
<1>10. Charged(ByAddress(g), Times(g), a.hits, c) /\ Charged(ByIp(g), Times(g), a.hits, c)
  BY <1>2, <1>7, <1>9, ChargedGrows
<1>11. Charged(ByAddress(g), Times(g), b.hits, c) /\ Charged(ByIp(g), Times(g), b.hits, c)
  BY <1>2, <1>7, <1>8, <1>9, <1>10, ChargedGrows
<1>12. CASE granted' = g
  <2>1. QuotaOf(c, IF a.ok THEN b.hits ELSE a.hits, g)
    BY <1>2, <1>7, <1>8, <1>10, <1>11 DEF QuotaOf
  <2> QED
    BY <1>5, <1>12, <2>1 DEF QuotaInv
<1>13. CASE a.ok /\ b.ok /\ granted' = Append(g, [to |-> to, ip |-> ip, at |-> c])
  <2> DEFINE n == Len(g)
  <2>1. PICK new : new = Append(g, [to |-> to, ip |-> ip, at |-> c])
    OBVIOUS
  <2>2. n \in Nat /\ DOMAIN g = 1 .. n
    BY <1>2 DEF Grants
  <2>3. /\ new \in Grants /\ DOMAIN new = 1 .. n + 1
        /\ \A i \in 1 .. n : new[i] = g[i]
        /\ new[n + 1] = [to |-> to, ip |-> ip, at |-> c]
    BY <1>2, <2>1 DEF Grants
  <2> HIDE DEF n
  <2>4. \A i \in 1 .. n + 1 : i \in 1 .. n \/ i = n + 1
    BY <2>2
  <2>5. n + 1 \in 1 .. n + 1 /\ \A i \in 1 .. n : i \in 1 .. n + 1
    BY <2>2
  <2>6. \A i \in DOMAIN new : new[i].at <= c
    BY <1>2, <2>2, <2>3, <2>4
  <2>7. /\ DOMAIN Times(new) = 1 .. n + 1 /\ Times(new)[n + 1] = c
        /\ \A i \in 1 .. n : Times(new)[i] = Times(g)[i]
    BY <2>2, <2>3, <2>5 DEF Times
  <2>8. Charged(ByAddress(new), Times(new), b.hits, c) /\ Quota(ByAddress(new), Times(new))
    <3>1. /\ DOMAIN ByAddress(new) = 1 .. n + 1 /\ ByAddress(new)[n + 1] = <<"a", to>>
          /\ \A i \in 1 .. n : ByAddress(new)[i] = ByAddress(g)[i]
      BY <2>2, <2>3, <2>5 DEF ByAddress
    <3>2. \A k \in Nat : c - k < window =>
              Cardinality(Marks(ByAddress(g), Times(g), <<"a", to>>, k .. c)) < max_per_window
      BY <1>2, <1>3, <1>6, <1>9, <1>13, AdmitBound
    <3>3. ASSUME NEW k \in Keys, NEW t \in 0 .. c, c - t < window
          PROVE  /\ Hit(h, k, t) <= Hit(b.hits, k, t)
                 /\ k = <<"a", to>> /\ t = c => Hit(h, k, t) + 1 <= Hit(b.hits, k, t)
      <4>1. Hit(h, k, t) \in Nat /\ Hit(a.hits, k, t) \in Nat /\ Hit(b.hits, k, t) \in Nat
        BY <1>2, <1>7, <1>8, HitType
      <4>2. Hit(h, k, t) <= Hit(a.hits, k, t) /\ Hit(a.hits, k, t) <= Hit(b.hits, k, t)
        BY <1>7, <1>8, <3>3
      <4>3. k = <<"a", to>> /\ t = c => Hit(h, k, t) + 1 <= Hit(a.hits, k, t)
        BY <1>7, <1>13, <3>3
      <4> QED
        BY <4>1, <4>2, <4>3
    <3>4. PastOK(ByAddress(g), Times(g), n, c)
      BY <1>9 DEF n
    <3> QED
      BY <1>2, <1>6, <1>8, <2>7, <3>1, <3>2, <3>3, <3>4, GrantKeeps
  <2>9. Charged(ByIp(new), Times(new), b.hits, c) /\ Quota(ByIp(new), Times(new))
    <3>1. /\ DOMAIN ByIp(new) = 1 .. n + 1 /\ ByIp(new)[n + 1] = <<"ip", ip>>
          /\ \A i \in 1 .. n : ByIp(new)[i] = ByIp(g)[i]
      BY <2>2, <2>3, <2>5 DEF ByIp
    <3>2. \A k \in Nat : c - k < window =>
              Cardinality(Marks(ByIp(g), Times(g), <<"ip", ip>>, k .. c)) < max_per_window
      BY <1>2, <1>4, <1>6, <1>7, <1>9, <1>10, <1>13, AdmitBound
    <3>3. PastOK(ByIp(g), Times(g), n, c)
      BY <1>9 DEF n
    <3>4. \A k \in Keys : \A t \in 0 .. c :
             c - t < window =>
                 /\ Hit(a.hits, k, t) <= Hit(b.hits, k, t)
                 /\ k = <<"ip", ip>> /\ t = c => Hit(a.hits, k, t) + 1 <= Hit(b.hits, k, t)
      BY <1>8, <1>13
    <3> QED
      BY <1>2, <1>6, <1>7, <1>8, <1>10, <2>7, <3>1, <3>2, <3>3, <3>4, GrantKeeps
  <2>10. QuotaOf(c, b.hits, new)
    BY <1>2, <1>8, <2>3, <2>6, <2>8, <2>9 DEF QuotaOf
  <2> QED
    BY <1>5, <1>13, <2>1, <2>10 DEF QuotaInv
<1> QED
  BY <1>5, <1>12, <1>13

LEMMA QuotaStep == QuotaInv /\ [ServicesNext]_service_vars => QuotaInv'
<1> SUFFICES ASSUME QuotaInv, [ServicesNext]_service_vars PROVE QuotaInv'
  OBVIOUS
<1>1. CASE Produce
  BY <1>1, QuotaFrame DEF Produce, client_vars
<1>2. CASE Prune
  BY <1>2, QuotaFrame DEF Prune, client_vars
<1>3. CASE Subscribe
  BY <1>3, QuotaFrame DEF Subscribe, client_vars
<1>4. CASE \E id \in DOMAIN subs : Unsubscribe(id)
  BY <1>4, QuotaFrame DEF Unsubscribe, client_vars
<1>5. CASE \E to \in Recipients : WaitFinality(to)
  BY <1>5, QuotaFrame DEF WaitFinality
<1>6. CASE Poll
  BY <1>6, QuotaFrame DEF Poll
<1>7. CASE \E to \in Recipients, ip \in IPs : Drip(to, ip)
  BY <1>7, QuotaDrip
<1>8. CASE \E to \in Recipients : DripHttp(to)
  BY <1>8, QuotaFrame DEF DripHttp
<1>9. CASE \E signed \in in_flight : HandleHttp(signed)
  BY <1>9, QuotaFrame DEF HandleHttp
<1>10. CASE Return
  BY <1>10, QuotaFrame DEF Return
<1>11. CASE Tick
  BY <1>11, QuotaTick
<1>12. CASE UNCHANGED service_vars
  BY <1>12, QuotaFrame DEF service_vars, client_vars
<1> QED
  BY <1>1, <1>2, <1>3, <1>4, <1>5, <1>6, <1>7, <1>8, <1>9, <1>10, <1>11, <1>12
  DEF ServicesNext

LEMMA QuotaIsMet == QuotaInv => DripQuota
<1> SUFFICES ASSUME QuotaInv, NEW d \in Range(granted)
             PROVE  LET inside == {i \in DOMAIN granted :
                                       granted[i].at \in d.at .. d.at + window - 1}
                    IN  /\ Cardinality({i \in inside : granted[i].to = d.to}) <= max_per_window
                        /\ Cardinality({i \in inside : granted[i].ip = d.ip}) <= max_per_window
  BY DEF DripQuota
<1>1. PICK g : g = granted
  OBVIOUS
<1>2. PICK j \in DOMAIN g : d = g[j]
  BY <1>1 DEF Range
<1> DEFINE S == d.at .. d.at + window - 1
           inside == {i \in DOMAIN g : g[i].at \in S}
<1>3. Quota(ByAddress(g), Times(g)) /\ Quota(ByIp(g), Times(g))
  BY <1>1 DEF QuotaInv, QuotaOf
<1>4. DOMAIN Times(g) = DOMAIN g /\ \A i \in DOMAIN g : Times(g)[i] = g[i].at
  BY DEF Times
<1>5. \A i \in DOMAIN g : ByAddress(g)[i] = <<"a", g[i].to>> /\ ByIp(g)[i] = <<"ip", g[i].ip>>
  BY DEF ByAddress, ByIp
<1>6. /\ Cardinality(Marks(ByAddress(g), Times(g), ByAddress(g)[j], S)) <= max_per_window
      /\ Cardinality(Marks(ByIp(g), Times(g), ByIp(g)[j], S)) <= max_per_window
  BY <1>2, <1>3, <1>4 DEF Quota
<1> HIDE DEF S
<1>7. Marks(ByAddress(g), Times(g), ByAddress(g)[j], S) = {i \in inside : g[i].to = d.to}
  BY <1>2, <1>4, <1>5 DEF Marks
<1>8. Marks(ByIp(g), Times(g), ByIp(g)[j], S) = {i \in inside : g[i].ip = d.ip}
  BY <1>2, <1>4, <1>5 DEF Marks
<1> QED
  BY <1>1, <1>6, <1>7, <1>8 DEF S

\* No address and no IP is paid more than max_per_window times in any stretch of one
\* window: the sliding window of admit never lets more through.
THEOREM DripsAreRationed == ServicesSpec => []DripQuota
<1> QED
  BY QuotaInit, QuotaStep, QuotaIsMet, PTL DEF ServicesSpec
=============================================================================
