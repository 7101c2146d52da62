-------------------------- MODULE ExecutionProofs ---------------------------
(***************************************************************************)
(* The `execution` crate, for any accounts, blocks, parameters and orders  *)
(* of threads: first the staking book of Ledger (types, bonds, tombstones, *)
(* the unbonding period, the conservation of tokens), then the parallel    *)
(* engine of BlockStm, which commits what sequential execution gives.      *)
(*                                                                         *)
(* The argument for the engine: what a transaction does is determined by   *)
(* the accounts it names, and by the staking state if it stakes; every     *)
(* commit that changes one of those gives its key a new version; so a      *)
(* speculation whose keys have their versions still is what an execution   *)
(* now would give.                                                         *)
(***************************************************************************)
EXTENDS Ledger, BlockStm, BaseProofs

----------------------------------------------------------------------------
(* The inductive invariant.                                                *)

Entry == [owner : Accounts, validator : Ids, amount : Nat, unlock_height : Nat]

\* The types that LedgerTypeOK leaves out.
HistoryTypeOK ==
    /\ next_unbond \in Nat
    /\ \A k \in DOMAIN pending_unbond : pending_unbond[k] \in Entry
    /\ height \in Heights
    /\ burnt \in Nat
    /\ signalled \in [Accounts -> [Heights -> Nat]]
    /\ paid \in [Accounts -> Nat]

\* The owner's entries that are unlocked at height t.
Due(a, t) ==
    {k \in DOMAIN pending_unbond : /\ pending_unbond[k].owner = a
                                   /\ pending_unbond[k].unlock_height <= t}

SignalledBy(t) == {h \in Heights : h + Period <= t}

\* At any height from now on, what an account was paid and what it could then
\* withdraw is what it signalled a period before.
Settled ==
    \A a \in Accounts, t \in Heights :
        t >= height => paid[a] + SumOf(amounts, Due(a, t)) = SumOf(signalled[a], SignalledBy(t))

LedgerInv ==
    /\ LedgerTypeOK
    /\ HistoryTypeOK
    /\ NoDustBond
    /\ Settled

----------------------------------------------------------------------------
(* Numbers and sums.                                                       *)

LEMMA MinOfTwo ==
  ASSUME NEW a \in Int, NEW b \in Int
  PROVE  Min({a, b}) = IF a <= b THEN a ELSE b
<1> DEFINE m == IF a <= b THEN a ELSE b
<1>1. m \in {a, b} /\ \A y \in {a, b} : m <= y
  OBVIOUS
<1>2. ASSUME NEW x \in {a, b}, \A y \in {a, b} : x <= y
      PROVE  x = m
  BY <1>2
<1> HIDE DEF m
<1>3. (CHOOSE x \in {a, b} : \A y \in {a, b} : x <= y) = m
  BY <1>1, <1>2
<1> QED
  BY <1>3 DEF Min, m

\* A part in a hundred is no more than the whole.
LEMMA PercentIsPart ==
  ASSUME NEW b \in Nat, NEW p \in 0 .. 100
  PROVE  (b * p) \div 100 \in 0 .. b
<1>1. b * p \in Nat /\ b * p <= b * 100
  <2>1. b * p \in Nat /\ b * (100 - p) \in Nat
    BY SMT
  <2>2. b * 100 = b * p + b * (100 - p)
    BY SMT
  <2> QED
    BY <2>1, <2>2
<1> DEFINE x == b * p
<1>2. x \in Nat /\ x <= b * 100
  BY <1>1
<1> HIDE DEF x
<1>3. x \div 100 \in 0 .. b
  BY <1>2
<1> QED
  BY <1>3 DEF x

LEMMA SumOverType ==
  ASSUME NEW S, IsFiniteSet(S), NEW f \in [S -> Nat]
  PROVE  SumOver(f) \in Nat /\ Numbers(f, S) /\ SumOver(f) = SumOf(f, S)
<1>1. Numbers(f, S) /\ DOMAIN f = S
  BY DEF Numbers
<1> QED
  BY <1>1, SumType DEF SumOver

\* One value changes.
LEMMA SumOverChange ==
  ASSUME NEW S, IsFiniteSet(S), NEW f \in [S -> Nat], NEW h \in [S -> Nat], NEW x \in S,
         \A y \in S \ {x} : h[y] = f[y]
  PROVE  SumOver(h) + f[x] = SumOver(f) + h[x] /\ f[x] <= SumOver(f)
<1>1. SumOver(f) = SumOf(f, S) /\ SumOver(h) = SumOf(h, S) /\ Numbers(f, S) /\ h[x] \in Nat
  BY SumOverType
<1>2. SumOf(h, S) + f[x] = SumOf(f, S) + h[x]
  BY <1>1, SumUpdate
<1>3. f[x] <= SumOf(f, S)
  <2>1. SumOf(f, S) = f[x] + SumOf(f, S \ {x})
    BY <1>1, SumRemove
  <2>2. SumOf(f, S \ {x}) \in Nat /\ f[x] \in Nat
    BY <1>1, SumType, FS_Subset DEF Numbers
  <2> QED
    BY <2>1, <2>2
<1> QED
  BY <1>1, <1>2, <1>3

----------------------------------------------------------------------------
(* The loop of a withdrawal.                                               *)

\* The book holds finitely many entries.
LEMMA EntriesFinite ==
  ASSUME LedgerTypeOK, HistoryTypeOK
  PROVE  /\ IsFiniteSet(DOMAIN pending_unbond)
         /\ DOMAIN pending_unbond \subseteq Nat
         /\ Numbers(amounts, DOMAIN pending_unbond)
         /\ \A k \in DOMAIN pending_unbond : amounts[k] = pending_unbond[k].amount
<1>1. DOMAIN pending_unbond \subseteq 0 .. next_unbond - 1
  BY DEF LedgerTypeOK
<1>2. IsFiniteSet(0 .. next_unbond - 1)
  BY FS_Interval DEF HistoryTypeOK
<1>3. IsFiniteSet(DOMAIN pending_unbond)
  BY <1>1, <1>2, FS_Subset
<1>4. Numbers(amounts, DOMAIN pending_unbond)
  BY DEF Numbers, amounts, LedgerTypeOK
<1> QED
  BY <1>1, <1>3, <1>4 DEF amounts

\* The loop takes from each entry at most what it holds, from others' and unripe ones
\* nothing, and all in all the amount.
LEMMA LoopTakes ==
  ASSUME LedgerTypeOK, HistoryTypeOK, NEW owner, NEW amount \in Nat,
         amount <= matured_withdrawable(owner),
         NEW taken, taken = [k \in DOMAIN pending_unbond |-> Taken(owner, amount, k)]
  PROVE  /\ \A k \in DOMAIN pending_unbond : taken[k] \in 0 .. amounts[k]
         /\ \A k \in DOMAIN pending_unbond \ Matured(owner) : taken[k] = 0
         /\ SumOf(taken, Matured(owner)) = amount
<1> DEFINE D == DOMAIN pending_unbond
<1> DEFINE M == Matured(owner)
<1> DEFINE Upto(n) == {k \in M : k < n}
<1> DEFINE got(n) == SumOf(amounts, Upto(n))
<1>0. /\ M \subseteq D /\ IsFiniteSet(D) /\ D \subseteq Nat /\ IsFiniteSet(M)
      /\ Numbers(amounts, D) /\ Numbers(amounts, M)
      /\ \A k \in D : amounts[k] \in Nat /\ amounts[k] = pending_unbond[k].amount
  BY EntriesFinite, FS_Subset DEF Matured, Numbers
<1>1. ASSUME NEW n PROVE IsFiniteSet(Upto(n)) /\ Upto(n) \subseteq M /\ got(n) \in Nat
  <2>1. IsFiniteSet(Upto(n)) /\ Upto(n) \subseteq M /\ Numbers(amounts, Upto(n))
    BY <1>0, FS_Subset DEF Numbers
  <2> QED
    BY <2>1, SumType
<1>2. ASSUME NEW k \in D
      PROVE  /\ k \notin M => taken[k] = 0
             /\ k \in M => taken[k] = IF amount - got(k) <= 0 THEN 0
                                      ELSE IF amounts[k] <= amount - got(k) THEN amounts[k]
                                      ELSE amount - got(k)
  <2>1. taken[k] = Taken(owner, amount, k)
    OBVIOUS
  <2>2. left(owner, amount, k) = amount - got(k) /\ got(k) \in Nat /\ amounts[k] \in Nat
    BY <1>0, <1>1 DEF left
  <2>3. k \notin M => taken[k] = 0
    BY <2>1 DEF Taken
  <2>4. k \in M => taken[k] = IF amount - got(k) > 0 THEN Min({amounts[k], amount - got(k)}) ELSE 0
    BY <1>0, <2>1, <2>2 DEF Taken
  <2>5. Min({amounts[k], amount - got(k)}) =
          IF amounts[k] <= amount - got(k) THEN amounts[k] ELSE amount - got(k)
    <3> DEFINE g == got(k)
    <3>1. g \in Nat
      BY <2>2
    <3> HIDE DEF g
    <3>2. Min({amounts[k], amount - g}) = IF amounts[k] <= amount - g THEN amounts[k] ELSE amount - g
      BY <2>2, <3>1, MinOfTwo
    <3> QED
      BY <3>2 DEF g
  <2> HIDE DEF got, M
  <2> QED
    BY <2>2, <2>3, <2>4, <2>5
<1>3. ASSUME NEW k \in D PROVE taken[k] \in 0 .. amounts[k]
  <2>1. got(k) \in Nat /\ amounts[k] \in Nat
    BY <1>0, <1>1
  <2> HIDE DEF got, M
  <2> QED
    BY <1>2, <2>1
<1>4. Numbers(taken, D)
  BY <1>0, <1>3 DEF Numbers
<1> DEFINE P == {n \in Nat : SumOf(taken, Upto(n)) = IF amount <= got(n) THEN amount ELSE got(n)}
<1>5. 0 \in P
  <2>1. Upto(0) = {}
    BY <1>0
  <2>2. SumOf(taken, Upto(0)) = 0 /\ got(0) = 0
    BY <2>1, SumEmpty
  <2> HIDE DEF got, Upto
  <2> QED
    BY <2>2
<1>6. ASSUME NEW n \in Nat, n \in P PROVE n + 1 \in P
  <2>1. CASE n \notin M
    <3>1. Upto(n + 1) = Upto(n)
      BY <1>0, <2>1
    <3> HIDE DEF Upto
    <3> QED
      BY <1>6, <3>1
  <2>2. CASE n \in M
    <3>1. Upto(n + 1) = Upto(n) \cup {n} /\ n \notin Upto(n) /\ n \in D
      BY <1>0, <2>2
    <3>2. Numbers(taken, Upto(n) \cup {n}) /\ Numbers(amounts, Upto(n) \cup {n})
      BY <1>0, <1>1, <1>4, <3>1 DEF Numbers
    <3>3. SumOf(taken, Upto(n + 1)) = taken[n] + SumOf(taken, Upto(n))
      <4> HIDE DEF Upto
      <4> QED
        BY <1>1, <3>1, <3>2, SumAdd
    <3>4. got(n + 1) = amounts[n] + got(n)
      <4> HIDE DEF Upto
      <4> QED
        BY <1>1, <3>1, <3>2, SumAdd
    <3>5. SumOf(taken, Upto(n)) = IF amount <= got(n) THEN amount ELSE got(n)
      BY <1>6
    <3>6. taken[n] = IF amount - got(n) <= 0 THEN 0
                     ELSE IF amounts[n] <= amount - got(n) THEN amounts[n]
                     ELSE amount - got(n)
      BY <1>2, <2>2, <3>1
    <3>7. got(n) \in Nat /\ amounts[n] \in Nat
      BY <1>0, <1>1, <3>1
    <3> HIDE DEF got, Upto, M
    <3>8. SumOf(taken, Upto(n + 1)) = IF amount <= got(n + 1) THEN amount ELSE got(n + 1)
      BY <3>3, <3>4, <3>5, <3>6, <3>7
    <3> QED
      BY <3>8
  <2> QED
    BY <2>1, <2>2
<1>7. next_unbond \in P
  <2>1. next_unbond \in Nat
    BY DEF HistoryTypeOK
  <2> HIDE DEF P
  <2> QED
    BY <1>5, <1>6, <2>1, NumberInduction
<1>8. Upto(next_unbond) = M
  <2>1. \A k \in D : k \in 0 .. next_unbond - 1
    BY DEF LedgerTypeOK
  <2> QED
    BY <1>0, <2>1 DEF HistoryTypeOK
<1>9. got(next_unbond) = matured_withdrawable(owner)
  BY <1>8 DEF matured_withdrawable
<1>10. SumOf(taken, M) = amount
  BY <1>7, <1>8, <1>9
<1> QED
  BY <1>2, <1>3, <1>10

\* What a withdrawal leaves in any part of the book.
LEMMA WithdrawnLeaves ==
  ASSUME LedgerTypeOK, HistoryTypeOK, NEW owner, NEW amount \in Nat,
         amount <= matured_withdrawable(owner), pending_unbond' = Withdrawn(owner, amount),
         NEW T \in SUBSET DOMAIN pending_unbond, Matured(owner) \subseteq T
  PROVE  /\ SumOf(amounts', T \cap DOMAIN pending_unbond') + amount = SumOf(amounts, T)
         /\ SumOf(amounts', T \cap DOMAIN pending_unbond') \in Nat
<1> DEFINE D == DOMAIN pending_unbond
<1> DEFINE D2 == DOMAIN pending_unbond'
<1> DEFINE taken == [k \in D |-> Taken(owner, amount, k)]
<1> DEFINE rest == [k \in D |-> amounts[k] - taken[k]]
<1>0. /\ IsFiniteSet(D) /\ IsFiniteSet(T) /\ Numbers(amounts, T)
      /\ \A k \in D : amounts[k] \in Nat /\ amounts[k] = pending_unbond[k].amount
  BY EntriesFinite, FS_Subset DEF Numbers
<1>1. /\ \A k \in D : taken[k] \in 0 .. amounts[k]
      /\ \A k \in D \ Matured(owner) : taken[k] = 0
      /\ SumOf(taken, Matured(owner)) = amount
  <2> HIDE DEF taken
  <2>1. taken = [k \in DOMAIN pending_unbond |-> Taken(owner, amount, k)]
    BY DEF taken
  <2> QED
    BY <2>1, LoopTakes
<1>2. \A k \in D : rest[k] \in Nat /\ rest[k] = amounts[k] - taken[k] /\ taken[k] \in Nat
  BY <1>0, <1>1
<1>3. D2 \subseteq D /\ \A k \in D2 : amounts'[k] = rest[k]
  <2>1. ASSUME NEW k \in D2
        PROVE  k \in D /\ amounts'[k] = rest[k]
    <3>1. k \in D /\ pending_unbond'[k] = [pending_unbond[k] EXCEPT !.amount = @ - Taken(owner, amount, k)]
      BY DEF Withdrawn
    <3>2. pending_unbond'[k].amount = pending_unbond[k].amount - Taken(owner, amount, k)
      BY <3>1 DEF HistoryTypeOK, Entry
    <3>3. amounts'[k] = pending_unbond'[k].amount
      BY DEF amounts
    <3> QED
      BY <1>0, <3>1, <3>2, <3>3
  <2> QED
    BY <2>1
<1>4. \A k \in D \ D2 : rest[k] = 0
  <2>1. ASSUME NEW k \in D, k \notin D2
        PROVE  rest[k] = 0
    <3>1. /\ k \in Matured(owner) /\ left(owner, amount, k) > 0
          /\ pending_unbond[k].amount <= left(owner, amount, k)
      BY <2>1 DEF Withdrawn
    <3>2. left(owner, amount, k) \in Int
      <4>1. {j \in Matured(owner) : j < k} \in SUBSET D
        BY DEF Matured
      <4>2. /\ IsFiniteSet({j \in Matured(owner) : j < k})
            /\ Numbers(amounts, {j \in Matured(owner) : j < k})
        BY <1>0, <4>1, FS_Subset DEF Numbers
      <4>3. SumOf(amounts, {j \in Matured(owner) : j < k}) \in Nat
        BY <4>2, SumType
      <4> QED
        BY <4>3 DEF left
    <3>3. pending_unbond[k].amount \in Int
      BY <1>0
    <3>4. Taken(owner, amount, k) = pending_unbond[k].amount
      BY <3>1, <3>2, <3>3, MinOfTwo DEF Taken
    <3> QED
      BY <1>0, <3>4
  <2> QED
    BY <2>1
<1> HIDE DEF taken, rest, D2
<1>5. Numbers(taken, T) /\ Numbers(rest, T) /\ \A k \in T : amounts[k] = rest[k] + taken[k]
  BY <1>0, <1>2 DEF Numbers
<1>6. SumOf(amounts, T) = SumOf(rest, T) + SumOf(taken, T)
  BY <1>0, <1>5, SumPlus
<1>7. SumOf(taken, T) = SumOf(taken, Matured(owner))
  BY <1>0, <1>1, <1>5, SumSupport
<1>8. SumOf(rest, T) = SumOf(rest, T \cap D2)
  BY <1>0, <1>4, <1>5, SumSupport
<1>9. IsFiniteSet(T \cap D2) /\ Numbers(rest, T \cap D2)
  BY <1>0, <1>5, FS_Subset DEF Numbers
<1>10. SumOf(amounts', T \cap D2) = SumOf(rest, T \cap D2)
  BY <1>3, <1>9, SumCongruent
<1>11. SumOf(rest, T \cap D2) \in Nat
  BY <1>9, SumType
<1> QED
  BY <1>1, <1>6, <1>7, <1>8, <1>10, <1>11 DEF D2

----------------------------------------------------------------------------
(* The invariant is inductive.                                             *)

LEMMA LedgerTypeInit ==
  ASSUME LedgerInit
  PROVE  LedgerTypeOK /\ HistoryTypeOK /\ NoDustBond
<1>1. LedgerTypeOK
  BY LedgerAssumption DEF LedgerInit, LedgerTypeOK
<1>2. HistoryTypeOK
  BY LedgerAssumption DEF LedgerInit, HistoryTypeOK, Heights
<1>3. NoDustBond
  BY DEF LedgerInit, NoDustBond
<1> QED
  BY <1>1, <1>2, <1>3

\* What is unbonded at the height of the book goes into a new entry.
LEMMA UnbondEnters ==
  ASSUME LedgerTypeOK, HistoryTypeOK, NEW from \in Accounts, NEW id \in Ids,
         NEW amount \in Nat, NEW fee, Unbond(from, id, amount, fee)
  PROVE  /\ next_unbond \notin DOMAIN pending_unbond
         /\ DOMAIN pending_unbond' = DOMAIN pending_unbond \cup {next_unbond}
         /\ \A k \in DOMAIN pending_unbond : pending_unbond'[k] = pending_unbond[k]
         /\ pending_unbond'[next_unbond] =
               [owner |-> from, validator |-> id, amount |-> amount,
                unlock_height |-> height + Period]
         /\ pending_unbond'[next_unbond] \in Entry
<1>1. next_unbond \notin DOMAIN pending_unbond
  BY DEF LedgerTypeOK, HistoryTypeOK
<1>2. pending_unbond' = [k \in DOMAIN pending_unbond \cup {next_unbond} |->
                           IF k = next_unbond
                           THEN [owner |-> from, validator |-> id, amount |-> amount,
                                 unlock_height |-> height + Period]
                           ELSE pending_unbond[k]]
  BY DEF Unbond, unbonding_unlock
<1>3. height + Period \in Nat
  BY LedgerAssumption DEF HistoryTypeOK, Heights
<1> QED
  BY <1>1, <1>2, <1>3 DEF Entry

LEMMA LedgerTypeStep ==
  ASSUME LedgerTypeOK, HistoryTypeOK, [LedgerNext]_ledger_vars
  PROVE  LedgerTypeOK' /\ HistoryTypeOK'
<1>0. /\ balance \in [Accounts -> Nat] /\ self_bond \in [Ids -> Nat]
      /\ operator \in [Ids -> Accounts \cup {None}]
      /\ delegations \in [Accounts \X Ids -> Nat]
      /\ burnt \in Nat /\ height \in Heights /\ next_unbond \in Nat
      /\ paid \in [Accounts -> Nat] /\ signalled \in [Accounts -> [Heights -> Nat]]
      /\ \A x \in Amounts : x \in Nat
      /\ \A x \in Fees : x \in Nat
  BY LedgerAssumption DEF LedgerTypeOK, HistoryTypeOK
<1>1. ASSUME NEW from \in Accounts, NEW debit \in Nat, NEW fee \in Fees, Pay(from, debit, fee)
      PROVE  balance' \in [Accounts -> Nat] /\ burnt + fee \in Nat
  <2>1. balance[from] - (debit + fee) \in Nat /\ burnt + fee \in Nat
    BY <1>0, <1>1 DEF Pay
  <2> QED
    BY <1>0, <1>1, <2>1 DEF Pay
<1>2. \A b \in Nat, x \in Nat : Credit(b, x) \in Nat
  BY DEF Credit
<1>3. ASSUME NEW from \in Accounts, NEW fee \in Fees, RunWasm(from, fee)
      PROVE  LedgerTypeOK' /\ HistoryTypeOK'
  <2>1. balance' \in [Accounts -> Nat] /\ burnt' \in Nat
    BY <1>1, <1>3 DEF RunWasm
  <2> QED
    BY <1>3, <2>1 DEF RunWasm, LedgerTypeOK, HistoryTypeOK, book, unbonds, history
<1>4. ASSUME NEW from \in Accounts, NEW fee \in Fees, NEW amount \in Amounts, NEW to \in Accounts,
             Transfer(from, to, amount, fee)
      PROVE  LedgerTypeOK' /\ HistoryTypeOK'
  <2> DEFINE after == [balance EXCEPT ![from] = @ - (amount + fee)]
  <2>1. balance[from] - (amount + fee) \in Nat /\ burnt + fee \in Nat
    BY <1>0, <1>4 DEF Transfer
  <2>2. after \in [Accounts -> Nat]
    BY <1>0, <2>1
  <2>3. balance' = [after EXCEPT ![to] = Credit(after[to], amount)] /\ burnt' = burnt + fee
    BY <1>4 DEF Transfer
  <2> HIDE DEF after
  <2>4. balance' \in [Accounts -> Nat]
    BY <1>0, <1>2, <2>2, <2>3
  <2> QED
    BY <1>4, <2>1, <2>3, <2>4 DEF Transfer, LedgerTypeOK, HistoryTypeOK, book, unbonds, history
<1>5. ASSUME NEW from \in Accounts, NEW fee \in Fees, NEW amount \in Amounts, NEW id \in Ids,
             Bond(from, id, amount, fee)
      PROVE  LedgerTypeOK' /\ HistoryTypeOK'
  <2>1. balance' \in [Accounts -> Nat] /\ burnt' \in Nat
    BY <1>0, <1>1, <1>5 DEF Bond
  <2>2. /\ self_bond' \in [Ids -> Nat] /\ operator' \in [Ids -> Accounts \cup {None}]
        /\ \A i \in Ids : self_bond'[i] > 0 => operator'[i] # None
    BY <1>0, <1>5, LedgerAssumption DEF Bond, LedgerTypeOK
  <2> QED
    BY <1>5, <2>1, <2>2 DEF Bond, LedgerTypeOK, HistoryTypeOK, unbonds, history
<1>6. ASSUME NEW from \in Accounts, NEW fee \in Fees, NEW amount \in Amounts, NEW id \in Ids,
             Unbond(from, id, amount, fee)
      PROVE  LedgerTypeOK' /\ HistoryTypeOK'
  <2>1. balance' \in [Accounts -> Nat] /\ burnt' \in Nat
    BY <1>0, <1>1, <1>6 DEF Unbond
  <2>2. /\ self_bond' \in [Ids -> Nat] /\ operator' = operator
        /\ \A i \in Ids : self_bond'[i] > 0 => operator'[i] # None
    BY <1>0, <1>6 DEF Unbond, LedgerTypeOK
  <2>3. signalled' \in [Accounts -> [Heights -> Nat]]
    BY <1>0, <1>6 DEF Unbond
  <2>4. /\ next_unbond' = next_unbond + 1 /\ next_unbond' \in Nat
        /\ DOMAIN pending_unbond' = DOMAIN pending_unbond \cup {next_unbond}
        /\ \A k \in DOMAIN pending_unbond' : pending_unbond'[k] \in Entry
    <3>1. next_unbond' = next_unbond + 1
      BY <1>6 DEF Unbond
    <3>2. amount \in Nat
      BY <1>0
    <3>3. /\ DOMAIN pending_unbond' = DOMAIN pending_unbond \cup {next_unbond}
          /\ \A k \in DOMAIN pending_unbond : pending_unbond'[k] = pending_unbond[k]
          /\ pending_unbond'[next_unbond] \in Entry
      BY <1>6, <3>2, UnbondEnters
    <3>4. \A k \in DOMAIN pending_unbond : pending_unbond[k] \in Entry
      BY DEF HistoryTypeOK
    <3> QED
      BY <1>0, <3>1, <3>3, <3>4
  <2>5. \A k \in DOMAIN pending_unbond' : k \in 0 .. next_unbond' - 1
    BY <1>0, <2>4 DEF LedgerTypeOK
  <2>6. \A k \in DOMAIN pending_unbond' :
           pending_unbond'[k].owner \in Accounts /\ pending_unbond'[k].amount \in Nat
    BY <2>4 DEF Entry
  <2> QED
    BY <1>6, <2>1, <2>2, <2>3, <2>4, <2>5, <2>6 DEF Unbond, LedgerTypeOK, HistoryTypeOK
<1>7. ASSUME NEW from \in Accounts, NEW fee \in Fees, NEW amount \in Amounts, NEW id \in Ids,
             Delegate(from, id, amount, fee)
      PROVE  LedgerTypeOK' /\ HistoryTypeOK'
  <2>1. balance' \in [Accounts -> Nat] /\ burnt' \in Nat
    BY <1>0, <1>1, <1>7 DEF Delegate
  <2>2. delegations' \in [Accounts \X Ids -> Nat]
    BY <1>0, <1>7 DEF Delegate
  <2> QED
    BY <1>7, <2>1, <2>2 DEF Delegate, LedgerTypeOK, HistoryTypeOK, unbonds, history
<1>8. ASSUME NEW from \in Accounts, NEW fee \in Fees, NEW amount \in Amounts, NEW id \in Ids,
             Undelegate(from, id, amount, fee)
      PROVE  LedgerTypeOK' /\ HistoryTypeOK'
  <2>1. balance' \in [Accounts -> Nat] /\ burnt' \in Nat
    BY <1>0, <1>1, <1>8 DEF Undelegate
  <2>2. delegations' \in [Accounts \X Ids -> Nat]
    <3>1. <<from, id>> \in Accounts \X Ids /\ delegations[<<from, id>>] \in Nat
      BY <1>0
    <3>2. delegations[<<from, id>>] - amount \in Nat
      BY <1>0, <1>8, <3>1 DEF Undelegate
    <3> QED
      BY <1>0, <1>8, <3>1, <3>2 DEF Undelegate
  <2> QED
    BY <1>8, <2>1, <2>2 DEF Undelegate, LedgerTypeOK, HistoryTypeOK, unbonds, history
<1>9. ASSUME NEW from \in Accounts, NEW fee \in Fees, NEW amount \in Amounts,
             Withdraw(from, amount, fee)
      PROVE  LedgerTypeOK' /\ HistoryTypeOK'
  <2>1. balance[from] - fee \in Nat /\ burnt' \in Nat
    BY <1>0, <1>9 DEF Withdraw
  <2>2. balance' \in [Accounts -> Nat]
    BY <1>0, <1>2, <1>9, <2>1 DEF Withdraw
  <2>3. paid' \in [Accounts -> Nat]
    BY <1>0, <1>9 DEF Withdraw
  <2> DEFINE taken == [k \in DOMAIN pending_unbond |-> Taken(from, amount, k)]
  <2>4. \A k \in DOMAIN pending_unbond : taken[k] \in 0 .. amounts[k]
    <3> HIDE DEF taken
    <3>1. taken = [k \in DOMAIN pending_unbond |-> Taken(from, amount, k)]
      BY DEF taken
    <3> QED
      BY <1>0, <1>9, <3>1, LoopTakes DEF Withdraw
  <2>5. ASSUME NEW k \in DOMAIN pending_unbond'
        PROVE  k \in DOMAIN pending_unbond /\ pending_unbond'[k] \in Entry
    <3>1. /\ k \in DOMAIN pending_unbond
          /\ pending_unbond'[k] = [pending_unbond[k] EXCEPT !.amount = @ - Taken(from, amount, k)]
      BY <1>9 DEF Withdraw, Withdrawn
    <3>2. pending_unbond[k].amount - Taken(from, amount, k) \in Nat
      BY <2>4, <3>1, EntriesFinite DEF Numbers
    <3> QED
      BY <3>1, <3>2 DEF HistoryTypeOK, Entry
  <2>6. \A k \in DOMAIN pending_unbond' :
           /\ k \in 0 .. next_unbond - 1
           /\ pending_unbond'[k].owner \in Accounts
           /\ pending_unbond'[k].amount \in Nat
    BY <2>5 DEF LedgerTypeOK, Entry
  <2> QED
    BY <1>9, <2>1, <2>2, <2>3, <2>5, <2>6 DEF Withdraw, LedgerTypeOK, HistoryTypeOK
<1>10. ASSUME epoch_set_update
       PROVE  LedgerTypeOK' /\ HistoryTypeOK'
  <2>1. height' \in Heights
    BY <1>0, <1>10, LedgerAssumption DEF epoch_set_update, Heights
  <2>2. DOMAIN current_set' \subseteq Ids
    BY <1>10 DEF epoch_set_update, compute_next_set, LedgerTypeOK
  <2> QED
    BY <1>10, <2>1, <2>2 DEF epoch_set_update, LedgerTypeOK, HistoryTypeOK, book, unbonds, history
<1>11. ASSUME NEW id \in Ids, NEW ev, slash_apply(id, ev)
       PROVE  LedgerTypeOK' /\ HistoryTypeOK'
  <2> DEFINE cut == (self_bond[id] * Percent) \div 100
  <2>1. cut \in 0 .. self_bond[id] /\ self_bond[id] \in Nat
    BY <1>0, LedgerAssumption, PercentIsPart
  <2>2. self_bond' = [self_bond EXCEPT ![id] = @ - cut] /\ burnt' = burnt + cut
    BY <1>11 DEF slash_apply
  <2> HIDE DEF cut
  <2>3. /\ self_bond' \in [Ids -> Nat] /\ burnt' \in Nat
        /\ \A i \in Ids : self_bond'[i] > 0 => self_bond[i] > 0
    BY <1>0, <2>1, <2>2
  <2> QED
    BY <1>11, <2>3 DEF slash_apply, LedgerTypeOK, HistoryTypeOK, unbonds, history
<1>12. ASSUME NEW id \in Ids, tombstone(id)
       PROVE  LedgerTypeOK' /\ HistoryTypeOK'
  BY <1>12 DEF tombstone, LedgerTypeOK, HistoryTypeOK, book, unbonds, history
<1>13. ASSUME UNCHANGED ledger_vars
       PROVE  LedgerTypeOK' /\ HistoryTypeOK'
  BY <1>13 DEF ledger_vars, LedgerTypeOK, HistoryTypeOK
<1> QED
  BY <1>3, <1>4, <1>5, <1>6, <1>7, <1>8, <1>9, <1>10, <1>11, <1>12, <1>13 DEF LedgerNext

LEMMA NoDustBondStep ==
  ASSUME LedgerTypeOK, NoDustBond, [LedgerNext]_ledger_vars
  PROVE  NoDustBond'
<1>0. /\ self_bond \in [Ids -> Nat] /\ MinBond \in Nat
      /\ \A x \in Amounts : x \in Nat
  BY LedgerAssumption DEF LedgerTypeOK
<1>1. ASSUME UNCHANGED <<self_bond, applied>> PROVE NoDustBond'
  BY <1>1 DEF NoDustBond
<1>2. ASSUME NEW from \in Accounts, NEW fee, NEW amount \in Amounts, NEW id \in Ids,
             Bond(from, id, amount, fee)
      PROVE  NoDustBond'
  <2>1. /\ self_bond' = [self_bond EXCEPT ![id] = @ + amount] /\ applied' = applied
        /\ amount >= MinBond
    BY <1>2 DEF Bond
  <2> QED
    BY <1>0, <2>1 DEF NoDustBond
<1>3. ASSUME NEW from \in Accounts, NEW fee, NEW amount \in Amounts, NEW id \in Ids,
             Unbond(from, id, amount, fee)
      PROVE  NoDustBond'
  <2>1. /\ self_bond' = [self_bond EXCEPT ![id] = @ - amount] /\ applied' = applied
        /\ self_bond[id] = amount \/ self_bond[id] - amount >= MinBond
    BY <1>3 DEF Unbond
  <2> QED
    BY <1>0, <2>1 DEF NoDustBond
<1>4. ASSUME NEW id \in Ids, NEW ev, slash_apply(id, ev)
      PROVE  NoDustBond'
  <2>1. /\ applied' = applied \cup {<<id, ev>>}
        /\ \A i \in Ids \ {id} : self_bond'[i] = self_bond[i]
    BY <1>0, <1>4 DEF slash_apply
  <2>2. <<id, ev>> \in applied' /\ <<id, ev>>[1] = id
    BY <2>1
  <2> QED
    BY <2>1, <2>2 DEF NoDustBond
<1>5. ASSUME NEW from, NEW to, NEW id, NEW amount, NEW fee,
             \/ RunWasm(from, fee) \/ Transfer(from, to, amount, fee)
             \/ Delegate(from, id, amount, fee) \/ Undelegate(from, id, amount, fee)
             \/ Withdraw(from, amount, fee) \/ tombstone(id)
      PROVE  UNCHANGED <<self_bond, applied>>
  BY <1>5 DEF RunWasm, Transfer, Delegate, Undelegate, Withdraw, tombstone, book
<1>6. epoch_set_update \/ UNCHANGED ledger_vars => UNCHANGED <<self_bond, applied>>
  BY DEF epoch_set_update, ledger_vars, book
<1> QED
  BY <1>1, <1>2, <1>3, <1>4, <1>5, <1>6 DEF LedgerNext

----------------------------------------------------------------------------
(* The unbonding period.                                                   *)

\* Entries and payments change together.
LEMMA SettledStep ==
  ASSUME LedgerInv, LedgerTypeOK', HistoryTypeOK', [LedgerNext]_ledger_vars
  PROVE  Settled'
<1>0. /\ LedgerTypeOK /\ HistoryTypeOK /\ Settled
      /\ height \in Heights /\ height \in Nat /\ Period \in Nat
      /\ paid \in [Accounts -> Nat] /\ signalled \in [Accounts -> [Heights -> Nat]]
      /\ \A t \in Heights : t \in Nat
      /\ \A x \in Amounts : x \in Nat
  <2>1. LedgerTypeOK /\ HistoryTypeOK /\ Settled
    BY DEF LedgerInv
  <2>2. /\ height \in Heights
        /\ paid \in [Accounts -> Nat] /\ signalled \in [Accounts -> [Heights -> Nat]]
    BY <2>1 DEF HistoryTypeOK
  <2>3. Period \in Nat /\ \A x \in Amounts : x \in Nat
    BY LedgerAssumption
  <2>4. \A t \in Heights : t \in Nat
    BY LedgerAssumption DEF Heights
  <2> QED
    BY <2>1, <2>2, <2>3, <2>4
<1>1. ASSUME UNCHANGED <<pending_unbond, paid, signalled>>, height' \in Heights, height' >= height
      PROVE  Settled'
  <2> SUFFICES ASSUME NEW a \in Accounts, NEW t \in Heights, t >= height'
               PROVE  paid'[a] + SumOf(amounts', Due(a, t)') = SumOf(signalled'[a], SignalledBy(t))
    BY DEF Settled, SignalledBy
  <2>1. t >= height
    BY <1>0, <1>1
  <2>2. amounts' = amounts /\ Due(a, t)' = Due(a, t) /\ paid' = paid /\ signalled' = signalled
    BY <1>1 DEF amounts, Due
  <2> QED
    BY <1>0, <2>1, <2>2 DEF Settled
<1>2. ASSUME NEW from \in Accounts, NEW fee, NEW amount \in Amounts, NEW id \in Ids,
             Unbond(from, id, amount, fee)
      PROVE  Settled'
  <2> SUFFICES ASSUME NEW a \in Accounts, NEW t \in Heights, t >= height'
               PROVE  paid'[a] + SumOf(amounts', Due(a, t)') = SumOf(signalled'[a], SignalledBy(t))
    BY DEF Settled, SignalledBy
  <2>1. /\ height' = height /\ paid' = paid
        /\ signalled' = [signalled EXCEPT ![from][height] = @ + amount]
    BY <1>2 DEF Unbond
  <2>2. paid[a] + SumOf(amounts, Due(a, t)) = SumOf(signalled[a], SignalledBy(t))
    BY <1>0, <2>1 DEF Settled
  <2>3. /\ next_unbond \notin DOMAIN pending_unbond
        /\ DOMAIN pending_unbond' = DOMAIN pending_unbond \cup {next_unbond}
        /\ \A k \in DOMAIN pending_unbond : pending_unbond'[k] = pending_unbond[k]
        /\ pending_unbond'[next_unbond] =
              [owner |-> from, validator |-> id, amount |-> amount,
               unlock_height |-> height + Period]
    BY <1>0, <1>2, UnbondEnters
  <2>4. /\ IsFiniteSet(Due(a, t)) /\ Numbers(amounts, Due(a, t)) /\ next_unbond \notin Due(a, t)
        /\ \A k \in Due(a, t) : amounts'[k] = amounts[k]
    BY <1>0, <2>3, EntriesFinite, FS_Subset DEF Due, Numbers, amounts
  <2>5. SumOf(amounts', Due(a, t)) = SumOf(amounts, Due(a, t)) /\ SumOf(amounts, Due(a, t)) \in Nat
    BY <2>4, SumCongruent, SumType
  <2>6. IsFiniteSet(SignalledBy(t)) /\ SignalledBy(t) \subseteq Heights
        /\ Numbers(signalled[a], SignalledBy(t))
    <3>1. IsFiniteSet(Heights)
      BY FS_Interval, LedgerAssumption DEF Heights
    <3>2. IsFiniteSet(SignalledBy(t)) /\ SignalledBy(t) \subseteq Heights
      BY <3>1, FS_Subset DEF SignalledBy
    <3> QED
      BY <1>0, <3>2 DEF Numbers
  <2>7. CASE a = from /\ height + Period <= t
    <3>1. Due(a, t)' = Due(a, t) \cup {next_unbond}
      BY <2>3, <2>7 DEF Due
    <3>2. amounts'[next_unbond] = amount
      BY <2>3 DEF amounts
    <3>3. Numbers(amounts', Due(a, t) \cup {next_unbond})
      BY <1>0, <2>4, <3>2 DEF Numbers
    <3>4. SumOf(amounts', Due(a, t) \cup {next_unbond}) = amount + SumOf(amounts', Due(a, t))
      BY <2>4, <3>2, <3>3, SumAdd
    <3>5. height \in SignalledBy(t)
      BY <1>0, <2>7 DEF SignalledBy
    <3>6. /\ signalled'[a][height] = signalled[a][height] + amount
          /\ signalled[a][height] \in Nat
          /\ \A h \in SignalledBy(t) \ {height} : signalled'[a][h] = signalled[a][h]
      BY <1>0, <2>1, <2>6, <2>7
    <3>7. SumOf(signalled'[a], SignalledBy(t)) + signalled[a][height]
             = SumOf(signalled[a], SignalledBy(t)) + (signalled[a][height] + amount)
      <4> DEFINE f == signalled[a]
      <4> DEFINE g == signalled'[a]
      <4>1. /\ g[height] = f[height] + amount /\ g[height] \in Nat
            /\ \A h \in SignalledBy(t) \ {height} : g[h] = f[h]
        BY <1>0, <3>6
      <4>2. Numbers(f, SignalledBy(t))
        BY <2>6
      <4> HIDE DEF f, g
      <4>3. SumOf(g, SignalledBy(t)) + f[height] = SumOf(f, SignalledBy(t)) + (f[height] + amount)
        BY <2>6, <3>5, <4>1, <4>2, SumUpdate
      <4> QED
        BY <4>3 DEF f, g
    <3>8. SumOf(signalled[a], SignalledBy(t)) \in Nat
      BY <2>6, SumType
    <3>9. SumOf(signalled'[a], SignalledBy(t)) \in Nat
      <4>1. Numbers(signalled'[a], SignalledBy(t))
        BY <1>0, <3>6, <2>6 DEF Numbers
      <4> QED
        BY <2>6, <4>1, SumType
    <3>10. SumOf(signalled'[a], SignalledBy(t)) = SumOf(signalled[a], SignalledBy(t)) + amount
      <4> DEFINE new == SumOf(signalled'[a], SignalledBy(t))
      <4> DEFINE old == SumOf(signalled[a], SignalledBy(t))
      <4> DEFINE at == signalled[a][height]
      <4>1. new \in Nat /\ old \in Nat /\ at \in Nat /\ amount \in Nat /\ new + at = old + (at + amount)
        BY <1>0, <3>6, <3>7, <3>8, <3>9
      <4> HIDE DEF new, old, at
      <4>2. new = old + amount
        BY <4>1
      <4> QED
        BY <4>2 DEF new, old
    <3>11. paid'[a] = paid[a] /\ paid[a] \in Nat /\ amount \in Nat
      BY <1>0, <2>1
    <3> QED
      BY <2>2, <2>5, <3>1, <3>4, <3>10, <3>11
  <2>8. CASE ~(a = from /\ height + Period <= t)
    <3>1. Due(a, t)' = Due(a, t)
      BY <2>3, <2>8 DEF Due
    <3>2. \A h \in SignalledBy(t) : signalled'[a][h] = signalled[a][h]
      BY <1>0, <2>1, <2>6, <2>8 DEF SignalledBy
    <3>3. SumOf(signalled'[a], SignalledBy(t)) = SumOf(signalled[a], SignalledBy(t))
      BY <2>6, <3>2, SumCongruent
    <3> QED
      BY <2>1, <2>2, <2>5, <3>1, <3>3
  <2> QED
    BY <2>7, <2>8
<1>3. ASSUME NEW from \in Accounts, NEW fee, NEW amount \in Amounts, Withdraw(from, amount, fee)
      PROVE  Settled'
  <2> SUFFICES ASSUME NEW a \in Accounts, NEW t \in Heights, t >= height'
               PROVE  paid'[a] + SumOf(amounts', Due(a, t)') = SumOf(signalled'[a], SignalledBy(t))
    BY DEF Settled, SignalledBy
  <2>1. /\ height' = height /\ signalled' = signalled
        /\ paid' = [paid EXCEPT ![from] = @ + amount]
        /\ amount <= matured_withdrawable(from) /\ amount \in Nat
        /\ pending_unbond' = Withdrawn(from, amount)
    BY <1>0, <1>3 DEF Withdraw
  <2>2. paid[a] + SumOf(amounts, Due(a, t)) = SumOf(signalled[a], SignalledBy(t))
    BY <1>0, <2>1 DEF Settled
  <2>3. ASSUME NEW k \in DOMAIN pending_unbond'
        PROVE  /\ k \in DOMAIN pending_unbond
               /\ pending_unbond'[k].owner = pending_unbond[k].owner
               /\ pending_unbond'[k].unlock_height = pending_unbond[k].unlock_height
    <3>1. /\ k \in DOMAIN pending_unbond
          /\ pending_unbond'[k] = [pending_unbond[k] EXCEPT !.amount = @ - Taken(from, amount, k)]
      BY <2>1 DEF Withdrawn
    <3> QED
      BY <1>0, <3>1 DEF HistoryTypeOK, Entry
  <2>4. Due(a, t)' = Due(a, t) \cap DOMAIN pending_unbond' /\ Due(a, t) \in SUBSET DOMAIN pending_unbond
    BY <2>3 DEF Due
  <2>5. CASE a = from
    <3>1. Matured(from) \subseteq Due(a, t)
      BY <1>0, <2>1, <2>5 DEF Matured, Due, HistoryTypeOK, Entry
    <3>2. /\ SumOf(amounts', Due(a, t)') + amount = SumOf(amounts, Due(a, t))
          /\ SumOf(amounts', Due(a, t)') \in Nat
      BY <1>0, <2>1, <2>4, <3>1, WithdrawnLeaves, ZenonT(40)
    <3>3. paid'[a] = paid[a] + amount /\ paid[a] \in Nat
      BY <1>0, <2>1, <2>5
    <3> QED
      BY <2>1, <2>2, <3>2, <3>3
  <2>6. CASE a # from
    <3>1. ASSUME NEW k \in Due(a, t)
          PROVE  k \in DOMAIN pending_unbond' /\ amounts'[k] = amounts[k]
      <4>1. k \in DOMAIN pending_unbond /\ k \notin Matured(from)
        BY <2>6 DEF Due, Matured
      <4>2. k \in DOMAIN pending_unbond' /\ Taken(from, amount, k) = 0
        BY <2>1, <4>1 DEF Withdrawn, Taken
      <4>3. pending_unbond'[k] = [pending_unbond[k] EXCEPT !.amount = @ - Taken(from, amount, k)]
        BY <2>1, <4>2 DEF Withdrawn
      <4>4. pending_unbond'[k].amount = pending_unbond[k].amount - 0 /\ pending_unbond[k].amount \in Nat
        BY <1>0, <4>1, <4>2, <4>3 DEF HistoryTypeOK, Entry
      <4> QED
        BY <4>1, <4>2, <4>4 DEF amounts
    <3>2. Due(a, t)' = Due(a, t)
      BY <2>4, <3>1
    <3>3. IsFiniteSet(Due(a, t)) /\ Numbers(amounts, Due(a, t))
      BY <1>0, <2>4, EntriesFinite, FS_Subset DEF Numbers
    <3>4. SumOf(amounts', Due(a, t)) = SumOf(amounts, Due(a, t))
      BY <3>1, <3>3, SumCongruent
    <3>5. paid'[a] = paid[a]
      BY <1>0, <2>1, <2>6
    <3> QED
      BY <2>1, <2>2, <3>2, <3>4, <3>5
  <2> QED
    BY <2>5, <2>6
<1>4. ASSUME epoch_set_update
      PROVE  UNCHANGED <<pending_unbond, paid, signalled>> /\ height' \in Heights /\ height' >= height
  BY <1>0, <1>4 DEF epoch_set_update, book, unbonds, history, HistoryTypeOK
<1>5. ASSUME NEW from, NEW to, NEW id, NEW amount, NEW fee, NEW ev,
             \/ RunWasm(from, fee) \/ Transfer(from, to, amount, fee)
             \/ Bond(from, id, amount, fee) \/ Delegate(from, id, amount, fee)
             \/ Undelegate(from, id, amount, fee) \/ slash_apply(id, ev) \/ tombstone(id)
      PROVE  UNCHANGED <<pending_unbond, paid, signalled, height>>
  BY <1>5 DEF RunWasm, Transfer, Bond, Delegate, Undelegate, slash_apply, tombstone,
              book, unbonds, history
<1>6. UNCHANGED ledger_vars => UNCHANGED <<pending_unbond, paid, signalled, height>>
  BY DEF ledger_vars
<1>7. UNCHANGED <<pending_unbond, paid, signalled, height>> => Settled'
  BY <1>0, <1>1
<1> QED
  BY <1>1, <1>2, <1>3, <1>4, <1>5, <1>6, <1>7 DEF LedgerNext

----------------------------------------------------------------------------
(* The theorems.                                                           *)

LEMMA LedgerInitInv ==
  ASSUME LedgerInit
  PROVE  LedgerInv
<1>1. LedgerTypeOK /\ HistoryTypeOK /\ NoDustBond
  BY LedgerTypeInit
<1>2. ASSUME NEW a \in Accounts, NEW t \in Heights
      PROVE  paid[a] + SumOf(amounts, Due(a, t)) = SumOf(signalled[a], SignalledBy(t))
  <2>1. Due(a, t) = {} /\ paid[a] = 0
    BY DEF LedgerInit, Due
  <2>2. SumOf(amounts, Due(a, t)) = 0
    BY <2>1, SumEmpty
  <2>3. IsFiniteSet(SignalledBy(t))
    <3>1. IsFiniteSet(Heights)
      BY FS_Interval, LedgerAssumption DEF Heights
    <3> QED
      BY <3>1, FS_Subset DEF SignalledBy
  <2>4. \A h \in SignalledBy(t) : signalled[a][h] = 0
    BY DEF LedgerInit, SignalledBy
  <2>5. SumOf(signalled[a], SignalledBy(t)) = 0
    BY <2>3, <2>4, SumZero
  <2> QED
    BY <2>1, <2>2, <2>5
<1> QED
  BY <1>1, <1>2 DEF LedgerInv, Settled

LEMMA LedgerStepInv ==
  ASSUME LedgerInv, [LedgerNext]_ledger_vars
  PROVE  LedgerInv'
<1>1. LedgerTypeOK' /\ HistoryTypeOK'
  BY LedgerTypeStep DEF LedgerInv
<1>2. NoDustBond'
  BY NoDustBondStep DEF LedgerInv
<1>3. Settled'
  BY <1>1, SettledStep
<1> QED
  BY <1>1, <1>2, <1>3 DEF LedgerInv

\* The inductive invariant of the ledger holds in every reachable state.
THEOREM LedgerInvariant == LedgerSpec => []LedgerInv
<1>1. LedgerInit => LedgerInv
  BY LedgerInitInv
<1>2. LedgerInv /\ [LedgerNext]_ledger_vars => LedgerInv'
  BY LedgerStepInv
<1> QED
  BY <1>1, <1>2, PTL DEF LedgerSpec

\* No balance, bond, delegation or pending unbond is ever negative, and a bond has an
\* operator who can take it out.
THEOREM LedgerType == LedgerSpec => []LedgerTypeOK
<1>1. LedgerInv => LedgerTypeOK
  BY DEF LedgerInv
<1> QED
  BY <1>1, LedgerInvariant, PTL

\* Bond and Unbond never leave a bond below the minimum that was not slashed.
THEOREM BondsAreWhole == LedgerSpec => []NoDustBond
<1>1. LedgerInv => NoDustBond
  BY DEF LedgerInv
<1> QED
  BY <1>1, LedgerInvariant, PTL

\* However withdrawals cut the entries up, an account is never paid more than it
\* signalled to unbond a full period before.
THEOREM PeriodKept == LedgerSpec => []NoEarlyWithdraw
<1>1. LedgerInv => NoEarlyWithdraw
  <2> SUFFICES ASSUME LedgerInv, NEW a \in Accounts
               PROVE  paid[a] <= SumOf(signalled[a], SignalledBy(height))
    BY DEF NoEarlyWithdraw, SignalledBy
  <2>1. /\ height \in Heights /\ height \in Nat /\ paid[a] \in Nat
        /\ LedgerTypeOK /\ HistoryTypeOK
    BY DEF LedgerInv, HistoryTypeOK, Heights
  <2>2. paid[a] + SumOf(amounts, Due(a, height)) = SumOf(signalled[a], SignalledBy(height))
    BY <2>1 DEF LedgerInv, Settled
  <2>3. IsFiniteSet(Due(a, height)) /\ Numbers(amounts, Due(a, height))
    BY <2>1, EntriesFinite, FS_Subset DEF Due, Numbers
  <2>4. SumOf(amounts, Due(a, height)) \in Nat
    BY <2>3, SumType
  <2> QED
    BY <2>1, <2>2, <2>4
<1> QED
  BY <1>1, LedgerInvariant, PTL

\* A tombstone is never lifted: no later step adds to the validator's bond or installs
\* a set that has it.
THEOREM TombstonesBar == LedgerSpec => TombstoneBars
<1> DEFINE Barred == \A id \in tombstones :
              /\ id \in tombstones'
              /\ self_bond'[id] <= self_bond[id]
              /\ id \in DOMAIN current_set' => current_set' = current_set
<1>1. LedgerInv /\ [LedgerNext]_ledger_vars => [Barred]_ledger_vars
  <2> SUFFICES ASSUME LedgerInv, LedgerNext
               PROVE  Barred
    OBVIOUS
  <2>0. /\ self_bond \in [Ids -> Nat] /\ tombstones \subseteq Ids
        /\ \A x \in Amounts : x \in Nat
    BY LedgerAssumption DEF LedgerInv, LedgerTypeOK
  <2>1. ASSUME UNCHANGED <<self_bond, current_set>>, tombstones \subseteq tombstones'
        PROVE  Barred
    BY <2>0, <2>1
  <2>2. ASSUME NEW from, NEW fee, NEW amount \in Amounts, NEW id \in Ids,
               Bond(from, id, amount, fee)
        PROVE  Barred
    BY <2>0, <2>2 DEF Bond
  <2>3. ASSUME NEW from, NEW fee, NEW amount \in Amounts, NEW id \in Ids,
               Unbond(from, id, amount, fee)
        PROVE  Barred
    BY <2>0, <2>3 DEF Unbond
  <2>4. ASSUME NEW id \in Ids, NEW ev, slash_apply(id, ev)
        PROVE  Barred
    <3> DEFINE cut == (self_bond[id] * Percent) \div 100
    <3>1. cut \in 0 .. self_bond[id]
      BY <2>0, LedgerAssumption, PercentIsPart
    <3>2. /\ self_bond' = [self_bond EXCEPT ![id] = @ - cut]
          /\ tombstones' = tombstones /\ current_set' = current_set
      BY <2>4 DEF slash_apply
    <3> HIDE DEF cut
    <3> QED
      BY <2>0, <3>1, <3>2
  <2>5. ASSUME epoch_set_update
        PROVE  Barred
    <3>1. /\ self_bond' = self_bond /\ tombstones' = tombstones
          /\ current_set' = current_set \/ current_set' = compute_next_set
      BY <2>5 DEF epoch_set_update, book
    <3>2. DOMAIN compute_next_set \cap tombstones = {}
      BY DEF compute_next_set
    <3> QED
      BY <2>0, <3>1, <3>2
  <2>6. ASSUME NEW from, NEW to, NEW id, NEW amount, NEW fee,
               \/ RunWasm(from, fee) \/ Transfer(from, to, amount, fee)
               \/ Delegate(from, id, amount, fee) \/ Undelegate(from, id, amount, fee)
               \/ Withdraw(from, amount, fee) \/ tombstone(id)
        PROVE  UNCHANGED <<self_bond, current_set>> /\ tombstones \subseteq tombstones'
    BY <2>6 DEF RunWasm, Transfer, Delegate, Undelegate, Withdraw, tombstone, book
  <2> HIDE DEF Barred
  <2> QED
    BY <2>1, <2>2, <2>3, <2>4, <2>5, <2>6 DEF LedgerNext
<1> QED
  BY <1>1, LedgerInvariant, PTL DEF LedgerSpec, TombstoneBars

----------------------------------------------------------------------------
(* Conservation.                                                           *)

\* The balances of genesis add up to no more than u128::MAX, so that no credit
\* overflows (one that does is dropped, and its tokens with it).
SupplyFits == SumOver(Alloc) <= MaxAmount

LEMMA SumsType ==
  ASSUME LedgerTypeOK, HistoryTypeOK
  PROVE  /\ SumOver(balance) \in Nat /\ SumOver(self_bond) \in Nat
         /\ SumOver(delegations) \in Nat /\ SumOver(amounts) \in Nat /\ burnt \in Nat
<1>1. SumOver(balance) \in Nat /\ SumOver(self_bond) \in Nat
  BY LedgerAssumption, SumOverType DEF LedgerTypeOK
<1>2. IsFiniteSet(Accounts \X Ids)
  BY LedgerAssumption, FS_Product
<1>3. SumOver(delegations) \in Nat
  BY <1>2, SumOverType DEF LedgerTypeOK
<1>4. IsFiniteSet(DOMAIN pending_unbond) /\ amounts \in [DOMAIN pending_unbond -> Nat]
  BY EntriesFinite DEF amounts, LedgerTypeOK
<1>5. SumOver(amounts) \in Nat
  BY <1>4, SumOverType
<1> QED
  BY <1>1, <1>3, <1>5 DEF HistoryTypeOK

LEMMA SumsTypeNext ==
  (LedgerTypeOK /\ HistoryTypeOK =>
     /\ SumOver(balance) \in Nat /\ SumOver(self_bond) \in Nat
     /\ SumOver(delegations) \in Nat /\ SumOver(amounts) \in Nat /\ burnt \in Nat)'
<1>1. LedgerTypeOK /\ HistoryTypeOK =>
        /\ SumOver(balance) \in Nat /\ SumOver(self_bond) \in Nat
        /\ SumOver(delegations) \in Nat /\ SumOver(amounts) \in Nat /\ burnt \in Nat
  BY SumsType
<1> QED
  BY <1>1, PTL

\* The sender pays what is debited.
LEMMA PayMoves ==
  ASSUME LedgerTypeOK, NEW from \in Accounts, NEW debit \in Nat, NEW fee \in Nat,
         Pay(from, debit, fee)
  PROVE  SumOver(balance') + (debit + fee) = SumOver(balance) /\ SumOver(balance') \in Nat
<1> DEFINE v == balance[from] - (debit + fee)
<1>1. balance \in [Accounts -> Nat] /\ IsFiniteSet(Accounts)
  BY LedgerAssumption DEF LedgerTypeOK
<1>2. v \in Nat /\ balance[from] \in Nat /\ balance' = [balance EXCEPT ![from] = v]
  BY <1>1 DEF Pay
<1>3. v + (debit + fee) = balance[from]
  BY <1>1, <1>2
<1> HIDE DEF v
<1>4. SumOver(balance') + balance[from] = SumOver(balance) + v /\ balance' \in [Accounts -> Nat]
  <2>1. /\ balance' \in [Accounts -> Nat] /\ balance'[from] = v
        /\ \A a \in Accounts \ {from} : balance'[a] = balance[a]
    BY <1>1, <1>2
  <2> QED
    BY <1>1, <2>1, SumOverChange
<1>5. SumOver(balance') \in Nat /\ SumOver(balance) \in Nat
  BY <1>1, <1>4, SumOverType
<1> QED
  BY <1>2, <1>3, <1>4, <1>5

\* A credit that does not overflow adds its amount.
LEMMA CreditMoves ==
  ASSUME NEW f \in [Accounts -> Nat], NEW to \in Accounts, NEW amount \in Nat,
         SumOver(f) + amount <= MaxAmount
  PROVE  SumOver([f EXCEPT ![to] = Credit(@, amount)]) = SumOver(f) + amount
<1>1. IsFiniteSet(Accounts) /\ MaxAmount \in Nat
  BY LedgerAssumption
<1>2. f[to] <= SumOver(f) /\ SumOver(f) \in Nat /\ f[to] \in Nat
  BY <1>1, SumOverChange, SumOverType
<1>3. Credit(f[to], amount) = f[to] + amount
  BY <1>1, <1>2 DEF Credit
<1> DEFINE h == [f EXCEPT ![to] = f[to] + amount]
<1>4. SumOver(h) + f[to] = SumOver(f) + (f[to] + amount) /\ h \in [Accounts -> Nat]
  <2>1. /\ h \in [Accounts -> Nat] /\ h[to] = f[to] + amount
        /\ \A a \in Accounts \ {to} : h[a] = f[a]
    BY <1>2
  <2> HIDE DEF h
  <2> QED
    BY <1>1, <2>1, SumOverChange
<1>5. [f EXCEPT ![to] = Credit(@, amount)] = h
  BY <1>3
<1> HIDE DEF h
<1>6. SumOver(h) \in Nat
  BY <1>1, <1>4, SumOverType
<1>7. SumOver(h) = SumOver(f) + amount
  BY <1>2, <1>4, <1>6
<1> QED
  BY <1>5, <1>7

LEMMA ConservedStep ==
  ASSUME SupplyFits, LedgerTypeOK, HistoryTypeOK, Conserved,
         LedgerTypeOK', HistoryTypeOK', [LedgerNext]_ledger_vars
  PROVE  Conserved'
<1> DEFINE bal == SumOver(balance)
<1> DEFINE bond == SumOver(self_bond)
<1> DEFINE del == SumOver(delegations)
<1> DEFINE pen == SumOver(amounts)
<1> DEFINE all == SumOver(Alloc)
<1> DEFINE bal2 == SumOver(balance')
<1> DEFINE bond2 == SumOver(self_bond')
<1> DEFINE del2 == SumOver(delegations')
<1> DEFINE pen2 == SumOver(amounts')
<1>0. /\ balance \in [Accounts -> Nat] /\ self_bond \in [Ids -> Nat]
      /\ delegations \in [Accounts \X Ids -> Nat]
      /\ IsFiniteSet(Accounts) /\ IsFiniteSet(Ids) /\ IsFiniteSet(Accounts \X Ids)
      /\ \A x \in Amounts : x \in Nat
      /\ \A x \in Fees : x \in Nat
      /\ MaxAmount \in Nat
  BY LedgerAssumption, FS_Product DEF LedgerTypeOK
<1>1. bal \in Nat /\ bond \in Nat /\ del \in Nat /\ pen \in Nat /\ burnt \in Nat
  BY SumsType
<1>2. bal + bond + del + pen + burnt = all /\ all \in Nat
  <2>1. all \in Nat
    BY <1>0, SumOverType, LedgerAssumption
  <2> QED
    BY <2>1 DEF Conserved
<1>3. bal2 \in Nat /\ bond2 \in Nat /\ del2 \in Nat /\ pen2 \in Nat /\ burnt' \in Nat
  <2>1. (LedgerTypeOK /\ HistoryTypeOK =>
           /\ SumOver(balance) \in Nat /\ SumOver(self_bond) \in Nat
           /\ SumOver(delegations) \in Nat /\ SumOver(amounts) \in Nat /\ burnt \in Nat)'
    BY SumsTypeNext
  <2> QED
    BY <2>1
<1>4. ASSUME bal2 + bond2 + del2 + pen2 + burnt' = all
      PROVE  Conserved'
  BY <1>4 DEF Conserved
<1>5. UNCHANGED pending_unbond => pen2 = pen
  BY DEF amounts
<1>6. ASSUME NEW from \in Accounts, NEW fee \in Fees, RunWasm(from, fee)
      PROVE  Conserved'
  <2>1. bal2 + (0 + fee) = bal
    BY <1>0, <1>6, PayMoves DEF RunWasm
  <2>2. bond2 = bond /\ del2 = del /\ pen2 = pen /\ burnt' = burnt + fee
    BY <1>5, <1>6 DEF RunWasm, book, unbonds
  <2>3. fee \in Nat
    BY <1>0
  <2> HIDE DEF bal, bond, del, pen, all, bal2, bond2, del2, pen2
  <2> QED
    BY <1>1, <1>2, <1>3, <1>4, <2>1, <2>2, <2>3
<1>7. ASSUME NEW from \in Accounts, NEW fee \in Fees, NEW amount \in Amounts, NEW to \in Accounts,
             Transfer(from, to, amount, fee)
      PROVE  Conserved'
  <2> DEFINE after == [balance EXCEPT ![from] = @ - (amount + fee)]
  <2> DEFINE v == balance[from] - (amount + fee)
  <2>1. v \in Nat /\ amount \in Nat /\ fee \in Nat /\ balance[from] \in Nat
        /\ v + (amount + fee) = balance[from]
    BY <1>0, <1>7 DEF Transfer
  <2>2. after = [balance EXCEPT ![from] = v]
    OBVIOUS
  <2> HIDE DEF v
  <2>3. SumOver(after) + balance[from] = bal + v /\ after \in [Accounts -> Nat]
    <3>1. /\ after \in [Accounts -> Nat] /\ after[from] = v
          /\ \A a \in Accounts \ {from} : after[a] = balance[a]
      BY <1>0, <2>1, <2>2
    <3> HIDE DEF after
    <3> QED
      BY <1>0, <3>1, SumOverChange
  <2>4. balance' = [after EXCEPT ![to] = Credit(@, amount)] /\ burnt' = burnt + fee
    BY <1>7 DEF Transfer
  <2> HIDE DEF after
  <2>5. SumOver(after) \in Nat
    BY <1>0, <2>3, SumOverType
  <2>6. SumOver(after) + (amount + fee) = bal
    <3> HIDE DEF bal
    <3> QED
      BY <1>1, <2>1, <2>3, <2>5
  <2>7. SumOver(after) + amount <= MaxAmount
    <3>1. all <= MaxAmount
      BY DEF SupplyFits
    <3> HIDE DEF bal, bond, del, pen, all, bal2, bond2, del2, pen2
    <3> QED
      BY <1>0, <1>1, <1>2, <2>1, <2>5, <2>6, <3>1
  <2>8. bal2 = SumOver(after) + amount
    BY <2>1, <2>3, <2>4, <2>7, CreditMoves
  <2>9. bond2 = bond /\ del2 = del /\ pen2 = pen
    BY <1>5, <1>7 DEF Transfer, book, unbonds
  <2> HIDE DEF bal, bond, del, pen, all, bal2, bond2, del2, pen2
  <2> QED
    BY <1>1, <1>2, <1>3, <1>4, <2>1, <2>4, <2>5, <2>6, <2>8, <2>9
<1>8. ASSUME NEW from \in Accounts, NEW fee \in Fees, NEW amount \in Amounts, NEW id \in Ids,
             Bond(from, id, amount, fee)
      PROVE  Conserved'
  <2>1. bal2 + (amount + fee) = bal /\ amount \in Nat /\ fee \in Nat
    BY <1>0, <1>8, PayMoves DEF Bond
  <2>2. bond2 + self_bond[id] = bond + (self_bond[id] + amount) /\ self_bond[id] \in Nat
    <3>1. self_bond[id] + amount \in Nat /\ self_bond[id] \in Nat
      BY <1>0, <2>1
    <3>2. self_bond' = [self_bond EXCEPT ![id] = self_bond[id] + amount]
      BY <1>8 DEF Bond
    <3>3. /\ self_bond' \in [Ids -> Nat] /\ self_bond'[id] = self_bond[id] + amount
          /\ \A i \in Ids \ {id} : self_bond'[i] = self_bond[i]
      BY <1>0, <3>1, <3>2
    <3> QED
      BY <1>0, <3>1, <3>3, SumOverChange
  <2>3. del2 = del /\ pen2 = pen /\ burnt' = burnt + fee
    BY <1>5, <1>8 DEF Bond, unbonds
  <2> HIDE DEF bal, bond, del, pen, all, bal2, bond2, del2, pen2
  <2> QED
    BY <1>1, <1>2, <1>3, <1>4, <2>1, <2>2, <2>3
<1>9. ASSUME NEW from \in Accounts, NEW fee \in Fees, NEW amount \in Amounts, NEW id \in Ids,
             Unbond(from, id, amount, fee)
      PROVE  Conserved'
  <2>1. bal2 + (0 + fee) = bal /\ amount \in Nat /\ fee \in Nat
    BY <1>0, <1>9, PayMoves DEF Unbond
  <2>2. bond2 + self_bond[id] = bond + (self_bond[id] - amount) /\ self_bond[id] \in Nat
    <3>1. self_bond[id] - amount \in Nat /\ self_bond[id] \in Nat
      BY <1>0, <1>9, <2>1 DEF Unbond
    <3>2. self_bond' = [self_bond EXCEPT ![id] = self_bond[id] - amount]
      BY <1>9 DEF Unbond
    <3>3. /\ self_bond' \in [Ids -> Nat] /\ self_bond'[id] = self_bond[id] - amount
          /\ \A i \in Ids \ {id} : self_bond'[i] = self_bond[i]
      BY <1>0, <3>1, <3>2
    <3> QED
      BY <1>0, <3>1, <3>3, SumOverChange
  <2>3. del2 = del /\ burnt' = burnt + fee
    BY <1>9 DEF Unbond
  <2>4. pen2 = amount + pen
    <3> DEFINE D == DOMAIN pending_unbond
    <3>1. /\ next_unbond \notin D
          /\ DOMAIN pending_unbond' = D \cup {next_unbond}
          /\ \A k \in D : pending_unbond'[k] = pending_unbond[k]
          /\ pending_unbond'[next_unbond] =
                [owner |-> from, validator |-> id, amount |-> amount,
                 unlock_height |-> height + Period]
      BY <1>9, <2>1, UnbondEnters
    <3>2. /\ DOMAIN amounts = D /\ DOMAIN amounts' = D \cup {next_unbond}
          /\ amounts'[next_unbond] = amount /\ \A k \in D : amounts'[k] = amounts[k]
      BY <3>1 DEF amounts
    <3>3. IsFiniteSet(D) /\ Numbers(amounts, D)
      BY EntriesFinite
    <3>4. Numbers(amounts', D \cup {next_unbond})
      BY <2>1, <3>2, <3>3 DEF Numbers
    <3> HIDE DEF D
    <3>5. SumOf(amounts', D \cup {next_unbond}) = amount + SumOf(amounts', D)
      BY <3>1, <3>2, <3>3, <3>4, SumAdd
    <3>6. SumOf(amounts', D) = SumOf(amounts, D)
      BY <3>2, <3>3, SumCongruent
    <3> QED
      BY <3>2, <3>5, <3>6 DEF SumOver
  <2> HIDE DEF bal, bond, del, pen, all, bal2, bond2, del2, pen2
  <2> QED
    BY <1>1, <1>2, <1>3, <1>4, <2>1, <2>2, <2>3, <2>4
<1>10. ASSUME NEW from \in Accounts, NEW fee \in Fees, NEW amount \in Amounts, NEW id \in Ids,
              Delegate(from, id, amount, fee)
       PROVE  Conserved'
  <2>1. bal2 + (amount + fee) = bal /\ amount \in Nat /\ fee \in Nat
    BY <1>0, <1>10, PayMoves DEF Delegate
  <2> DEFINE d == delegations[<<from, id>>]
  <2>2. del2 + d = del + (d + amount) /\ d \in Nat
    <3>1. d + amount \in Nat /\ d \in Nat
      BY <1>0, <2>1
    <3>2. delegations' = [delegations EXCEPT ![<<from, id>>] = d + amount]
      BY <1>10 DEF Delegate
    <3>3. /\ delegations' \in [Accounts \X Ids -> Nat] /\ delegations'[<<from, id>>] = d + amount
          /\ \A q \in (Accounts \X Ids) \ {<<from, id>>} : delegations'[q] = delegations[q]
          /\ <<from, id>> \in Accounts \X Ids
      BY <1>0, <3>1, <3>2
    <3> QED
      BY <1>0, <3>1, <3>3, SumOverChange, SMTT(40)
  <2>3. bond2 = bond /\ pen2 = pen /\ burnt' = burnt + fee
    BY <1>5, <1>10 DEF Delegate, unbonds
  <2> HIDE DEF bal, bond, del, pen, all, bal2, bond2, del2, pen2, d
  <2> QED
    BY <1>1, <1>2, <1>3, <1>4, <2>1, <2>2, <2>3
<1>11. ASSUME NEW from \in Accounts, NEW fee \in Fees, NEW amount \in Amounts, NEW id \in Ids,
              Undelegate(from, id, amount, fee)
       PROVE  Conserved'
  <2>1. bal2 + (0 + fee) = bal /\ amount \in Nat /\ fee \in Nat
    BY <1>0, <1>11, PayMoves DEF Undelegate
  <2> DEFINE d == delegations[<<from, id>>]
  <2>2. del2 + d = del + (d - amount) /\ d \in Nat
    <3>1. d \in Nat
      BY <1>0
    <3>2. d - amount \in Nat
      BY <1>11, <2>1, <3>1 DEF Undelegate
    <3>3. delegations' = [delegations EXCEPT ![<<from, id>>] = d - amount]
      BY <1>11 DEF Undelegate
    <3>4. /\ delegations' \in [Accounts \X Ids -> Nat] /\ delegations'[<<from, id>>] = d - amount
          /\ \A q \in (Accounts \X Ids) \ {<<from, id>>} : delegations'[q] = delegations[q]
          /\ <<from, id>> \in Accounts \X Ids
      BY <1>0, <3>2, <3>3
    <3> QED
      BY <1>0, <3>1, <3>4, SumOverChange, SMTT(40)
  <2>3. bond2 = bond /\ pen2 = pen /\ burnt' = burnt + fee + amount
    BY <1>5, <1>11 DEF Undelegate, unbonds
  <2> HIDE DEF bal, bond, del, pen, all, bal2, bond2, del2, pen2, d
  <2> QED
    BY <1>1, <1>2, <1>3, <1>4, <2>1, <2>2, <2>3
<1>12. ASSUME NEW from \in Accounts, NEW fee \in Fees, NEW amount \in Amounts,
              Withdraw(from, amount, fee)
       PROVE  Conserved'
  <2>1. /\ amount \in Nat /\ fee \in Nat /\ balance[from] >= fee /\ balance[from] \in Nat
        /\ balance' = [balance EXCEPT ![from] = Credit(balance[from] - fee, amount)]
        /\ amount <= matured_withdrawable(from) /\ pending_unbond' = Withdrawn(from, amount)
        /\ burnt' = burnt + fee
    BY <1>0, <1>12 DEF Withdraw
  <2>2. pen2 + amount = pen
    <3> DEFINE D == DOMAIN pending_unbond
    <3>1. Matured(from) \subseteq D /\ D \in SUBSET DOMAIN pending_unbond
      BY DEF Matured
    <3>2. SumOf(amounts', D \cap DOMAIN pending_unbond') + amount = SumOf(amounts, D)
      BY <2>1, <3>1, WithdrawnLeaves
    <3>3. D \cap DOMAIN pending_unbond' = DOMAIN pending_unbond'
      BY <2>1 DEF Withdrawn
    <3>4. DOMAIN amounts = D /\ DOMAIN amounts' = DOMAIN pending_unbond'
      BY DEF amounts
    <3> QED
      BY <3>2, <3>3, <3>4 DEF SumOver
  <2> DEFINE v == balance[from] - fee
  <2> DEFINE after == [balance EXCEPT ![from] = v]
  <2>3. v \in Nat /\ v + fee = balance[from]
    BY <2>1
  <2>4. balance' = [after EXCEPT ![from] = Credit(@, amount)]
    <3>1. after[from] = v
      BY <1>0
    <3>2. [after EXCEPT ![from] = Credit(@, amount)] = [balance EXCEPT ![from] = Credit(v, amount)]
      BY <1>0, <3>1
    <3> QED
      BY <2>1, <3>2
  <2> HIDE DEF v
  <2>5. SumOver(after) + balance[from] = bal + v /\ after \in [Accounts -> Nat]
    <3>1. /\ after \in [Accounts -> Nat] /\ after[from] = v
          /\ \A a \in Accounts \ {from} : after[a] = balance[a]
      BY <1>0, <2>3
    <3> HIDE DEF after
    <3> QED
      BY <1>0, <3>1, SumOverChange
  <2> HIDE DEF after
  <2>6. SumOver(after) \in Nat
    BY <1>0, <2>5, SumOverType
  <2>7. SumOver(after) + fee = bal
    <3> HIDE DEF bal
    <3> QED
      BY <1>1, <2>1, <2>3, <2>5, <2>6
  <2>8. SumOver(after) + amount <= MaxAmount
    <3>1. all <= MaxAmount
      BY DEF SupplyFits
    <3> HIDE DEF bal, bond, del, pen, all, bal2, bond2, del2, pen2
    <3> QED
      BY <1>0, <1>1, <1>2, <1>3, <2>1, <2>2, <2>6, <2>7, <3>1
  <2>9. bal2 = SumOver(after) + amount
    <3>1. amount \in Nat
      BY <2>1
    <3>2. after \in [Accounts -> Nat]
      BY <2>5
    <3> QED
      BY <2>4, <2>8, <3>1, <3>2, CreditMoves
  <2>10. bond2 = bond /\ del2 = del
    BY <1>12 DEF Withdraw
  <2> HIDE DEF bal, bond, del, pen, all, bal2, bond2, del2, pen2
  <2> QED
    BY <1>1, <1>2, <1>3, <1>4, <2>1, <2>2, <2>6, <2>7, <2>9, <2>10
<1>13. ASSUME NEW id \in Ids, NEW ev, slash_apply(id, ev)
       PROVE  Conserved'
  <2> DEFINE cut == (self_bond[id] * Percent) \div 100
  <2>1. cut \in 0 .. self_bond[id] /\ self_bond[id] \in Nat
    BY <1>0, LedgerAssumption, PercentIsPart
  <2>2. /\ self_bond' = [self_bond EXCEPT ![id] = self_bond[id] - cut]
        /\ burnt' = burnt + cut
    BY <1>13 DEF slash_apply
  <2>3. bal2 = bal /\ del2 = del /\ pen2 = pen
    BY <1>5, <1>13 DEF slash_apply, unbonds
  <2> HIDE DEF cut
  <2>4. bond2 + self_bond[id] = bond + (self_bond[id] - cut)
    <3>1. self_bond[id] - cut \in Nat
      BY <2>1
    <3>2. /\ self_bond' \in [Ids -> Nat] /\ self_bond'[id] = self_bond[id] - cut
          /\ \A i \in Ids \ {id} : self_bond'[i] = self_bond[i]
      BY <1>0, <2>2, <3>1
    <3> QED
      BY <1>0, <3>2, SumOverChange
  <2> HIDE DEF bal, bond, del, pen, all, bal2, bond2, del2, pen2
  <2> QED
    BY <1>1, <1>2, <1>3, <1>4, <2>1, <2>2, <2>3, <2>4
<1>14. ASSUME UNCHANGED <<balance, self_bond, delegations, pending_unbond, burnt>>
       PROVE  Conserved'
  BY <1>14 DEF Conserved, amounts
<1>15. ASSUME NEW id, epoch_set_update \/ tombstone(id) \/ UNCHANGED ledger_vars
       PROVE  UNCHANGED <<balance, self_bond, delegations, pending_unbond, burnt>>
  BY <1>15 DEF epoch_set_update, tombstone, ledger_vars, book, unbonds
<1> HIDE DEF bal, bond, del, pen, all, bal2, bond2, del2, pen2
<1> QED
  BY <1>6, <1>7, <1>8, <1>9, <1>10, <1>11, <1>12, <1>13, <1>14, <1>15 DEF LedgerNext

\* As long as genesis gives out no more than a u128 holds, no transaction, slash or
\* withdrawal makes a token or loses one that is not burnt.
THEOREM TokensConserved ==
  ASSUME SupplyFits
  PROVE  LedgerSpec => []Conserved
<1>1. LedgerInit => Conserved
  <2> SUFFICES ASSUME LedgerInit PROVE Conserved
    OBVIOUS
  <2>1. LedgerTypeOK /\ HistoryTypeOK
    BY LedgerTypeInit
  <2>2. SumOver(self_bond) = 0 /\ SumOver(delegations) = 0 /\ SumOver(amounts) = 0
    <3>1. IsFiniteSet(Ids) /\ IsFiniteSet(Accounts \X Ids)
      BY LedgerAssumption, FS_Product
    <3>2. /\ DOMAIN self_bond = Ids /\ \A i \in Ids : self_bond[i] = 0
          /\ DOMAIN delegations = Accounts \X Ids
          /\ \A q \in Accounts \X Ids : delegations[q] = 0
          /\ DOMAIN amounts = {}
      BY DEF LedgerInit, amounts
    <3> QED
      BY <3>1, <3>2, SumZero, SumEmpty DEF SumOver
  <2>3. SumOver(balance) \in Nat
    BY <2>1, SumsType
  <2> QED
    BY <2>2, <2>3 DEF LedgerInit, Conserved
<1>2. LedgerInv /\ LedgerInv' /\ Conserved /\ [LedgerNext]_ledger_vars => Conserved'
  BY ConservedStep DEF LedgerInv
<1> QED
  BY <1>1, <1>2, LedgerInvariant, PTL DEF LedgerSpec

----------------------------------------------------------------------------
(* Block-STM.                                                              *)

Codes == {"counter", "reenter", "invalid"}

Worlds ==
    [bal : [Addresses -> Int], nonce : [Addresses -> Int], bonded : [Users -> Int],
     code : UNION {[D -> Codes] : D \in SUBSET Addresses}, slot : [Addresses -> Int],
     reads : SUBSET Addresses, writes : SUBSET Addresses]

Kinds == {"transfer", "bond", "unbond", "deploy", "call"}
Stakes(tx) == tx.kind \in {"bond", "unbond"}

----------------------------------------------------------------------------
(* One transaction.                                                        *)

LEMMA TxFacts ==
  ASSUME NEW tx \in Txs
  PROVE  /\ tx.from \in Users /\ tx.from \in Addresses /\ tx.nonce \in 0 .. MaxNonce
         /\ tx.kind \in Kinds
         /\ tx.kind \in {"transfer", "bond", "unbond"} => tx.amount \in Nat
         /\ tx.kind \in {"transfer", "call"} => tx.to \in Addresses
         /\ tx.kind = "deploy" => /\ tx.code \in Codes
                                  /\ create_address(tx.from, tx.nonce) \in Addresses
         /\ Fee \in Nat /\ Trap \in Nat
<1>1. tx \in TransferTx \cup StakeTx \cup DeployTx \cup CallTx
  BY StmAssumption
<1>2. CASE tx \in TransferTx
  BY <1>2, StmAssumption DEF TransferTx, Kinds, Addresses
<1>3. CASE tx \in StakeTx
  BY <1>3, StmAssumption DEF StakeTx, Kinds, Addresses
<1>4. CASE tx \in DeployTx
  BY <1>4, StmAssumption DEF DeployTx, Kinds, Addresses, Codes
<1>5. CASE tx \in CallTx
  BY <1>5, StmAssumption DEF CallTx, Kinds, Addresses
<1> QED
  BY <1>1, <1>2, <1>3, <1>4, <1>5

\* The receipt, from what the transaction looks at.
Verdict(w, tx) ==
    IF tx.nonce # w.nonce[tx.from] THEN "nonce"
    ELSE IF w.bal[tx.from] < Debit(tx) + Fee THEN "balance"
    ELSE IF tx.kind = "unbond" /\ w.bonded[tx.from] < tx.amount THEN "stake"
    ELSE IF tx.kind = "deploy" /\ tx.code = "invalid" THEN "wasm_invalid"
    ELSE IF tx.kind = "call" /\ tx.to \notin DOMAIN w.code THEN "wasm_no_code"
    ELSE IF tx.kind = "call" /\ w.code[tx.to] = "reenter" THEN "wasm_reentrancy"
    ELSE IF tx.kind = "call" /\ w.code[tx.to] = "counter" /\ w.slot[tx.to] >= Trap
    THEN "wasm_invalid"
    ELSE "ok"

\* What a transaction that succeeds makes of world w.
Effect(w, x, tx) ==
    /\ x \in Worlds
    /\ \A a \in Addresses :
           /\ x.bal[a] = w.bal[a] - (IF a = tx.from THEN Debit(tx) + Fee ELSE 0)
                                  + (IF tx.kind = "transfer" /\ a = tx.to THEN tx.amount ELSE 0)
           /\ x.nonce[a] = w.nonce[a] + (IF a = tx.from THEN 1 ELSE 0)
           /\ x.slot[a] = w.slot[a] + (IF tx.kind = "call" /\ a = tx.to THEN 1 ELSE 0)
    /\ \A u \in Users :
           x.bonded[u] = w.bonded[u] + (IF u = tx.from /\ tx.kind = "bond" THEN tx.amount
                                        ELSE IF u = tx.from /\ tx.kind = "unbond" THEN -tx.amount
                                        ELSE 0)
    /\ x.code = IF tx.kind = "deploy"
                THEN [y \in DOMAIN w.code \cup {create_address(tx.from, tx.nonce)} |->
                          IF y = create_address(tx.from, tx.nonce) THEN tx.code ELSE w.code[y]]
                ELSE w.code
    /\ x.reads = IF tx.kind = "call" THEN {tx.to} ELSE {}
    /\ x.writes = x.reads

LEMMA ClearedFacts ==
  ASSUME NEW w \in Worlds
  PROVE  /\ Cleared(w) \in Worlds /\ Cleared(w).reads = {} /\ Cleared(w).writes = {}
         /\ Cleared(w).bal = w.bal /\ Cleared(w).nonce = w.nonce
         /\ Cleared(w).bonded = w.bonded /\ Cleared(w).code = w.code
         /\ Cleared(w).slot = w.slot /\ Cleared(Cleared(w)) = Cleared(w)
  BY DEF Cleared, Worlds

\* Worlds with the same fields are the same.
LEMMA SameFields ==
  ASSUME NEW w \in Worlds, NEW v \in Worlds,
         w.bal = v.bal, w.nonce = v.nonce, w.bonded = v.bonded, w.code = v.code, w.slot = v.slot
  PROVE  Cleared(w) = Cleared(v)
  BY DEF Cleared, Worlds

LEMMA PaidFacts ==
  ASSUME NEW w \in Worlds, NEW tx \in Txs, NEW pay \in Int
  PROVE  /\ Paid(w, tx, pay) \in Worlds
         /\ Paid(w, tx, pay).bal = [w.bal EXCEPT ![tx.from] = @ - pay]
         /\ Paid(w, tx, pay).nonce = [w.nonce EXCEPT ![tx.from] = @ + 1]
         /\ Paid(w, tx, pay).bonded = w.bonded /\ Paid(w, tx, pay).code = w.code
         /\ Paid(w, tx, pay).slot = w.slot
         /\ Paid(w, tx, pay).reads = w.reads /\ Paid(w, tx, pay).writes = w.writes
<1> DEFINE p == Paid(w, tx, pay)
<1> DEFINE q == [w EXCEPT !.bal[tx.from] = @ - pay]
<1>1. tx.from \in Addresses
  BY TxFacts
<1>2. /\ q \in Worlds /\ q.bal = [w.bal EXCEPT ![tx.from] = @ - pay]
      /\ q.nonce = w.nonce /\ q.bonded = w.bonded /\ q.code = w.code /\ q.slot = w.slot
      /\ q.reads = w.reads /\ q.writes = w.writes
  BY <1>1 DEF Worlds
<1>3. p = [q EXCEPT !.nonce[tx.from] = @ + 1]
  BY DEF Paid
<1> HIDE DEF p, q
<1>4. /\ p \in Worlds /\ p.nonce = [q.nonce EXCEPT ![tx.from] = @ + 1]
      /\ p.bal = q.bal /\ p.bonded = q.bonded /\ p.code = q.code /\ p.slot = q.slot
      /\ p.reads = q.reads /\ p.writes = q.writes
  BY <1>1, <1>2, <1>3, SMTT(40) DEF Worlds
<1> QED
  BY <1>2, <1>4 DEF p

LEMMA TransferEffect ==
  ASSUME NEW w \in Worlds, w.reads = {}, w.writes = {}, NEW tx \in Txs, tx.kind = "transfer"
  PROVE  /\ apply_transfer(w, tx).receipt = "ok"
         /\ Effect(w, apply_transfer(w, tx).world, tx)
<1> DEFINE pay == tx.amount + Fee
<1> DEFINE p == Paid(w, tx, pay)
<1> DEFINE x == [p EXCEPT !.bal[tx.to] = @ + tx.amount]
<1>1. /\ tx.from \in Addresses /\ tx.to \in Addresses /\ tx.amount \in Nat /\ Fee \in Nat
      /\ pay \in Int /\ Debit(tx) + Fee = pay
  BY TxFacts DEF Debit
<1> HIDE DEF pay
<1>2. /\ p \in Worlds /\ p.bal = [w.bal EXCEPT ![tx.from] = @ - pay]
      /\ p.nonce = [w.nonce EXCEPT ![tx.from] = @ + 1]
      /\ p.bonded = w.bonded /\ p.code = w.code /\ p.slot = w.slot
      /\ p.reads = {} /\ p.writes = {}
  BY <1>1, PaidFacts
<1> HIDE DEF p
<1>3. /\ x \in Worlds /\ x.bal = [p.bal EXCEPT ![tx.to] = @ + tx.amount]
      /\ x.nonce = p.nonce /\ x.bonded = p.bonded /\ x.code = p.code /\ x.slot = p.slot
      /\ x.reads = {} /\ x.writes = {}
  BY <1>1, <1>2, SMTT(40) DEF Worlds
<1> HIDE DEF x
<1>4. w.bal \in [Addresses -> Int] /\ w.nonce \in [Addresses -> Int] /\ w.slot \in [Addresses -> Int]
      /\ w.bonded \in [Users -> Int]
  BY DEF Worlds
<1>5. Effect(w, x, tx)
  BY <1>1, <1>2, <1>3, <1>4 DEF Effect
<1>6. apply_transfer(w, tx) = Succeeds(x)
  BY DEF apply_transfer, x, p, pay
<1> QED
  BY <1>5, <1>6 DEF Succeeds

LEMMA StakeEffect ==
  ASSUME NEW w \in Worlds, w.reads = {}, w.writes = {}, NEW tx \in Txs, Stakes(tx)
  PROVE  IF tx.kind = "unbond" /\ w.bonded[tx.from] < tx.amount
         THEN apply_stake(w, tx) = Fails(w, "stake")
         ELSE /\ apply_stake(w, tx).receipt = "ok"
              /\ Effect(w, apply_stake(w, tx).world, tx)
<1> DEFINE debit == IF tx.kind = "bond" THEN tx.amount ELSE 0
<1> DEFINE signed == IF tx.kind = "bond" THEN tx.amount ELSE -tx.amount
<1> DEFINE p == Paid(w, tx, debit + Fee)
<1> DEFINE x == [p EXCEPT !.bonded[tx.from] = @ + signed]
<1>1. /\ tx.from \in Addresses /\ tx.from \in Users /\ tx.amount \in Nat /\ Fee \in Nat
      /\ debit \in Nat /\ signed \in Int /\ Debit(tx) = debit /\ tx.kind \in {"bond", "unbond"}
  BY TxFacts DEF Debit, Stakes
<1>2. /\ p \in Worlds /\ p.bal = [w.bal EXCEPT ![tx.from] = @ - (debit + Fee)]
      /\ p.nonce = [w.nonce EXCEPT ![tx.from] = @ + 1]
      /\ p.bonded = w.bonded /\ p.code = w.code /\ p.slot = w.slot
      /\ p.reads = {} /\ p.writes = {}
  BY <1>1, PaidFacts
<1> HIDE DEF p
<1>3. /\ x \in Worlds /\ x.bonded = [p.bonded EXCEPT ![tx.from] = @ + signed]
      /\ x.nonce = p.nonce /\ x.bal = p.bal /\ x.code = p.code /\ x.slot = p.slot
      /\ x.reads = {} /\ x.writes = {}
  BY <1>1, <1>2, SMTT(40) DEF Worlds
<1> HIDE DEF x
<1>4. w.bal \in [Addresses -> Int] /\ w.nonce \in [Addresses -> Int] /\ w.slot \in [Addresses -> Int]
      /\ w.bonded \in [Users -> Int]
  BY DEF Worlds
<1>5. Effect(w, x, tx)
  BY <1>1, <1>2, <1>3, <1>4 DEF Effect
<1>6. apply_stake(w, tx) = IF tx.kind = "unbond" /\ w.bonded[tx.from] < tx.amount
                           THEN Fails(w, "stake") ELSE Succeeds(x)
  BY DEF apply_stake, x, p
<1> QED
  BY <1>5, <1>6 DEF Succeeds

LEMMA DeployEffect ==
  ASSUME NEW w \in Worlds, w.reads = {}, w.writes = {}, NEW tx \in Txs, tx.kind = "deploy"
  PROVE  IF tx.code = "invalid"
         THEN apply_deploy(w, tx) = Fails(w, "wasm_invalid")
         ELSE /\ apply_deploy(w, tx).receipt = "ok"
              /\ Effect(w, apply_deploy(w, tx).world, tx)
<1> DEFINE c == create_address(tx.from, tx.nonce)
<1> DEFINE p == Paid(w, tx, Fee)
<1> DEFINE x == [p EXCEPT
                   !.code = [y \in DOMAIN @ \cup {c} |-> IF y = c THEN tx.code ELSE @[y]]]
<1>1. /\ tx.from \in Addresses /\ tx.code \in Codes /\ Fee \in Nat
      /\ Debit(tx) = 0 /\ c \in Addresses
  BY TxFacts DEF Debit
<1>2. /\ p \in Worlds /\ p.bal = [w.bal EXCEPT ![tx.from] = @ - Fee]
      /\ p.nonce = [w.nonce EXCEPT ![tx.from] = @ + 1]
      /\ p.bonded = w.bonded /\ p.code = w.code /\ p.slot = w.slot
      /\ p.reads = {} /\ p.writes = {}
  BY <1>1, PaidFacts
<1>3. apply_deploy(w, tx) = IF tx.code = "invalid" THEN Fails(w, "wasm_invalid") ELSE Succeeds(x)
  BY DEF apply_deploy
<1> HIDE DEF p, c
<1>4. PICK D \in SUBSET Addresses : w.code \in [D -> Codes]
  BY DEF Worlds
<1> DEFINE code == [y \in DOMAIN w.code \cup {c} |-> IF y = c THEN tx.code ELSE w.code[y]]
<1>5. code \in [D \cup {c} -> Codes] /\ D \cup {c} \in SUBSET Addresses
  BY <1>1, <1>4
<1>6. x = [p EXCEPT !.code = code]
  BY <1>2
<1> HIDE DEF code, x
<1>7. /\ x \in Worlds /\ x.bonded = p.bonded /\ x.code = code
      /\ x.nonce = p.nonce /\ x.bal = p.bal /\ x.slot = p.slot
      /\ x.reads = {} /\ x.writes = {}
  BY <1>2, <1>5, <1>6 DEF Worlds
<1>8. w.bal \in [Addresses -> Int] /\ w.nonce \in [Addresses -> Int] /\ w.slot \in [Addresses -> Int]
      /\ w.bonded \in [Users -> Int]
  BY DEF Worlds
<1>9. Effect(w, x, tx)
  BY <1>1, <1>2, <1>7, <1>8 DEF Effect, code, c
<1> QED
  BY <1>3, <1>9 DEF Succeeds

LEMMA CallEffect ==
  ASSUME NEW w \in Worlds, w.reads = {}, w.writes = {}, NEW tx \in Txs, tx.kind = "call"
  PROVE  IF tx.to \notin DOMAIN w.code THEN apply_call(w, tx) = Fails(w, "wasm_no_code")
         ELSE IF w.code[tx.to] = "reenter" THEN apply_call(w, tx) = Fails(w, "wasm_reentrancy")
         ELSE IF w.code[tx.to] = "counter" /\ w.slot[tx.to] >= Trap
         THEN apply_call(w, tx) = Fails(w, "wasm_invalid")
         ELSE /\ apply_call(w, tx).receipt = "ok"
              /\ Effect(w, apply_call(w, tx).world, tx)
<1> DEFINE p == Paid(w, tx, Fee)
<1> DEFINE x == Counted(p, tx.to)
<1> DEFINE y == [p EXCEPT !.reads = @ \cup {tx.to}]
<1> DEFINE r == execute(p, tx.to)
<1>1. tx.from \in Addresses /\ tx.to \in Addresses /\ Fee \in Nat /\ Debit(tx) = 0
  BY TxFacts DEF Debit
<1>2. /\ p \in Worlds /\ p.bal = [w.bal EXCEPT ![tx.from] = @ - Fee]
      /\ p.nonce = [w.nonce EXCEPT ![tx.from] = @ + 1]
      /\ p.bonded = w.bonded /\ p.code = w.code /\ p.slot = w.slot
      /\ p.reads = {} /\ p.writes = {}
  BY <1>1, PaidFacts
<1>3. apply_call(w, tx) = IF tx.to \notin DOMAIN w.code THEN Fails(w, "wasm_no_code")
                          ELSE IF r.receipt = "ok" THEN r ELSE Fails(w, r.receipt)
  BY DEF apply_call
<1> HIDE DEF p
<1>4. r = CASE w.code[tx.to] = "reenter" -> Fails(x, "wasm_reentrancy")
            [] w.code[tx.to] = "counter" /\ w.slot[tx.to] >= Trap -> Fails(y, "wasm_invalid")
            [] OTHER -> Succeeds(x)
  BY <1>2 DEF execute
<1>5. /\ x \in Worlds /\ x.slot = [p.slot EXCEPT ![tx.to] = @ + 1]
      /\ x.reads = {tx.to} /\ x.writes = {tx.to}
      /\ x.bal = p.bal /\ x.nonce = p.nonce /\ x.bonded = p.bonded /\ x.code = p.code
  <2> DEFINE q == [p EXCEPT !.slot[tx.to] = @ + 1]
  <2>1. /\ q \in Worlds /\ q.slot = [p.slot EXCEPT ![tx.to] = @ + 1]
        /\ q.reads = p.reads /\ q.writes = p.writes
        /\ q.bal = p.bal /\ q.nonce = p.nonce /\ q.bonded = p.bonded /\ q.code = p.code
    BY <1>1, <1>2, SMTT(40) DEF Worlds
  <2>2. x = [q EXCEPT !.reads = @ \cup {tx.to}, !.writes = @ \cup {tx.to}]
    BY DEF Counted
  <2> HIDE DEF q, x
  <2> QED
    BY <1>1, <1>2, <2>1, <2>2, ZenonT(40) DEF Worlds
<1> HIDE DEF x, y, r
<1>6. w.bal \in [Addresses -> Int] /\ w.nonce \in [Addresses -> Int] /\ w.slot \in [Addresses -> Int]
      /\ w.bonded \in [Users -> Int]
  BY DEF Worlds
<1>7. Effect(w, x, tx)
  BY <1>1, <1>2, <1>5, <1>6 DEF Effect
<1>8. CASE w.code[tx.to] = "reenter"
  BY <1>3, <1>4, <1>8 DEF Fails
<1>9. CASE w.code[tx.to] = "counter" /\ w.slot[tx.to] >= Trap
  BY <1>3, <1>4, <1>9 DEF Fails
<1>10. CASE w.code[tx.to] # "reenter" /\ ~(w.code[tx.to] = "counter" /\ w.slot[tx.to] >= Trap)
  <2>1. r = Succeeds(x)
    BY <1>4, <1>10
  <2> QED
    BY <1>3, <1>7, <1>10, <2>1 DEF Succeeds
<1> QED
  BY <1>8, <1>9, <1>10

\* A transaction fails and leaves the world as it was, or has its effect.
LEMMA Outcome ==
  ASSUME NEW w \in Worlds, NEW tx \in Txs
  PROVE  /\ apply_tx(w, tx).receipt = Verdict(w, tx)
         /\ IF Verdict(w, tx) = "ok" THEN Effect(Cleared(w), apply_tx(w, tx).world, tx)
            ELSE apply_tx(w, tx).world = Cleared(w)
<1> DEFINE c == Cleared(w)
<1> DEFINE r == apply_tx(w, tx)
<1>1. /\ c \in Worlds /\ c.reads = {} /\ c.writes = {} /\ c.bal = w.bal /\ c.nonce = w.nonce
      /\ c.bonded = w.bonded /\ c.code = w.code /\ c.slot = w.slot
  BY ClearedFacts
<1>2. r = CASE tx.nonce # c.nonce[tx.from] -> Fails(c, "nonce")
            [] tx.nonce = c.nonce[tx.from] /\ c.bal[tx.from] < Debit(tx) + Fee
                 -> Fails(c, "balance")
            [] OTHER ->
                 CASE tx.kind \in {"bond", "unbond"} -> apply_stake(c, tx)
                   [] tx.kind = "deploy" -> apply_deploy(c, tx)
                   [] tx.kind = "call" -> apply_call(c, tx)
                   [] OTHER -> apply_transfer(c, tx)
  BY DEF apply_tx
<1>3. tx.kind \in Kinds
  BY TxFacts
<1> HIDE DEF c, r
<1> DEFINE Goal == /\ r.receipt = Verdict(w, tx)
                   /\ IF Verdict(w, tx) = "ok" THEN Effect(c, r.world, tx) ELSE r.world = c
<1> SUFFICES Goal
  BY DEF c, r
<1>4. CASE tx.nonce # w.nonce[tx.from]
  BY <1>1, <1>2, <1>4 DEF Fails, Verdict
<1>5. CASE tx.nonce = w.nonce[tx.from] /\ w.bal[tx.from] < Debit(tx) + Fee
  BY <1>1, <1>2, <1>5 DEF Fails, Verdict
<1>6. CASE tx.nonce = w.nonce[tx.from] /\ ~(w.bal[tx.from] < Debit(tx) + Fee)
  <2>1. CASE tx.kind = "transfer"
    <3>1. r = apply_transfer(c, tx)
      BY <1>1, <1>2, <1>6, <2>1
    <3>2. Verdict(w, tx) = "ok"
      BY <1>6, <2>1 DEF Verdict
    <3> QED
      BY <1>1, <2>1, <3>1, <3>2, TransferEffect
  <2>2. CASE Stakes(tx)
    <3>1. r = apply_stake(c, tx)
      BY <1>1, <1>2, <1>6, <2>2 DEF Stakes
    <3>2. Verdict(w, tx) = IF tx.kind = "unbond" /\ w.bonded[tx.from] < tx.amount
                           THEN "stake" ELSE "ok"
      BY <1>6, <2>2 DEF Verdict, Stakes
    <3> QED
      BY <1>1, <2>2, <3>1, <3>2, StakeEffect DEF Fails
  <2>3. CASE tx.kind = "deploy"
    <3>1. r = apply_deploy(c, tx)
      BY <1>1, <1>2, <1>6, <2>3
    <3>2. Verdict(w, tx) = IF tx.code = "invalid" THEN "wasm_invalid" ELSE "ok"
      BY <1>6, <2>3 DEF Verdict
    <3> QED
      BY <1>1, <2>3, <3>1, <3>2, DeployEffect DEF Fails
  <2>4. CASE tx.kind = "call"
    <3>1. r = apply_call(c, tx)
      BY <1>1, <1>2, <1>6, <2>4
    <3>2. Verdict(w, tx) =
            IF tx.to \notin DOMAIN w.code THEN "wasm_no_code"
            ELSE IF w.code[tx.to] = "reenter" THEN "wasm_reentrancy"
            ELSE IF w.code[tx.to] = "counter" /\ w.slot[tx.to] >= Trap THEN "wasm_invalid"
            ELSE "ok"
      BY <1>6, <2>4 DEF Verdict
    <3> QED
      BY <1>1, <2>4, <3>1, <3>2, CallEffect DEF Fails
  <2> QED
    BY <1>3, <2>1, <2>2, <2>3, <2>4 DEF Kinds, Stakes
<1> QED
  BY <1>4, <1>5, <1>6

----------------------------------------------------------------------------
(* What a transaction depends on and what it changes.                      *)

\* The accounts it names.
Names(tx) ==
    {tx.from} \cup (IF tx.kind \in {"transfer", "call"} THEN {tx.to}
                    ELSE IF tx.kind = "deploy" THEN {create_address(tx.from, tx.nonce)}
                    ELSE {})

\* Two worlds have the same account a, with its code and storage.
Same(w, v, a) ==
    /\ w.bal[a] = v.bal[a] /\ w.nonce[a] = v.nonce[a] /\ w.slot[a] = v.slot[a]
    /\ a \in DOMAIN w.code <=> a \in DOMAIN v.code
    /\ a \in DOMAIN w.code => w.code[a] = v.code[a]

LEMMA NamesFacts ==
  ASSUME NEW tx \in Txs
  PROVE  /\ Names(tx) \subseteq Addresses
         /\ \A a \in Addresses : AccountKey(a) \in inferred_keys(tx) <=> a \in Names(tx)
         /\ \A a \in Addresses : StorageKey(a) \notin inferred_keys(tx)
         /\ StakingSlot \in inferred_keys(tx) <=> Stakes(tx)
         /\ inferred_keys(tx) \subseteq Keys
<1>0. /\ \A a, b : AccountKey(a) # StorageKey(b)
      /\ \A a, b : AccountKey(a) = AccountKey(b) => a = b
      /\ \A a : AccountKey(a) # StakingSlot /\ StorageKey(a) # StakingSlot
  BY DEF AccountKey, StorageKey, StakingSlot
<1>1. CASE tx.kind \in {"transfer", "call"}
  <2>1. inferred_keys(tx) = {AccountKey(tx.from), AccountKey(tx.to)}
    BY <1>1 DEF inferred_keys
  <2> QED
    BY <1>0, <1>1, <2>1, TxFacts DEF Names, Stakes, Keys
<1>2. CASE tx.kind = "deploy"
  <2>1. inferred_keys(tx) = {AccountKey(tx.from), AccountKey(create_address(tx.from, tx.nonce))}
    BY <1>2 DEF inferred_keys
  <2> QED
    BY <1>0, <1>2, <2>1, TxFacts DEF Names, Stakes, Keys
<1>3. CASE tx.kind \in {"bond", "unbond"}
  <2>1. inferred_keys(tx) = {AccountKey(tx.from), StakingSlot}
    BY <1>3 DEF inferred_keys
  <2> QED
    BY <1>0, <1>3, <2>1, TxFacts DEF Names, Stakes, Keys
<1> QED
  BY <1>1, <1>2, <1>3, TxFacts DEF Kinds

\* It changes nothing else.
LEMMA Frame ==
  ASSUME NEW w \in Worlds, NEW tx \in Txs, NEW x, x = apply_tx(w, tx).world
  PROVE  /\ x \in Worlds /\ x.writes = x.reads /\ x.writes \subseteq Names(tx)
         /\ DOMAIN w.code \subseteq DOMAIN x.code
         /\ \A a \in Addresses : a \notin Names(tx) => Same(x, w, a)
         /\ \A a \in Addresses : a \notin x.writes => x.slot[a] = w.slot[a]
         /\ ~Stakes(tx) => x.bonded = w.bonded
         /\ apply_tx(w, tx).receipt # "ok" => x = Cleared(w)
<1> DEFINE c == Cleared(w)
<1>1. /\ c \in Worlds /\ c.reads = {} /\ c.writes = {} /\ c.bal = w.bal /\ c.nonce = w.nonce
      /\ c.bonded = w.bonded /\ c.code = w.code /\ c.slot = w.slot
  BY ClearedFacts
<1>2. apply_tx(w, tx).receipt = Verdict(w, tx)
  BY Outcome
<1> HIDE DEF c
<1>3. CASE Verdict(w, tx) # "ok"
  <2>1. x = c
    BY <1>3, Outcome DEF c
  <2> QED
    BY <1>1, <2>1 DEF Same, c
<1>4. CASE Verdict(w, tx) = "ok"
  <2>1. Effect(c, x, tx)
    BY <1>4, Outcome DEF c
  <2>2. /\ w.bal \in [Addresses -> Int] /\ w.nonce \in [Addresses -> Int]
        /\ w.slot \in [Addresses -> Int] /\ w.bonded \in [Users -> Int]
    BY DEF Worlds
  <2>3. x \in Worlds /\ x.writes = x.reads /\ x.writes \subseteq Names(tx)
    BY <2>1 DEF Effect, Names
  <2>4. ASSUME NEW a \in Addresses, a \notin Names(tx) PROVE Same(x, w, a)
    <3>1. /\ a # tx.from
          /\ tx.kind \in {"transfer", "call"} => a # tx.to
          /\ tx.kind = "deploy" => a # create_address(tx.from, tx.nonce)
      BY <2>4 DEF Names
    <3>2. x.bal[a] = w.bal[a] /\ x.nonce[a] = w.nonce[a] /\ x.slot[a] = w.slot[a]
      BY <1>1, <2>1, <2>2, <3>1 DEF Effect
    <3>3. /\ a \in DOMAIN x.code <=> a \in DOMAIN w.code
          /\ a \in DOMAIN w.code => x.code[a] = w.code[a]
      BY <1>1, <2>1, <3>1 DEF Effect
    <3> QED
      BY <3>2, <3>3 DEF Same
  <2>5. ASSUME NEW a \in Addresses, a \notin x.writes PROVE x.slot[a] = w.slot[a]
    BY <1>1, <2>1, <2>2, <2>5 DEF Effect
  <2>6. ASSUME ~Stakes(tx) PROVE x.bonded = w.bonded
    <3>1. \A u \in Users : x.bonded[u] = w.bonded[u]
      BY <1>1, <2>1, <2>2, <2>6 DEF Effect, Stakes
    <3>2. x.bonded \in [Users -> Int]
      BY <2>3 DEF Worlds
    <3> QED
      BY <2>2, <3>1, <3>2
  <2>7. DOMAIN w.code \subseteq DOMAIN x.code
    BY <1>1, <2>1 DEF Effect
  <2> QED
    BY <1>2, <1>4, <2>3, <2>4, <2>5, <2>6, <2>7
<1> QED
  BY <1>3, <1>4

\* It does the same in worlds that agree on what it names.
LEMMA Local ==
  ASSUME NEW w \in Worlds, NEW v \in Worlds, NEW tx \in Txs,
         \A a \in Names(tx) : Same(w, v, a),
         Stakes(tx) => w.bonded = v.bonded,
         NEW x, x = apply_tx(w, tx).world, NEW y, y = apply_tx(v, tx).world
  PROVE  /\ apply_tx(w, tx).receipt = apply_tx(v, tx).receipt
         /\ x.writes = y.writes
         /\ \A a \in Names(tx) : Same(x, y, a)
         /\ Stakes(tx) => x.bonded = y.bonded
<1> DEFINE c == Cleared(w)
<1> DEFINE d == Cleared(v)
<1>1. /\ c \in Worlds /\ c.reads = {} /\ c.writes = {} /\ c.bal = w.bal /\ c.nonce = w.nonce
      /\ c.bonded = w.bonded /\ c.code = w.code /\ c.slot = w.slot
  BY ClearedFacts
<1>2. /\ d \in Worlds /\ d.reads = {} /\ d.writes = {} /\ d.bal = v.bal /\ d.nonce = v.nonce
      /\ d.bonded = v.bonded /\ d.code = v.code /\ d.slot = v.slot
  BY ClearedFacts
<1>3. /\ Same(w, v, tx.from)
      /\ tx.kind = "call" => Same(w, v, tx.to)
  BY DEF Names
<1>4. Verdict(w, tx) = Verdict(v, tx)
  BY <1>3, Zenon DEF Verdict, Same, Stakes
<1>5. apply_tx(w, tx).receipt = Verdict(w, tx) /\ apply_tx(v, tx).receipt = Verdict(v, tx)
  BY Outcome
<1> HIDE DEF c, d
<1>6. CASE Verdict(w, tx) # "ok"
  <2>1. x = c /\ y = d
    BY <1>4, <1>6, Outcome DEF c, d
  <2>2. \A a \in Names(tx) : Same(x, y, a)
    BY <1>1, <1>2, <2>1 DEF Same
  <2> QED
    BY <1>1, <1>2, <1>4, <1>5, <2>1, <2>2
<1>7. CASE Verdict(w, tx) = "ok"
  <2>1. Effect(c, x, tx) /\ Effect(d, y, tx)
    BY <1>4, <1>7, Outcome DEF c, d
  <2>2. x.writes = y.writes
    BY <2>1 DEF Effect
  <2>3. ASSUME NEW a \in Names(tx) PROVE Same(x, y, a)
    <3>1. a \in Addresses /\ Same(w, v, a)
      BY NamesFacts
    <3>2. x.bal[a] = y.bal[a]
      BY <1>1, <1>2, <2>1, <3>1 DEF Effect, Same
    <3>3. x.nonce[a] = y.nonce[a]
      BY <1>1, <1>2, <2>1, <3>1 DEF Effect, Same
    <3>4. x.slot[a] = y.slot[a]
      BY <1>1, <1>2, <2>1, <3>1 DEF Effect, Same
    <3>5. /\ a \in DOMAIN x.code <=> a \in DOMAIN y.code
          /\ a \in DOMAIN x.code => x.code[a] = y.code[a]
      BY <1>1, <1>2, <2>1, <3>1 DEF Effect, Same
    <3> QED
      BY <3>2, <3>3, <3>4, <3>5 DEF Same
  <2>4. ASSUME Stakes(tx) PROVE x.bonded = y.bonded
    <3>1. \A u \in Users : x.bonded[u] = y.bonded[u]
      BY <1>1, <1>2, <2>1, <2>4 DEF Effect
    <3>2. x.bonded \in [Users -> Int] /\ y.bonded \in [Users -> Int]
      BY <2>1 DEF Effect, Worlds
    <3> QED
      BY <3>1, <3>2
  <2> QED
    BY <1>4, <1>5, <2>2, <2>3, <2>4
<1> QED
  BY <1>6, <1>7

\* A speculation of tx on world v.
SpecOn(s, v, tx) ==
    /\ s.world = apply_tx(v, tx).world /\ s.receipt = apply_tx(v, tx).receipt
    /\ s.reads = inferred_keys(tx) \cup {StorageKey(c) : c \in s.world.reads}
    /\ s.writes = (IF s.receipt = "ok" THEN s.reads ELSE {})
                    \cup {StorageKey(c) : c \in s.world.writes}

LEMMA SpecKeys ==
  ASSUME NEW v \in Worlds, NEW tx \in Txs, NEW s, SpecOn(s, v, tx)
  PROVE  /\ s.world \in Worlds /\ s.reads \subseteq Keys
         /\ s.receipt # "ok" => s.writes = {}
         /\ s.receipt = "ok" =>
                /\ \A a \in Addresses : /\ AccountKey(a) \in s.writes <=> a \in Names(tx)
                                        /\ StorageKey(a) \in s.writes <=> a \in s.world.writes
                /\ StakingSlot \in s.writes <=> Stakes(tx)
                /\ inferred_keys(tx) \subseteq s.writes
<1>1. /\ s.world \in Worlds /\ s.world.writes = s.world.reads
      /\ s.receipt # "ok" => s.world = Cleared(v)
  BY Frame DEF SpecOn
<1>2. s.world.reads \subseteq Addresses
  BY <1>1 DEF Worlds
<1>3. s.reads \subseteq Keys
  BY <1>2, NamesFacts DEF SpecOn, Keys
<1>4. ASSUME s.receipt # "ok" PROVE s.writes = {}
  <2>1. s.world.writes = {}
    BY <1>1, <1>4, ClearedFacts
  <2> QED
    BY <1>4, <2>1 DEF SpecOn
<1>5. ASSUME s.receipt = "ok"
      PROVE  s.writes = inferred_keys(tx) \cup {StorageKey(c) : c \in s.world.writes}
  BY <1>1, <1>5 DEF SpecOn
<1>6. /\ \A a, b : AccountKey(a) # StorageKey(b)
      /\ \A a, b : StorageKey(a) = StorageKey(b) => a = b
      /\ \A a : StorageKey(a) # StakingSlot
  BY DEF AccountKey, StorageKey, StakingSlot
<1> QED
  BY <1>1, <1>3, <1>4, <1>5, <1>6, NamesFacts

\* Merging a speculation into a world that has the same accounts gives what executing
\* the transaction there gives.
LEMMA Merged ==
  ASSUME NEW w \in Worlds, NEW v \in Worlds, NEW tx \in Txs, NEW s, SpecOn(s, v, tx),
         \A a \in Names(tx) : Same(w, v, a),
         Stakes(tx) => w.bonded = v.bonded
  PROVE  /\ merge_spec(w, s) \in Worlds
         /\ Cleared(merge_spec(w, s)) = Cleared(apply_tx(w, tx).world)
         /\ s.receipt = apply_tx(w, tx).receipt
<1> DEFINE m == merge_spec(w, s)
<1> DEFINE x == apply_tx(w, tx).world
<1> DEFINE y == s.world
<1>1. /\ x \in Worlds /\ x.writes \subseteq Names(tx) /\ DOMAIN w.code \subseteq DOMAIN x.code
      /\ \A a \in Addresses : a \notin Names(tx) => Same(x, w, a)
      /\ \A a \in Addresses : a \notin x.writes => x.slot[a] = w.slot[a]
      /\ ~Stakes(tx) => x.bonded = w.bonded
      /\ apply_tx(w, tx).receipt # "ok" => x = Cleared(w)
  BY Frame
<1>2. /\ s.receipt = apply_tx(w, tx).receipt /\ x.writes = y.writes
      /\ \A a \in Names(tx) : Same(x, y, a)
      /\ Stakes(tx) => x.bonded = y.bonded
  BY Local DEF SpecOn
<1>3. y \in Worlds
  BY SpecKeys
<1> HIDE DEF x, y
<1> DEFINE bal == [a \in Addresses |-> IF AccountKey(a) \in s.writes THEN y.bal[a] ELSE w.bal[a]]
<1> DEFINE nonce == [a \in Addresses |-> IF AccountKey(a) \in s.writes THEN y.nonce[a]
                                         ELSE w.nonce[a]]
<1> DEFINE code == [a \in DOMAIN w.code \cup {z \in DOMAIN y.code : AccountKey(z) \in s.writes} |->
                       IF AccountKey(a) \in s.writes /\ a \in DOMAIN y.code
                       THEN y.code[a] ELSE w.code[a]]
<1> DEFINE slot == [a \in Addresses |-> IF StorageKey(a) \in s.writes THEN y.slot[a] ELSE w.slot[a]]
<1> DEFINE bonded == IF StakingSlot \in s.writes THEN y.bonded ELSE w.bonded
<1>4. m = [w EXCEPT !.bal = bal, !.nonce = nonce, !.code = code, !.slot = slot,
                    !.bonded = bonded]
  BY DEF merge_spec, y
<1>5. /\ w.bal \in [Addresses -> Int] /\ w.nonce \in [Addresses -> Int]
      /\ w.slot \in [Addresses -> Int] /\ w.bonded \in [Users -> Int]
      /\ x.bal \in [Addresses -> Int] /\ x.nonce \in [Addresses -> Int]
      /\ x.slot \in [Addresses -> Int] /\ x.bonded \in [Users -> Int]
      /\ x.code \in UNION {[D -> Codes] : D \in SUBSET Addresses}
      /\ y.code \in UNION {[D -> Codes] : D \in SUBSET Addresses}
      /\ w.code \in UNION {[D -> Codes] : D \in SUBSET Addresses}
  BY <1>1, <1>3 DEF Worlds
<1>6. bal = x.bal /\ nonce = x.nonce /\ code = x.code /\ slot = x.slot /\ bonded = x.bonded
  <2>1. CASE s.receipt # "ok"
    <3>1. /\ s.writes = {} /\ x.bal = w.bal /\ x.nonce = w.nonce /\ x.bonded = w.bonded
          /\ x.code = w.code /\ x.slot = w.slot
      BY <1>1, <1>2, <2>1, SpecKeys, ClearedFacts
    <3> QED
      BY <1>5, <3>1
  <2>2. CASE s.receipt = "ok"
    <3>1. /\ \A a \in Addresses : /\ AccountKey(a) \in s.writes <=> a \in Names(tx)
                                  /\ StorageKey(a) \in s.writes <=> a \in x.writes
          /\ StakingSlot \in s.writes <=> Stakes(tx)
      BY <1>2, <2>2, SpecKeys DEF y
    <3>2. \A a \in Addresses : bal[a] = x.bal[a] /\ nonce[a] = x.nonce[a]
      BY <1>1, <1>2, <3>1 DEF Same
    <3>3. \A a \in Addresses : slot[a] = x.slot[a]
      BY <1>1, <1>2, <3>1 DEF Same
    <3>4. bonded = x.bonded
      BY <1>1, <1>2, <3>1
    <3>5. code = x.code
      <4>1. DOMAIN w.code \subseteq Addresses /\ DOMAIN y.code \subseteq Addresses
            /\ DOMAIN x.code \subseteq Addresses
        BY <1>5
      <4>2. \A a \in Addresses : a \in DOMAIN code <=> a \in DOMAIN x.code
        <5> TAKE a \in Addresses
        <5>1. CASE a \in Names(tx)
          BY <1>1, <1>2, <3>1, <4>1, <5>1 DEF Same
        <5>2. CASE a \notin Names(tx)
          BY <1>1, <3>1, <4>1, <5>2 DEF Same
        <5> QED
          BY <5>1, <5>2
      <4>3. DOMAIN code = DOMAIN x.code
        BY <4>1, <4>2
      <4>4. ASSUME NEW a \in DOMAIN code PROVE code[a] = x.code[a]
        <5>0. a \in Addresses /\ a \in DOMAIN x.code
          BY <4>1, <4>3, <4>4
        <5>1. CASE a \in Names(tx)
          BY <1>2, <3>1, <5>0, <5>1 DEF Same
        <5>2. CASE a \notin Names(tx)
          BY <1>1, <3>1, <5>0, <5>2 DEF Same
        <5> QED
          BY <5>1, <5>2
      <4>5. x.code = [a \in DOMAIN x.code |-> x.code[a]]
        BY <1>5
      <4> QED
        BY <4>3, <4>4, <4>5
    <3> QED
      BY <1>5, <3>2, <3>3, <3>4, <3>5, ZenonT(40)
  <2> QED
    BY <2>1, <2>2
<1> HIDE DEF bal, nonce, code, slot, bonded, m
<1>7. /\ m \in Worlds /\ m.bal = x.bal /\ m.nonce = x.nonce /\ m.code = x.code
      /\ m.slot = x.slot /\ m.bonded = x.bonded
  BY <1>4, <1>5, <1>6 DEF Worlds
<1>8. Cleared(m) = Cleared(x)
  BY <1>1, <1>7, SameFields
<1> QED
  BY <1>2, <1>7, <1>8 DEF m, x

----------------------------------------------------------------------------
(* Sequential execution of a block.                                        *)

SeqStep(r, tx) ==
    [world |-> apply_tx(r.world, tx).world,
     receipts |-> Append(r.receipts, apply_tx(r.world, tx).receipt)]

RunsTo(run, b, n) ==
    run = [k \in 0 .. n |-> IF k = 0 THEN [world |-> PreBlock, receipts |-> <<>>]
                            ELSE SeqStep(run[k - 1], b[k])]

SequentialOf(b) == CHOOSE run : RunsTo(run, b, Len(b))

LEMMA SequentialIs == Sequential = SequentialOf(block)
  BY DEF Sequential, SequentialOf, RunsTo, SeqStep

LEMMA RunExists ==
  ASSUME NEW b
  PROVE  \A n \in Nat : \E run : RunsTo(run, b, n)
<1> DEFINE P == {n \in Nat : \E run : RunsTo(run, b, n)}
<1> DEFINE zero == [world |-> PreBlock, receipts |-> <<>>]
<1>1. 0 \in P
  <2> DEFINE run == [k \in 0 .. 0 |-> zero]
  <2>1. RunsTo(run, b, 0)
    <3> HIDE DEF zero
    <3>1. \A k \in 0 .. 0 : k = 0
      OBVIOUS
    <3>2. run = [k \in 0 .. 0 |-> IF k = 0 THEN zero ELSE SeqStep(run[k - 1], b[k])]
      BY <3>1
    <3> QED
      BY <3>2 DEF RunsTo, zero
  <2> QED
    BY <2>1
<1>2. ASSUME NEW n \in Nat, n \in P PROVE n + 1 \in P
  <2>1. PICK f : RunsTo(f, b, n)
    BY <1>2
  <2> DEFINE run == [k \in 0 .. n + 1 |-> IF k = n + 1 THEN SeqStep(f[n], b[n + 1]) ELSE f[k]]
  <2>2. \A k \in 0 .. n : f[k] = IF k = 0 THEN zero ELSE SeqStep(f[k - 1], b[k])
    BY <2>1 DEF RunsTo
  <2> HIDE DEF zero
  <2>3. ASSUME NEW k \in 0 .. n + 1
        PROVE  run[k] = IF k = 0 THEN zero ELSE SeqStep(run[k - 1], b[k])
    <3>1. CASE k = n + 1
      <4>1. k # 0 /\ k - 1 = n /\ n \in 0 .. n + 1 /\ n # n + 1
        BY <3>1
      <4>2. run[n] = f[n] /\ run[k] = SeqStep(f[n], b[n + 1])
        BY <3>1, <4>1
      <4> HIDE DEF run
      <4> QED
        BY <3>1, <4>1, <4>2
    <3>2. CASE k # n + 1
      <4>1. k \in 0 .. n /\ (k # 0 => k - 1 \in 0 .. n + 1 /\ k - 1 # n + 1)
        BY <3>2
      <4>2. run[k] = f[k] /\ (k # 0 => run[k - 1] = f[k - 1])
        BY <3>2, <4>1
      <4> HIDE DEF run
      <4> QED
        BY <2>2, <4>1, <4>2
    <3> QED
      BY <3>1, <3>2
  <2>4. RunsTo(run, b, n + 1)
    <3>1. DOMAIN run = 0 .. n + 1 /\ run = [k \in 0 .. n + 1 |-> run[k]]
      OBVIOUS
    <3> HIDE DEF run
    <3>2. run = [k \in 0 .. n + 1 |-> IF k = 0 THEN zero ELSE SeqStep(run[k - 1], b[k])]
      BY <2>3, <3>1
    <3> QED
      BY <3>2 DEF RunsTo, zero
  <2> QED
    BY <2>4
<1> HIDE DEF P
<1>3. \A n \in Nat : n \in P
  BY <1>1, <1>2, NumberInduction
<1> QED
  BY <1>3 DEF P

LEMMA SequentialSteps ==
  ASSUME Len(block) \in Nat
  PROVE  /\ Sequential[0] = [world |-> PreBlock, receipts |-> <<>>]
         /\ \A n \in 0 .. Len(block) - 1 :
                Sequential[n + 1] = SeqStep(Sequential[n], block[n + 1])
<1> DEFINE run == SequentialOf(block)
<1>1. RunsTo(run, block, Len(block))
  BY RunExists DEF SequentialOf
<1> HIDE DEF run
<1>2. 0 \in 0 .. Len(block)
  OBVIOUS
<1>3. run[0] = [world |-> PreBlock, receipts |-> <<>>]
  BY <1>1, <1>2 DEF RunsTo
<1>4. ASSUME NEW n \in 0 .. Len(block) - 1
      PROVE  run[n + 1] = SeqStep(run[n], block[n + 1])
  <2>1. n + 1 \in 0 .. Len(block) /\ n + 1 # 0 /\ (n + 1) - 1 = n
    OBVIOUS
  <2>2. run[n + 1] = SeqStep(run[(n + 1) - 1], block[n + 1])
    BY <1>1, <2>1 DEF RunsTo
  <2> QED
    BY <2>1, <2>2
<1> QED
  BY <1>3, <1>4, SequentialIs DEF run

----------------------------------------------------------------------------
(* The inductive invariant.                                                *)

Reasons == {"nonce", "balance", "stake", "wasm_invalid", "wasm_no_code", "wasm_reentrancy", "ok"}

StmTypeOK ==
    /\ block \in [1 .. BlockLen -> Txs]
    /\ world \in Worlds
    /\ receipts \in Seq(Reasons) /\ Len(receipts) <= BlockLen
    /\ slots \in [Keys -> Nat]
    /\ phase \in {"speculate", "commit"}
    /\ phase = "speculate" =>
           slots = seed_and_read /\ receipts = <<>> /\ stale = {} /\ world = PreBlock

\* A speculation is one of the world before the block, and saw the first versions.
SpecsInv ==
    /\ DOMAIN specs \subseteq 1 .. BlockLen
    /\ phase = "commit" => DOMAIN specs = 1 .. BlockLen
    /\ \A i \in DOMAIN specs :
           /\ SpecOn(specs[i], PreBlock, block[i])
           /\ specs[i].observed = [k \in specs[i].reads |-> seed_and_read[k]]

\* Versions grow, and what has its first version is as it was before the block.
VersionInv ==
    /\ \A k \in Keys : slots[k] >= seed_and_read[k]
    /\ \A a \in Addresses :
           slots[AccountKey(a)] = seed_and_read[AccountKey(a)] => Same(world, PreBlock, a)
    /\ slots[StakingSlot] = seed_and_read[StakingSlot] => world.bonded = PreBlock.bonded

\* A transaction that is not stale and not committed has read the versions there are.
FreshInv ==
    phase = "commit" =>
        \A j \in Len(receipts) + 1 .. BlockLen :
            j \notin stale => \A k \in specs[j].reads : slots[k] = specs[j].observed[k]

StmInv ==
    /\ StmTypeOK
    /\ SpecsInv
    /\ VersionInv
    /\ FreshInv
    /\ SameAsSequential

LEMMA BlockFacts ==
  ASSUME StmTypeOK
  PROVE  /\ BlockLen \in Nat /\ Len(block) = BlockLen
         /\ \A i \in 1 .. BlockLen : block[i] \in Txs
<1>1. BlockLen \in Nat
  BY StmAssumption
<1>2. block \in Seq(Txs) /\ Len(block) = BlockLen
  BY <1>1 DEF StmTypeOK
<1> QED
  BY <1>1, <1>2 DEF StmTypeOK

LEMMA PreBlockType == PreBlock \in Worlds /\ Cleared(PreBlock) = PreBlock
<1> DEFINE bal == [a \in Addresses |-> IF a \in Users THEN Genesis[a] ELSE 0]
<1>1. bal \in [Addresses -> Int]
  BY StmAssumption
<1>2. Installed \in UNION {[D -> Codes] : D \in SUBSET Addresses}
  <2>1. DOMAIN Installed \in SUBSET Addresses
    BY DEF Addresses
  <2>2. Installed \in [DOMAIN Installed -> Codes]
    BY StmAssumption DEF Codes
  <2> QED
    BY <2>1, <2>2
<1>3. /\ [a \in Addresses |-> 0] \in [Addresses -> Int]
      /\ [u \in Users |-> 0] \in [Users -> Int]
  OBVIOUS
<1>4. PreBlock = [bal |-> bal, nonce |-> [a \in Addresses |-> 0], bonded |-> [u \in Users |-> 0],
                  code |-> Installed, slot |-> [a \in Addresses |-> 0],
                  reads |-> {}, writes |-> {}]
  BY DEF PreBlock
<1> HIDE DEF bal
<1>5. PreBlock \in Worlds
  BY <1>1, <1>2, <1>3, <1>4 DEF Worlds
<1>6. PreBlock.reads = {} /\ PreBlock.writes = {}
  BY <1>4
<1> QED
  BY <1>5, <1>6 DEF Cleared, Worlds

LEMMA SeedType == seed_and_read \in [Keys -> Nat]
  BY DEF seed_and_read

LEMMA KeyFacts ==
  /\ StakingSlot \in Keys
  /\ \A a \in Addresses : AccountKey(a) \in Keys /\ StorageKey(a) \in Keys
  BY DEF Keys

LEMMA StmInit == Init => StmInv
<1> SUFFICES ASSUME Init PROVE StmInv
  OBVIOUS
<1>1. StmTypeOK
  <2>1. receipts \in Seq(Reasons) /\ Len(receipts) = 0
    BY DEF Init
  <2> QED
    BY <2>1, PreBlockType, SeedType, StmAssumption DEF Init, StmTypeOK
<1>2. SpecsInv
  BY DEF Init, SpecsInv
<1>3. VersionInv
  BY SeedType DEF Init, VersionInv, Same
<1>4. FreshInv
  BY DEF Init, FreshInv
<1>5. SameAsSequential
  <2>1. Len(receipts) = 0 /\ receipts = <<>> /\ world = PreBlock
    BY DEF Init
  <2>2. Sequential[0] = [world |-> PreBlock, receipts |-> <<>>]
    BY <1>1, BlockFacts, SequentialSteps
  <2> QED
    BY <2>1, <2>2 DEF SameAsSequential
<1> QED
  BY <1>1, <1>2, <1>3, <1>4, <1>5 DEF StmInv

\* A thread ends.
LEMMA SpeculateStep == StmInv /\ Speculate => StmInv'
<1> SUFFICES ASSUME StmInv, Speculate PROVE StmInv'
  OBVIOUS
<1>1. /\ phase = "speculate"
      /\ UNCHANGED <<block, slots, stale, world, receipts, phase>>
  BY DEF Speculate
<1>2. PICK i \in (1 .. Len(block)) \ DOMAIN specs :
        specs' = [j \in DOMAIN specs \cup {i} |-> IF j = i THEN speculate_one(i) ELSE specs[j]]
  BY DEF Speculate
<1>3. i \in 1 .. BlockLen /\ Len(block) = BlockLen
  BY <1>2, BlockFacts DEF StmInv
<1>4. seed_and_read' = seed_and_read /\ slots = seed_and_read /\ Sequential' = Sequential
  <2>1. Sequential' = SequentialOf(block')
    BY DEF Sequential, SequentialOf, RunsTo, SeqStep
  <2> QED
    BY <1>1, <2>1, SequentialIs DEF StmInv, StmTypeOK, seed_and_read
<1> DEFINE s == speculate_one(i)
<1>5. SpecOn(s, PreBlock, block[i]) /\ s.observed = [k \in s.reads |-> seed_and_read[k]]
  BY <1>4 DEF speculate_one, SpecOn
<1> HIDE DEF s
<1>6. SpecsInv'
  <2>1. DOMAIN specs' = DOMAIN specs \cup {i}
    BY <1>2
  <2>2. ASSUME NEW j \in DOMAIN specs'
        PROVE  /\ SpecOn(specs'[j], PreBlock, block'[j])
               /\ specs'[j].observed = [k \in specs'[j].reads |-> seed_and_read[k]]
    <3>1. CASE j = i
      BY <1>1, <1>2, <1>5, <3>1 DEF s
    <3>2. CASE j # i
      BY <1>1, <1>2, <2>1, <3>2 DEF StmInv, SpecsInv
    <3> QED
      BY <3>1, <3>2
  <2> QED
    BY <1>1, <1>3, <1>4, <2>1, <2>2 DEF StmInv, SpecsInv
<1>7. StmTypeOK' /\ VersionInv' /\ FreshInv' /\ SameAsSequential'
  BY <1>1, <1>4 DEF StmInv, StmTypeOK, VersionInv, FreshInv, SameAsSequential, Same
<1> QED
  BY <1>6, <1>7 DEF StmInv

\* All of them have ended.
LEMMA ValidateStep == StmInv /\ Validate => StmInv'
<1> SUFFICES ASSUME StmInv, Validate PROVE StmInv'
  OBVIOUS
<1>1. /\ phase = "speculate" /\ phase' = "commit" /\ DOMAIN specs = 1 .. Len(block)
      /\ stale' = stale_from_earlier_writes(specs) \cup validate(specs, 1, slots)
      /\ UNCHANGED <<block, specs, slots, world, receipts>>
  BY DEF Validate
<1>2. Len(block) = BlockLen /\ BlockLen \in Nat /\ receipts = <<>>
  BY <1>1, BlockFacts DEF StmInv, StmTypeOK
<1>3. seed_and_read' = seed_and_read /\ Sequential' = Sequential
  <2>1. Sequential' = SequentialOf(block')
    BY DEF Sequential, SequentialOf, RunsTo, SeqStep
  <2> QED
    BY <1>1, <2>1, SequentialIs DEF seed_and_read
<1>4. SpecsInv'
  BY <1>1, <1>2, <1>3 DEF StmInv, SpecsInv
<1>5. FreshInv'
  <2> SUFFICES ASSUME NEW j \in Len(receipts) + 1 .. BlockLen, j \notin stale',
                      NEW k \in specs[j].reads
               PROVE  slots[k] = specs[j].observed[k]
    BY <1>1 DEF FreshInv
  <2>1. j \in 1 .. Len(block)
    BY <1>2
  <2> QED
    BY <1>1, <2>1 DEF validate
<1>6. StmTypeOK' /\ VersionInv' /\ SameAsSequential'
  BY <1>1, <1>3 DEF StmInv, StmTypeOK, VersionInv, SameAsSequential, Same
<1> QED
  BY <1>4, <1>5, <1>6 DEF StmInv

LEMMA ReasonType ==
  ASSUME NEW w \in Worlds, NEW tx \in Txs
  PROVE  apply_tx(w, tx).receipt \in Reasons
<1>1. Verdict(w, tx) \in Reasons
  BY DEF Verdict, Reasons
<1> QED
  BY <1>1, Outcome

\* A commit that makes of the world what executing the transaction makes of it, and
\* gives a new version to everything the transaction names if it succeeds.
LEMMA Committed ==
  ASSUME StmInv, phase = "commit", NEW i \in 1 .. BlockLen, i = Len(receipts) + 1,
         NEW r, r = apply_tx(world, block[i]), NEW written,
         world' \in Worlds, Cleared(world') = Cleared(r.world),
         receipts' = Append(receipts, r.receipt),
         r.receipt = "ok" => inferred_keys(block[i]) \subseteq written,
         Settle(i, written),
         UNCHANGED <<block, specs, phase>>
  PROVE  StmInv'
<1> DEFINE tx == block[i]
<1>1. /\ tx \in Txs /\ Len(block) = BlockLen /\ BlockLen \in Nat /\ world \in Worlds
      /\ receipts \in Seq(Reasons) /\ Len(receipts) \in Nat /\ slots \in [Keys -> Nat]
  BY BlockFacts DEF StmInv, StmTypeOK
<1>2. /\ r.world \in Worlds /\ r.receipt \in Reasons
      /\ \A a \in Addresses : a \notin Names(tx) => Same(r.world, world, a)
      /\ ~Stakes(tx) => r.world.bonded = world.bonded
      /\ r.receipt # "ok" => r.world = Cleared(world)
  BY <1>1, Frame, ReasonType
<1>3. /\ world'.bal = r.world.bal /\ world'.nonce = r.world.nonce /\ world'.bonded = r.world.bonded
      /\ world'.code = r.world.code /\ world'.slot = r.world.slot
  <2>1. /\ Cleared(r.world).bal = r.world.bal /\ Cleared(r.world).nonce = r.world.nonce
        /\ Cleared(r.world).bonded = r.world.bonded /\ Cleared(r.world).code = r.world.code
        /\ Cleared(r.world).slot = r.world.slot
    BY <1>2, ClearedFacts
  <2>2. PICK w \in Worlds : w = world'
    OBVIOUS
  <2>3. /\ Cleared(w).bal = w.bal /\ Cleared(w).nonce = w.nonce
        /\ Cleared(w).bonded = w.bonded /\ Cleared(w).code = w.code /\ Cleared(w).slot = w.slot
    BY ClearedFacts
  <2> QED
    BY <2>1, <2>2, <2>3
<1>4. /\ seed_and_read' = seed_and_read /\ Sequential' = Sequential
      /\ seed_and_read \in [Keys -> Nat]
  <2>1. Sequential' = SequentialOf(block')
    BY DEF Sequential, SequentialOf, RunsTo, SeqStep
  <2> QED
    BY <2>1, SequentialIs, SeedType DEF seed_and_read
<1>5. /\ slots' = [k \in Keys |-> IF k \in written THEN slots[k] + 1 ELSE slots[k]]
      /\ stale' = stale \cup validate(specs, i + 1, slots')
  BY DEF Settle, bump_writes
<1>6. Len(receipts') = i /\ receipts' \in Seq(Reasons)
  BY <1>1, <1>2
<1>7. StmTypeOK'
  <2>1. slots' \in [Keys -> Nat]
    BY <1>1, <1>5
  <2> QED
    BY <1>6, <2>1 DEF StmInv, StmTypeOK
<1>8. SpecsInv'
  BY <1>4 DEF StmInv, SpecsInv
<1>9. VersionInv'
  <2>1. ASSUME NEW k \in Keys
        PROVE  /\ slots'[k] >= seed_and_read[k]
               /\ slots'[k] = seed_and_read[k] => k \notin written /\ slots[k] = seed_and_read[k]
    <3>1. slots[k] \in Nat /\ seed_and_read[k] \in Nat /\ slots[k] >= seed_and_read[k]
      BY <1>1, <1>4 DEF StmInv, VersionInv
    <3>2. slots'[k] = IF k \in written THEN slots[k] + 1 ELSE slots[k]
      BY <1>5
    <3> QED
      BY <3>1, <3>2
  <2>2. ASSUME NEW a \in Addresses, slots'[AccountKey(a)] = seed_and_read[AccountKey(a)]
        PROVE  Same(world', PreBlock, a)
    <3>1. AccountKey(a) \notin written /\ Same(world, PreBlock, a)
      BY <2>1, <2>2, KeyFacts DEF StmInv, VersionInv
    <3>2. CASE r.receipt = "ok"
      <4>1. a \notin Names(tx)
        BY <1>1, <3>1, <3>2, NamesFacts
      <4> QED
        BY <1>2, <1>3, <3>1, <4>1 DEF Same
    <3>3. CASE r.receipt # "ok"
      <4>1. r.world = Cleared(world)
        BY <1>2, <3>3
      <4>2. /\ world'.bal = world.bal /\ world'.nonce = world.nonce
            /\ world'.code = world.code /\ world'.slot = world.slot
        BY <1>1, <1>3, <4>1, ClearedFacts
      <4> QED
        BY <3>1, <4>2 DEF Same
    <3> QED
      BY <3>2, <3>3
  <2>3. ASSUME slots'[StakingSlot] = seed_and_read[StakingSlot]
        PROVE  world'.bonded = PreBlock.bonded
    <3>1. StakingSlot \notin written /\ world.bonded = PreBlock.bonded
      BY <2>1, <2>3, KeyFacts DEF StmInv, VersionInv
    <3>2. CASE r.receipt = "ok"
      BY <1>1, <1>2, <1>3, <3>1, <3>2, NamesFacts
    <3>3. CASE r.receipt # "ok"
      BY <1>1, <1>2, <1>3, <3>1, <3>3, ClearedFacts
    <3> QED
      BY <3>2, <3>3
  <2> QED
    BY <1>4, <2>1, <2>2, <2>3 DEF VersionInv
<1>10. FreshInv'
  <2> SUFFICES ASSUME NEW j \in i + 1 .. BlockLen, j \notin stale', NEW k \in specs[j].reads
               PROVE  slots'[k] = specs[j].observed[k]
    BY <1>6 DEF FreshInv
  <2> QED
    BY <1>1, <1>5 DEF validate
<1>11. SameAsSequential'
  <2> DEFINE n == Len(receipts)
  <2>1. n \in 0 .. Len(block) - 1 /\ i = n + 1
    BY <1>1
  <2> DEFINE q == Sequential[n]
  <2>2. Sequential[i] = SeqStep(q, tx)
    BY <1>1, <2>1, SequentialSteps
  <2>3. receipts = q.receipts /\ Cleared(world) = Cleared(q.world)
    BY DEF StmInv, SameAsSequential, Hashed
  <2> HIDE DEF q
  <2>4. apply_tx(q.world, tx) = r
    BY <2>3 DEF apply_tx
  <2>5. Sequential[i].world = r.world /\ Sequential[i].receipts = Append(receipts, r.receipt)
    BY <2>2, <2>3, <2>4 DEF SeqStep
  <2> QED
    BY <1>4, <1>6, <2>5 DEF SameAsSequential, Hashed
<1> QED
  BY <1>7, <1>8, <1>9, <1>10, <1>11 DEF StmInv

\* A speculation that is not stale is what executing the transaction now would give.
LEMMA MergeData ==
  ASSUME StmInv, Merge, NEW i, i = Len(receipts) + 1
  PROVE  /\ i \in 1 .. BlockLen
         /\ world' \in Worlds
         /\ Cleared(world') = Cleared(apply_tx(world, block[i]).world)
         /\ receipts' = Append(receipts, apply_tx(world, block[i]).receipt)
         /\ specs[i].receipt = apply_tx(world, block[i]).receipt
<1> DEFINE tx == block[i]
<1> DEFINE s == specs[i]
<1>1. /\ Len(block) = BlockLen /\ BlockLen \in Nat /\ world \in Worlds /\ Len(receipts) \in Nat
  BY BlockFacts DEF StmInv, StmTypeOK
<1>2. /\ phase = "commit" /\ Len(receipts) < BlockLen /\ i \notin stale
      /\ world' = merge_spec(world, s) /\ receipts' = Append(receipts, s.receipt)
  BY <1>1 DEF Merge
<1>3. i \in 1 .. BlockLen /\ i \in Len(receipts) + 1 .. BlockLen
  BY <1>1, <1>2
<1>4. tx \in Txs /\ SpecOn(s, PreBlock, tx) /\ s.observed = [k \in s.reads |-> seed_and_read[k]]
  BY <1>2, <1>3, BlockFacts DEF StmInv, SpecsInv
<1>5. \A k \in s.reads : slots[k] = seed_and_read[k]
  BY <1>2, <1>3, <1>4 DEF StmInv, FreshInv
<1>6. inferred_keys(tx) \subseteq s.reads
  BY <1>4 DEF SpecOn
<1> HIDE DEF s, tx
<1>7. \A a \in Names(tx) : Same(world, PreBlock, a)
  BY <1>4, <1>5, <1>6, NamesFacts DEF StmInv, VersionInv
<1>8. Stakes(tx) => world.bonded = PreBlock.bonded
  BY <1>4, <1>5, <1>6, NamesFacts DEF StmInv, VersionInv
<1>9. /\ merge_spec(world, s) \in Worlds
      /\ Cleared(merge_spec(world, s)) = Cleared(apply_tx(world, tx).world)
      /\ s.receipt = apply_tx(world, tx).receipt
  BY <1>1, <1>4, <1>7, <1>8, PreBlockType, Merged
<1> QED
  BY <1>2, <1>3, <1>9 DEF s, tx

LEMMA MergeStep == StmInv /\ Merge => StmInv'
<1> SUFFICES ASSUME StmInv, Merge PROVE StmInv'
  OBVIOUS
<1> DEFINE i == Len(receipts) + 1
<1> DEFINE r == apply_tx(world, block[i])
<1>1. /\ phase = "commit" /\ Settle(i, specs[i].writes) /\ UNCHANGED <<block, specs, phase>>
  BY DEF Merge
<1>2. /\ i \in 1 .. BlockLen /\ world' \in Worlds /\ Cleared(world') = Cleared(r.world)
      /\ receipts' = Append(receipts, r.receipt) /\ specs[i].receipt = r.receipt
  BY MergeData
<1>3. r.receipt = "ok" => inferred_keys(block[i]) \subseteq specs[i].writes
  <2>1. block[i] \in Txs /\ SpecOn(specs[i], PreBlock, block[i])
    BY <1>1, <1>2, BlockFacts DEF StmInv, SpecsInv
  <2> QED
    BY <1>2, <2>1, PreBlockType, SpecKeys
<1> HIDE DEF r
<1> QED
  BY <1>1, <1>2, <1>3, Committed DEF r

LEMMA ReexecuteStep == StmInv /\ Reexecute => StmInv'
<1> SUFFICES ASSUME StmInv, Reexecute PROVE StmInv'
  OBVIOUS
<1> DEFINE i == Len(receipts) + 1
<1> DEFINE r == apply_tx(world, block[i])
<1>1. /\ phase = "commit" /\ Len(receipts) < Len(block) /\ world' = r.world
      /\ receipts' = Append(receipts, r.receipt)
      /\ Settle(i, reexec_writes(r, block[i])) /\ UNCHANGED <<block, specs, phase>>
  BY DEF Reexecute
<1>2. i \in 1 .. BlockLen
  BY <1>1, BlockFacts DEF StmInv, StmTypeOK
<1>3. r.world \in Worlds
  BY <1>2, BlockFacts, Frame DEF StmInv, StmTypeOK
<1>4. r.receipt = "ok" => inferred_keys(block[i]) \subseteq reexec_writes(r, block[i])
  BY DEF reexec_writes
<1> HIDE DEF r
<1> QED
  BY <1>1, <1>2, <1>3, <1>4, Committed DEF r

LEMMA StmStutter == StmInv /\ UNCHANGED vars => StmInv'
<1> SUFFICES ASSUME StmInv, UNCHANGED vars PROVE StmInv'
  OBVIOUS
<1>1. UNCHANGED <<block, specs, slots, stale, world, receipts, phase>>
  BY DEF vars
<1>2. seed_and_read' = seed_and_read /\ Sequential' = Sequential
  <2>1. Sequential' = SequentialOf(block')
    BY DEF Sequential, SequentialOf, RunsTo, SeqStep
  <2> QED
    BY <1>1, <2>1, SequentialIs DEF seed_and_read
<1> QED
  BY <1>1, <1>2 DEF StmInv, StmTypeOK, SpecsInv, VersionInv, FreshInv, SameAsSequential

LEMMA StmNext == StmInv /\ [Next]_vars => StmInv'
  BY SpeculateStep, ValidateStep, MergeStep, ReexecuteStep, StmStutter DEF Next

----------------------------------------------------------------------------
(* The theorems.                                                           *)

\* Every reachable state of the engine satisfies the inductive invariant.
THEOREM StmInvariant == Spec => []StmInv
  BY StmInit, StmNext, PTL DEF Spec

\* The parallel engine has, after every transaction it commits, the world and the
\* receipts of seq::apply_block: the assertion of stm::apply_block never fails.
THEOREM ParallelIsSequential == Spec => []SameAsSequential
<1>1. StmInv => SameAsSequential
  BY DEF StmInv
<1> QED
  BY <1>1, StmInvariant, PTL

\* A failed transaction leaves no trace, merged or executed again.
THEOREM FailuresLeaveNoTrace == Spec => FailureLeavesNoTrace
<1>1. ASSUME StmInv, [Next]_vars, Len(receipts') > Len(receipts), receipts'[Len(receipts')] # "ok"
      PROVE  Hashed(world') = Hashed(world)
  <2>1. receipts' # receipts
    BY <1>1
  <2>2. Merge \/ Reexecute
    BY <1>1, <2>1 DEF Next, vars, Speculate, Validate
  <2> DEFINE i == Len(receipts) + 1
  <2> DEFINE r == apply_tx(world, block[i])
  <2>3. /\ i \in 1 .. BlockLen /\ Cleared(world') = Cleared(r.world)
        /\ receipts' = Append(receipts, r.receipt)
    <3>1. CASE Merge
      BY <1>1, <3>1, MergeData
    <3>2. CASE Reexecute
      <4>1. Len(receipts) < Len(block) /\ world' = r.world /\ receipts' = Append(receipts, r.receipt)
        BY <3>2 DEF Reexecute
      <4>2. i \in 1 .. BlockLen
        BY <1>1, <4>1, BlockFacts DEF StmInv, StmTypeOK
      <4> QED
        BY <4>1, <4>2
    <3> QED
      BY <2>2, <3>1, <3>2
  <2>4. world \in Worlds /\ block[i] \in Txs /\ receipts \in Seq(Reasons)
    BY <1>1, <2>3, BlockFacts DEF StmInv, StmTypeOK
  <2> HIDE DEF r
  <2>5. r.receipt # "ok"
    BY <1>1, <2>3, <2>4
  <2>6. r.world = Cleared(world)
    BY <2>4, <2>5, Frame DEF r
  <2> QED
    BY <2>3, <2>4, <2>6, ClearedFacts DEF Hashed
<1>2. StmInv /\ [Next]_vars =>
        [Len(receipts') > Len(receipts) /\ receipts'[Len(receipts')] # "ok"
           => Hashed(world') = Hashed(world)]_vars
  BY <1>1
<1> QED
  BY <1>2, StmInvariant, PTL DEF Spec, FailureLeavesNoTrace

----------------------------------------------------------------------------
(* The schedule of waves.                                                  *)

\* The wave once the indices up to i were offered, from what it was before i.
TakenBy(s, remaining, w, i) ==
    IF i \in remaining /\ \A j \in w : ~Adjacent(s, j, i) THEN w \cup {i} ELSE w

Waves(f, s, remaining, n) ==
    f = [i \in 0 .. n |-> IF i = 0 THEN {} ELSE TakenBy(s, remaining, f[i - 1], i)]

LEMMA WaveExists ==
  ASSUME NEW s, NEW n \in Nat, NEW remaining \in SUBSET (1 .. n)
  PROVE  \E f : Waves(f, s, remaining, n)
<1> DEFINE Sets == SUBSET (1 .. n)
<1> DEFINE step == [p \in (1 .. n) \X Sets |-> TakenBy(s, remaining, p[2], p[1])]
<1>1. PICK f : Recurses(f, {}, step, n)
  BY Recursion
<1>2. \A i \in 1 .. n, w \in Sets :
        step[<<i, w>>] = TakenBy(s, remaining, w, i) /\ TakenBy(s, remaining, w, i) \in Sets
  BY DEF TakenBy
<1>3. f = [k \in 0 .. n |-> IF k = 0 THEN {} ELSE step[<<k, f[k - 1]>>]]
  BY <1>1 DEF Recurses
<1> HIDE DEF step, Sets
<1> DEFINE P == {k \in Nat : k \in 0 .. n => f[k] \in Sets}
<1>4. 0 \in P
  BY <1>3 DEF Sets
<1>5. ASSUME NEW k \in Nat, k \in P PROVE k + 1 \in P
  <2> SUFFICES ASSUME k + 1 \in 0 .. n PROVE f[k + 1] \in Sets
    OBVIOUS
  <2>1. k \in 0 .. n /\ k + 1 \in 1 .. n /\ k + 1 # 0 /\ (k + 1) - 1 = k
    OBVIOUS
  <2>2. f[k + 1] = step[<<k + 1, f[k]>>]
    BY <1>3, <2>1
  <2> QED
    BY <1>2, <1>5, <2>1, <2>2
<1> HIDE DEF P
<1>6. \A k \in Nat : k \in P
  BY <1>4, <1>5, NumberInduction
<1>7. \A k \in 0 .. n : k # 0 => step[<<k, f[k - 1]>>] = TakenBy(s, remaining, f[k - 1], k)
  <2> SUFFICES ASSUME NEW k \in 0 .. n, k # 0
               PROVE  step[<<k, f[k - 1]>>] = TakenBy(s, remaining, f[k - 1], k)
    OBVIOUS
  <2>1. k \in 1 .. n /\ k - 1 \in Nat /\ k - 1 \in 0 .. n
    OBVIOUS
  <2>2. f[k - 1] \in Sets
    BY <1>6, <2>1 DEF P
  <2> QED
    BY <1>2, <2>1, <2>2
<1>8. f = [k \in 0 .. n |-> IF k = 0 THEN {} ELSE TakenBy(s, remaining, f[k - 1], k)]
  BY <1>3, <1>7
<1> QED
  BY <1>8 DEF Waves

\* A wave is a set of remaining transactions without an edge between two of them,
\* and the first of the remaining transactions is in it.
LEMMA NextWave ==
  ASSUME NEW s, Len(block) \in Nat, NEW remaining \in SUBSET (1 .. Len(block))
  PROVE  /\ next_wave(s, remaining) \subseteq remaining
         /\ \A i, j \in next_wave(s, remaining) : ~Adjacent(s, i, j)
         /\ \A m \in remaining :
                (\A k \in remaining : m <= k) => m \in next_wave(s, remaining)
<1> DEFINE N == Len(block)
<1> DEFINE f == CHOOSE g : Waves(g, s, remaining, N)
<1>1. next_wave(s, remaining) = f[N]
  BY DEF next_wave, Waves, TakenBy
<1>2. Waves(f, s, remaining, N)
  BY WaveExists
<1> HIDE DEF f
<1> DEFINE Good(i) ==
        /\ f[i] \subseteq remaining /\ \A j \in f[i] : j <= i
        /\ \A j, k \in f[i] : ~Adjacent(s, j, k)
        /\ \A m \in remaining : m <= i /\ (\A k \in remaining : m <= k) => m \in f[i]
<1> DEFINE P == {i \in Nat : i \in 0 .. N => Good(i)}
<1>3. 0 \in P
  <2>1. f[0] = {}
    BY <1>2 DEF Waves
  <2> QED
    BY <2>1
<1>4. ASSUME NEW n \in Nat, n \in P PROVE n + 1 \in P
  <2> SUFFICES ASSUME n + 1 \in 0 .. N PROVE Good(n + 1)
    OBVIOUS
  <2>1. n \in 0 .. N /\ n + 1 # 0 /\ (n + 1) - 1 = n
    OBVIOUS
  <2>2. f[n + 1] = TakenBy(s, remaining, f[n], n + 1)
    BY <1>2, <2>1 DEF Waves
  <2>3. Good(n)
    BY <1>4, <2>1
  <2>4. \A j, k : Adjacent(s, j, k) => j # k /\ Adjacent(s, k, j)
    BY DEF Adjacent
  <2>5. \A j \in remaining : j \in Int
    OBVIOUS
  <2>6. \A j \in f[n] : j <= n + 1
    <3> SUFFICES ASSUME NEW j \in f[n] PROVE j <= n + 1
      OBVIOUS
    <3>1. j \in remaining /\ j <= n
      BY <2>3
    <3>2. j \in Int
      BY <2>5, <3>1
    <3> QED
      BY <3>1, <3>2
  <2>7. CASE n + 1 \in remaining /\ \A j \in f[n] : ~Adjacent(s, j, n + 1)
    <3>1. f[n + 1] = f[n] \cup {n + 1}
      BY <2>2, <2>7 DEF TakenBy
    <3>2. \A j, k \in f[n + 1] : ~Adjacent(s, j, k)
      BY <2>3, <2>4, <2>7, <3>1
    <3>3. f[n + 1] \subseteq remaining /\ \A j \in f[n + 1] : j <= n + 1
      BY <2>3, <2>7, <2>6, <3>1
    <3>4. \A m \in remaining : m <= n + 1 /\ (\A k \in remaining : m <= k) => m \in f[n + 1]
      BY <2>3, <3>1
    <3> QED
      BY <3>2, <3>3, <3>4
  <2>8. CASE ~(n + 1 \in remaining /\ \A j \in f[n] : ~Adjacent(s, j, n + 1))
    <3>1. f[n + 1] = f[n]
      BY <2>2, <2>8 DEF TakenBy
    <3>2. ASSUME NEW m \in remaining, m <= n + 1, \A k \in remaining : m <= k
          PROVE  m \in f[n]
      <4>1. m # n + 1
        <5> SUFFICES ASSUME m = n + 1 PROVE FALSE
          OBVIOUS
        <5>1. PICK j \in f[n] : TRUE
          BY <2>8
        <5>2. j \in remaining /\ j <= n
          BY <2>3
        <5> QED
          BY <3>2, <5>2
      <4> QED
        BY <2>3, <3>2, <4>1
    <3>3. f[n + 1] \subseteq remaining /\ \A j \in f[n + 1] : j <= n + 1
      BY <2>3, <2>6, <3>1
    <3>4. \A j, k \in f[n + 1] : ~Adjacent(s, j, k)
      BY <2>3, <3>1
    <3>5. \A m \in remaining : m <= n + 1 /\ (\A k \in remaining : m <= k) => m \in f[n + 1]
      BY <3>1, <3>2
    <3> QED
      BY <3>3, <3>4, <3>5
  <2> QED
    BY <2>7, <2>8
<1> HIDE DEF P
<1>5. \A n \in Nat : n \in P
  BY <1>3, <1>4, NumberInduction
<1>6. Good(N)
  BY <1>5 DEF P
<1> QED
  BY <1>1, <1>6

\* One turn of the loop.
Turn(s, t) ==
    IF t.remaining = {} THEN t
    ELSE [waves |-> Append(t.waves, next_wave(s, t.remaining)),
          remaining |-> t.remaining \ next_wave(s, t.remaining)]

Turns(f, s, n, zero) ==
    f = [k \in 0 .. n |-> IF k = 0 THEN zero ELSE Turn(s, f[k - 1])]

FirstTurn == [waves |-> <<>>, remaining |-> 1 .. Len(block)]

LEMMA ScheduleIs ==
  ASSUME NEW s
  PROVE  schedule(s) = (CHOOSE f : Turns(f, s, Len(block), FirstTurn))[Len(block)].waves
  BY DEF schedule, Turns, Turn, FirstTurn

TurnStates == [waves : Seq(SUBSET (1 .. Len(block))), remaining : SUBSET (1 .. Len(block))]

LEMMA TurnType ==
  ASSUME NEW s, Len(block) \in Nat, NEW t \in TurnStates
  PROVE  Turn(s, t) \in TurnStates
<1>1. t.waves \in Seq(SUBSET (1 .. Len(block))) /\ t.remaining \in SUBSET (1 .. Len(block))
  BY DEF TurnStates
<1>2. next_wave(s, t.remaining) \subseteq t.remaining
  BY <1>1, NextWave
<1> QED
  BY <1>1, <1>2 DEF Turn, TurnStates

LEMMA TurnsExist ==
  ASSUME NEW s, Len(block) \in Nat
  PROVE  \E f : Turns(f, s, Len(block), FirstTurn) /\ \A k \in 0 .. Len(block) : f[k] \in TurnStates
<1> DEFINE n == Len(block)
<1> DEFINE step == [p \in (1 .. n) \X TurnStates |-> Turn(s, p[2])]
<1>1. PICK f : Recurses(f, FirstTurn, step, n)
  BY Recursion
<1>2. \A i \in 1 .. n, t \in TurnStates :
        step[<<i, t>>] = Turn(s, t) /\ Turn(s, t) \in TurnStates
  BY TurnType
<1>3. f = [k \in 0 .. n |-> IF k = 0 THEN FirstTurn ELSE step[<<k, f[k - 1]>>]]
  BY <1>1 DEF Recurses
<1> HIDE DEF step
<1> DEFINE P == {k \in Nat : k \in 0 .. n => f[k] \in TurnStates}
<1>4. 0 \in P
  <2>1. FirstTurn \in TurnStates
    BY DEF FirstTurn, TurnStates
  <2> QED
    BY <1>3, <2>1
<1>5. ASSUME NEW k \in Nat, k \in P PROVE k + 1 \in P
  <2> SUFFICES ASSUME k + 1 \in 0 .. n PROVE f[k + 1] \in TurnStates
    OBVIOUS
  <2>1. k \in 0 .. n /\ k + 1 \in 1 .. n /\ k + 1 # 0 /\ (k + 1) - 1 = k
    OBVIOUS
  <2>2. f[k + 1] = step[<<k + 1, f[k]>>]
    BY <1>3, <2>1
  <2> QED
    BY <1>2, <1>5, <2>1, <2>2
<1> HIDE DEF P
<1>6. \A k \in Nat : k \in P
  BY <1>4, <1>5, NumberInduction
<1>7. \A k \in 0 .. n : f[k] \in TurnStates
  BY <1>6 DEF P
<1>8. \A k \in 0 .. n : k # 0 => step[<<k, f[k - 1]>>] = Turn(s, f[k - 1])
  <2> SUFFICES ASSUME NEW k \in 0 .. n, k # 0
               PROVE  step[<<k, f[k - 1]>>] = Turn(s, f[k - 1])
    OBVIOUS
  <2>1. k \in 1 .. n /\ k - 1 \in 0 .. n
    OBVIOUS
  <2> QED
    BY <1>2, <1>7, <2>1
<1>9. f = [k \in 0 .. n |-> IF k = 0 THEN FirstTurn ELSE Turn(s, f[k - 1])]
  BY <1>3, <1>8
<1> QED
  BY <1>7, <1>9 DEF Turns

\* The waves so far do not overlap and have no edge inside, and each turn takes at
\* least the first of what remains.
Scheduled(s, t, n) ==
    /\ \A i \in t.remaining : i > n
    /\ \A i \in 1 .. Len(block) : i \in t.remaining \/ \E m \in DOMAIN t.waves : i \in t.waves[m]
    /\ \A m \in DOMAIN t.waves : t.waves[m] \cap t.remaining = {}
    /\ \A m, k \in DOMAIN t.waves : m # k => t.waves[m] \cap t.waves[k] = {}
    /\ \A m \in DOMAIN t.waves : \A i, j \in t.waves[m] : ~Adjacent(s, i, j)

LEMMA TurnKeeps ==
  ASSUME NEW s, Len(block) \in Nat, NEW n \in Nat, NEW t \in TurnStates, Scheduled(s, t, n)
  PROVE  Scheduled(s, Turn(s, t), n + 1)
<1>1. t.waves \in Seq(SUBSET (1 .. Len(block))) /\ t.remaining \in SUBSET (1 .. Len(block))
  BY DEF TurnStates
<1>2. CASE t.remaining = {}
  BY <1>2 DEF Turn, Scheduled
<1>3. CASE t.remaining # {}
  <2> DEFINE w == next_wave(s, t.remaining)
  <2> DEFINE r == t.remaining \ w
  <2> DEFINE ws == Append(t.waves, w)
  <2>1. /\ w \subseteq t.remaining
        /\ \A i, j \in w : ~Adjacent(s, i, j)
        /\ \A m \in t.remaining : (\A k \in t.remaining : m <= k) => m \in w
    BY <1>1, NextWave
  <2>2. Turn(s, t).waves = ws /\ Turn(s, t).remaining = r
    BY <1>3 DEF Turn
  <2>3. PICK m \in t.remaining : \A k \in t.remaining : m <= k
    <3>1. t.remaining \in SUBSET Nat
      BY <1>1
    <3> QED
      BY <1>3, <3>1, LeastNumber
  <2> HIDE DEF w
  <2> DEFINE L == Len(t.waves)
  <2>4. /\ L \in Nat /\ DOMAIN ws = 1 .. L + 1 /\ DOMAIN t.waves = 1 .. L
        /\ ws[L + 1] = w /\ \A i \in 1 .. L : ws[i] = t.waves[i]
    BY <1>1, <2>1
  <2> HIDE DEF ws, L
  <2>5. \A i \in r : i > n + 1
    BY <1>1, <2>1, <2>3 DEF Scheduled
  <2>6. ASSUME NEW i \in 1 .. Len(block) PROVE i \in r \/ \E k \in DOMAIN ws : i \in ws[k]
    <3>1. CASE i \in w
      BY <2>4, <3>1
    <3>2. CASE i \notin w /\ i \notin t.remaining
      <4>1. PICK k \in DOMAIN t.waves : i \in t.waves[k]
        BY <3>2 DEF Scheduled
      <4>2. k \in DOMAIN ws /\ i \in ws[k]
        BY <2>4, <4>1
      <4> QED
        BY <4>2
    <3> QED
      BY <3>1, <3>2
  <2>7. \A k \in DOMAIN ws : ws[k] \cap r = {}
    BY <2>4, <2>1 DEF Scheduled
  <2>8. \A k, l \in DOMAIN ws : k # l => ws[k] \cap ws[l] = {}
    <3> SUFFICES ASSUME NEW k \in DOMAIN ws, NEW l \in DOMAIN ws, k # l
                 PROVE  ws[k] \cap ws[l] = {}
      OBVIOUS
    <3>1. CASE k = L + 1
      BY <2>1, <2>4, <3>1 DEF Scheduled
    <3>2. CASE l = L + 1
      BY <2>1, <2>4, <3>2 DEF Scheduled
    <3>3. CASE k # L + 1 /\ l # L + 1
      BY <2>4, <3>3 DEF Scheduled
    <3> QED
      BY <3>1, <3>2, <3>3
  <2>9. \A k \in DOMAIN ws : \A i, j \in ws[k] : ~Adjacent(s, i, j)
    BY <2>1, <2>4 DEF Scheduled
  <2> HIDE DEF r
  <2> QED
    BY <2>2, <2>5, <2>6, <2>7, <2>8, <2>9 DEF Scheduled
<1> QED
  BY <1>2, <1>3

LEMMA ScheduleParts ==
  ASSUME NEW s, Len(block) \in Nat
  PROVE  /\ UNION Range(schedule(s)) = 1 .. Len(block)
         /\ \A m, n \in DOMAIN schedule(s) : m # n => schedule(s)[m] \cap schedule(s)[n] = {}
         /\ \A n \in DOMAIN schedule(s) : \A i, j \in schedule(s)[n] : ~Adjacent(s, i, j)
<1> DEFINE N == Len(block)
<1> DEFINE Right(f) == Turns(f, s, N, FirstTurn)
<1> DEFINE f == CHOOSE g : Right(g)
<1>1. schedule(s) = f[N].waves
  BY ScheduleIs
<1>2. Turns(f, s, N, FirstTurn)
  BY TurnsExist
<1> HIDE DEF f
<1>3. f[0] = FirstTurn /\ \A k \in 1 .. N : f[k] = Turn(s, f[k - 1])
  BY <1>2 DEF Turns
<1> DEFINE P == {n \in Nat : n \in 0 .. N => f[n] \in TurnStates /\ Scheduled(s, f[n], n)}
<1>4. 0 \in P
  <2>1. FirstTurn \in TurnStates /\ Scheduled(s, FirstTurn, 0)
    BY DEF FirstTurn, TurnStates, Scheduled
  <2> QED
    BY <1>3, <2>1
<1>5. ASSUME NEW n \in Nat, n \in P PROVE n + 1 \in P
  <2> SUFFICES ASSUME n + 1 \in 0 .. N
               PROVE  f[n + 1] \in TurnStates /\ Scheduled(s, f[n + 1], n + 1)
    OBVIOUS
  <2>1. n \in 0 .. N /\ n + 1 \in 1 .. N /\ (n + 1) - 1 = n
    OBVIOUS
  <2>2. f[n + 1] = Turn(s, f[n])
    BY <1>3, <2>1
  <2> QED
    BY <1>5, <2>1, <2>2, TurnType, TurnKeeps
<1> HIDE DEF P
<1>6. \A n \in Nat : n \in P
  BY <1>4, <1>5, NumberInduction
<1>7. f[N] \in TurnStates /\ Scheduled(s, f[N], N)
  BY <1>6 DEF P
<1> DEFINE ws == schedule(s)
<1>8. f[N].remaining = {} /\ ws \in Seq(SUBSET (1 .. N))
  BY <1>1, <1>7 DEF TurnStates, Scheduled
<1>9. /\ \A i \in 1 .. N : \E m \in DOMAIN ws : i \in ws[m]
      /\ \A m \in DOMAIN ws : ws[m] \subseteq 1 .. N
  BY <1>1, <1>7, <1>8 DEF Scheduled
<1> HIDE DEF ws, N
<1>10. UNION Range(ws) = 1 .. N
  BY <1>9 DEF Range
<1> QED
  BY <1>1, <1>7, <1>10 DEF Scheduled, ws, N

\* The waves of the commit phase are a partition of the block into sets of
\* transactions that do not conflict, whatever the speculations touched.
THEOREM SchedulePartitions == Spec => []WavesIndependent
<1>1. StmInv => WavesIndependent
  <2>1. StmInv => Len(block) \in Nat
    BY BlockFacts DEF StmInv, StmTypeOK
  <2> QED
    BY <2>1, ScheduleParts DEF WavesIndependent
<1> QED
  BY <1>1, StmInvariant, PTL
=============================================================================
