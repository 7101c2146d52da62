------------------------------- MODULE Ledger -------------------------------
(***************************************************************************)
(* The tokens of the chain: account balances and the staking book of the   *)
(* `execution` crate (seq.rs, staking.rs, slash.rs), as blocks execute     *)
(* transactions and commits are observed.                                  *)
(*                                                                         *)
(* An action is one transaction that succeeds, one observed commit, or one *)
(* use of evidence.  A transaction that is rejected changes nothing.  The  *)
(* nonce, signature and gas checks come first in apply_tx and are left out *)
(* (Mempool has the nonces).                                               *)
(***************************************************************************)
EXTENDS Sums

CONSTANTS
    Accounts,       \* addresses
    Ids,            \* validator ids
    Alloc,          \* genesis.alloc: the balance of each account
    Amounts,        \* the amounts that transactions name
    Fees,           \* max_fee of transactions
    MaxAmount,      \* u128::MAX
    MinBond,        \* ParamId::MinSelfBond
    Period,         \* ParamId::UnbondingPeriod
    EpochLen,       \* ParamId::EpochLength
    Cap,            \* ParamId::DelegationCap
    Percent,        \* ParamId::SlashPercent
    Offences,       \* double signs that there is evidence of, per validator
    MaxHeight,      \* bound on the observed height
    MaxUnbonds,     \* bound on the number of unbonds
    None

ASSUME LedgerAssumption ==
    /\ IsFiniteSet(Accounts) /\ IsFiniteSet(Ids) /\ None \notin Accounts
    /\ Alloc \in [Accounts -> Nat]
    /\ Amounts \subseteq Nat /\ Fees \subseteq Nat
    /\ MinBond \in Nat /\ Period \in Nat /\ EpochLen \in Nat \ {0} /\ Cap \in Nat
    /\ Percent \in 0 .. 100
    /\ MaxAmount \in Nat /\ MaxHeight \in Nat

VARIABLES
    balance,        \* the balance of each account
    self_bond,      \* self-bond of each validator
    operator,       \* the account that controls it, or None
    delegations,    \* by delegator and validator
    pending_unbond, \* UnbondEntry by insertion id
    next_unbond,    \* the next insertion id
    tombstones,     \* validators barred for good
    current_set,    \* the voting power of the validators of this epoch
    height,         \* last_commit_height
    applied,        \* evidence already used
    burnt,          \* history: tokens paid as fees, slashed or undelegated
    signalled,      \* history: what each account unbonded, by height
    paid            \* history: what each account withdrew

ledger_vars == <<balance, self_bond, operator, delegations, pending_unbond, next_unbond,
                 tombstones, current_set, height, applied, burnt, signalled, paid>>

unbonds == <<pending_unbond, next_unbond>>
book == <<self_bond, operator, delegations, unbonds>>
history == <<signalled, paid>>

Heights == 0 .. MaxHeight
SumOver(f) == SumOf(f, DOMAIN f)

----------------------------------------------------------------------------
(* Helpers of staking.rs and slash.rs.                                     *)

\* checked_add(..).unwrap_or(..): an overflow keeps the old balance.
Credit(b, amount) == IF b + amount > MaxAmount THEN b ELSE b + amount

delegated_to(id) == SumOver([a \in Accounts |-> delegations[<<a, id>>]])

effective_power(id) == self_bond[id] + Min({delegated_to(id), Cap})

\* Mutant: the tombstones are not looked at.
compute_any_set ==
    [id \in {i \in Ids : self_bond[i] >= MinBond /\ effective_power(i) > 0}
        |-> effective_power(id)]

compute_next_set ==
    [id \in {i \in Ids \ tombstones : self_bond[i] >= MinBond /\ effective_power(i) > 0}
        |-> effective_power(id)]

\* Mutant: one commit too early.
unbonding_early == height + Period - 1

unbonding_unlock == height + Period

\* The amounts of the pending unbonds.
amounts == [k \in DOMAIN pending_unbond |-> pending_unbond[k].amount]

\* The owner's entries that have reached their unlock height.
Matured(owner) ==
    {k \in DOMAIN pending_unbond : /\ pending_unbond[k].owner = owner
                                   /\ pending_unbond[k].unlock_height <= height}

matured_withdrawable(owner) == SumOf(amounts, Matured(owner))

\* What is left of `amount` when the loop over the keys comes to k.
left(owner, amount, k) == amount - SumOf(amounts, {j \in Matured(owner) : j < k})

\* What the loop takes out of the entry.
Taken(owner, amount, k) ==
    IF k \in Matured(owner) /\ left(owner, amount, k) > 0
    THEN Min({pending_unbond[k].amount, left(owner, amount, k)})
    ELSE 0

\* The entries after `amount` is taken out of the owner's matured ones, the oldest
\* first: an entry is removed when it is used up while something is left to take.
Withdrawn(owner, amount) ==
    LET gone == {k \in Matured(owner) :
                    /\ left(owner, amount, k) > 0
                    /\ pending_unbond[k].amount <= left(owner, amount, k)}
    IN  [k \in DOMAIN pending_unbond \ gone |->
            [pending_unbond[k] EXCEPT !.amount = @ - Taken(owner, amount, k)]]

----------------------------------------------------------------------------
(* Transactions.                                                           *)

LedgerInit ==
    /\ balance = Alloc
    /\ self_bond = [id \in Ids |-> 0]
    /\ operator = [id \in Ids |-> None]
    /\ delegations = [p \in Accounts \X Ids |-> 0]
    /\ pending_unbond = <<>>
    /\ next_unbond = 0
    /\ tombstones = {}
    /\ current_set = <<>>
    /\ height = 0
    /\ applied = {}
    /\ burnt = 0
    /\ signalled = [a \in Accounts |-> [h \in Heights |-> 0]]
    /\ paid = [a \in Accounts |-> 0]

\* Mutant: the balance is not checked.
PayUnchecked(from, debit, fee) ==
    balance' = [balance EXCEPT ![from] = @ - (debit + fee)]

\* The sender pays the fee, which nobody gets, and `debit`.
Pay(from, debit, fee) ==
    /\ balance[from] >= debit + fee
    /\ balance' = [balance EXCEPT ![from] = @ - (debit + fee)]

\* Mutant: the receiver's balance is read before the sender's is written.
TransferStale(from, to, amount, fee) ==
    LET after == [balance EXCEPT ![from] = @ - (amount + fee)] IN
    /\ balance[from] >= amount + fee
    /\ balance' = [after EXCEPT ![to] = Credit(balance[to], amount)]
    /\ burnt' = burnt + fee
    /\ UNCHANGED <<book, tombstones, current_set, height, applied, history>>

\* The receiver is read after the sender is written, so one may pay oneself.
Transfer(from, to, amount, fee) ==
    LET after == [balance EXCEPT ![from] = @ - (amount + fee)] IN
    /\ balance[from] >= amount + fee
    /\ balance' = [after EXCEPT ![to] = Credit(@, amount)]
    /\ burnt' = burnt + fee
    /\ UNCHANGED <<book, tombstones, current_set, height, applied, history>>

\* A deployment or a contract call costs its sender the fee.
RunWasm(from, fee) ==
    /\ Pay(from, 0, fee)
    /\ burnt' = burnt + fee
    /\ UNCHANGED <<book, tombstones, current_set, height, applied, history>>

Bond(from, id, amount, fee) ==
    /\ Pay(from, amount, fee)
    /\ id \notin tombstones
    /\ amount >= MinBond
    /\ operator[id] \in {None, from}
    /\ operator' = [operator EXCEPT ![id] = from]
    /\ self_bond' = [self_bond EXCEPT ![id] = @ + amount]
    /\ burnt' = burnt + fee
    /\ UNCHANGED <<delegations, unbonds, tombstones, current_set, height, applied,
                   history>>

\* Mutant: any part of the bond may be left.
UnbondAnyPart(from, id, amount, fee) ==
    /\ next_unbond < MaxUnbonds
    /\ Pay(from, 0, fee)
    /\ operator[id] = from
    /\ self_bond[id] >= amount
    /\ self_bond' = [self_bond EXCEPT ![id] = @ - amount]
    /\ pending_unbond' =
           [k \in DOMAIN pending_unbond \cup {next_unbond} |->
               IF k = next_unbond
               THEN [owner |-> from, validator |-> id, amount |-> amount,
                     unlock_height |-> unbonding_unlock]
               ELSE pending_unbond[k]]
    /\ next_unbond' = next_unbond + 1
    /\ signalled' = [signalled EXCEPT ![from][height] = @ + amount]
    /\ burnt' = burnt + fee
    /\ UNCHANGED <<operator, delegations, tombstones, current_set, height, applied, paid>>

\* All of the bond or a part that leaves at least the minimum.
Unbond(from, id, amount, fee) ==
    /\ next_unbond < MaxUnbonds
    /\ Pay(from, 0, fee)
    /\ operator[id] = from
    /\ self_bond[id] >= amount
    /\ self_bond[id] = amount \/ self_bond[id] - amount >= MinBond
    /\ self_bond' = [self_bond EXCEPT ![id] = @ - amount]
    /\ pending_unbond' =
           [k \in DOMAIN pending_unbond \cup {next_unbond} |->
               IF k = next_unbond
               THEN [owner |-> from, validator |-> id, amount |-> amount,
                     unlock_height |-> unbonding_unlock]
               ELSE pending_unbond[k]]
    /\ next_unbond' = next_unbond + 1
    /\ signalled' = [signalled EXCEPT ![from][height] = @ + amount]
    /\ burnt' = burnt + fee
    /\ UNCHANGED <<operator, delegations, tombstones, current_set, height, applied, paid>>

Delegate(from, id, amount, fee) ==
    /\ Pay(from, amount, fee)
    /\ id \notin tombstones
    /\ delegations' = [delegations EXCEPT ![<<from, id>>] = @ + amount]
    /\ burnt' = burnt + fee
    /\ UNCHANGED <<self_bond, operator, unbonds, tombstones, current_set, height,
                   applied, history>>

\* The tokens are not returned: no balance is credited and no unbond is entered.
Undelegate(from, id, amount, fee) ==
    /\ Pay(from, 0, fee)
    /\ delegations[<<from, id>>] >= amount
    /\ delegations' = [delegations EXCEPT ![<<from, id>>] = @ - amount]
    /\ burnt' = burnt + fee + amount
    /\ UNCHANGED <<self_bond, operator, unbonds, tombstones, current_set, height,
                   applied, history>>

\* The fee must be there before the withdrawn amount is credited.
Withdraw(from, amount, fee) ==
    /\ balance[from] >= fee
    /\ amount <= matured_withdrawable(from)
    /\ balance' = [balance EXCEPT ![from] = Credit(@ - fee, amount)]
    /\ pending_unbond' = Withdrawn(from, amount)
    /\ paid' = [paid EXCEPT ![from] = @ + amount]
    /\ burnt' = burnt + fee
    /\ UNCHANGED <<self_bond, operator, delegations, next_unbond, tombstones, current_set,
                   height, applied, signalled>>

----------------------------------------------------------------------------
(* Commits and evidence.                                                   *)

\* epoch_set_update: the next height is observed, and after the last one of an epoch
\* the set of the next epoch is installed.
epoch_set_update ==
    /\ height < MaxHeight
    /\ height' = height + 1
    /\ current_set' = IF height' \div EpochLen = (height' + 1) \div EpochLen
                      THEN current_set
                      ELSE compute_next_set
    /\ UNCHANGED <<balance, book, tombstones, applied, burnt, history>>

\* slash::apply of evidence that was not used before.  The evidence holds the two
\* votes in some order, and its hash tells the orders apart.
slash_apply(id, ev) ==
    LET cut == (self_bond[id] * Percent) \div 100 IN
    /\ <<id, ev>> \notin applied
    /\ applied' = applied \cup {<<id, ev>>}
    /\ self_bond' = [self_bond EXCEPT ![id] = @ - cut]
    /\ burnt' = burnt + cut
    /\ UNCHANGED <<balance, operator, delegations, unbonds, tombstones,
                   current_set, height, history>>

tombstone(id) ==
    /\ tombstones' = tombstones \cup {id}
    /\ UNCHANGED <<balance, book, current_set, height, applied, burnt, history>>

LedgerNext ==
    \/ \E from \in Accounts, fee \in Fees :
           \/ RunWasm(from, fee)
           \/ \E amount \in Amounts :
                  \/ \E to \in Accounts : Transfer(from, to, amount, fee)
                  \/ \E id \in Ids :
                         \/ Bond(from, id, amount, fee)
                         \/ Unbond(from, id, amount, fee)
                         \/ Delegate(from, id, amount, fee)
                         \/ Undelegate(from, id, amount, fee)
                  \/ Withdraw(from, amount, fee)
    \/ epoch_set_update
    \/ \E id \in Ids :
           \/ \E ev \in Offences \X {"ab", "ba"} : slash_apply(id, ev)
           \/ tombstone(id)

LedgerSpec == LedgerInit /\ [][LedgerNext]_ledger_vars

----------------------------------------------------------------------------
(* Properties.                                                             *)

\* Nothing is negative, and a bond always has an operator who can take it out.
LedgerTypeOK ==
    /\ balance \in [Accounts -> Nat]
    /\ self_bond \in [Ids -> Nat]
    /\ operator \in [Ids -> Accounts \cup {None}]
    /\ delegations \in [Accounts \X Ids -> Nat]
    /\ \A k \in DOMAIN pending_unbond :
           /\ k \in 0 .. next_unbond - 1
           /\ pending_unbond[k].owner \in Accounts
           /\ pending_unbond[k].amount \in Nat
    /\ tombstones \subseteq Ids
    /\ DOMAIN current_set \subseteq Ids
    /\ \A id \in Ids : self_bond[id] > 0 => operator[id] # None

\* No transaction, slash or withdrawal makes a token or loses one out of account: what
\* is in accounts, bonds, delegations and pending unbonds is what genesis gave out
\* less what was burnt.  Undelegated tokens count as burnt, since staking.rs gives
\* them to nobody.
Conserved ==
    SumOver(balance) + SumOver(self_bond) + SumOver(delegations) + SumOver(amounts) + burnt
    = SumOver(Alloc)

\* No account ever has withdrawn more than it signalled to unbond at least a full
\* period before, however its withdrawals cut the entries up (staking.rs, "First
\* height at which tx.stake.withdraw may succeed").
NoEarlyWithdraw ==
    \A a \in Accounts :
        paid[a] <= SumOf(signalled[a], {h \in Heights : h + Period <= height})

\* A bond that was never slashed is nothing or at least the minimum.
NoDustBond ==
    \A id \in Ids :
        \/ self_bond[id] = 0
        \/ self_bond[id] >= MinBond
        \/ \E ev \in applied : ev[1] = id

\* A tombstone is for good: the validator's bond never grows again, and its power is
\* in no set that is installed afterwards (slash.rs, "Permanently bar").
TombstoneBars ==
    [][\A id \in tombstones :
           /\ id \in tombstones'
           /\ self_bond'[id] <= self_bond[id]
           /\ id \in DOMAIN current_set' => current_set' = current_set]_ledger_vars
=============================================================================
