----------------------------- MODULE Consensus -----------------------------
(***************************************************************************)
(* The pure functions of the `consensus` crate that the node calls: voting *)
(* power and quorums, the polka, the vote vectors and the replay log, the  *)
(* quorum certificate and the commit log.  A block hash is any value of a  *)
(* set the using module chooses.  Whether a vote's signature verifies is   *)
(* left to the using module.                                               *)
(***************************************************************************)
EXTENDS Sums

CONSTANTS
    Validators,     \* genesis.validators, the keys
    Power,          \* genesis.validators, the voting power of each key
    MaxU64,         \* u64::MAX, where voting-power arithmetic saturates
    Nil,            \* VoteBlock::Nil
    None            \* Option::None

ASSUME PowerAssumption ==
    /\ IsFiniteSet(Validators)
    /\ Power \in [Validators -> Nat]
    /\ MaxU64 \in Nat

----------------------------------------------------------------------------
(* Voting power.                                                           *)

\* The exact power of a set of validators.
PowerOf(S) == SumOf(Power, S)

Saturated(x) == IF x > MaxU64 THEN MaxU64 ELSE x

total_power == Saturated(PowerOf(Validators))

has_quorum(voted, total) == Saturated(3 * voted) > Saturated(2 * total)

----------------------------------------------------------------------------
(* Votes.  A vector of votes holds at most one vote of a signer and is     *)
(* sorted by signer, so it is determined by the set of its elements.       *)

SameKey(v, w) ==
    /\ v.signer = w.signer
    /\ v.height = w.height
    /\ v.round = w.round
    /\ v.kind = w.kind

\* VoteReplayLog::observe: a second body under one key is an equivocation and
\* leaves the first one in the log.
Equivocates(log, v) == \E w \in log : SameKey(v, w) /\ w.block # v.block

observe(log, v) == IF \E w \in log : SameKey(v, w) THEN log ELSE log \cup {v}

HasVoteOf(votes, signer) == \E v \in votes : v.signer = signer

insert_vote_sorted(votes, v) ==
    IF HasVoteOf(votes, v.signer) THEN votes ELSE votes \cup {v}

Signers(votes, block) == {v.signer : v \in {w \in votes : w.block = block}}

tally(votes, block) == Saturated(PowerOf(Signers(votes, block) \cap Validators))

\* `polka` returns the block that has quorum, if any: there is at most one.
polka(votes, block) == has_quorum(tally(votes, block), total_power)

----------------------------------------------------------------------------
(* Commit.                                                                 *)

\* qc::aggregate fails on an empty or a mixed vector and on a signer that is no
\* validator, qc::verify on a vector without quorum.  That qc::verify also fails
\* when one of the signatures is bad is up to the caller: Rounds has signed votes
\* only, Live says so in Commits.
CertificateOk(precommits, block) ==
    /\ precommits # {}
    /\ \A v \in precommits : v.block = block /\ v.signer \in Validators
    /\ polka(precommits, block)

halt_no_quorum(reachable) == ~has_quorum(reachable, total_power)

\* Mutant: the caller's count of three precommits is all that is asked for.
commit_by_count(precommits, reachable, block, logged) ==
    /\ ~halt_no_quorum(reachable)
    /\ logged \in {None, block}

\* steps::commit yields a Finalized: enough power is reachable, the polka is on
\* the proposal's header, the whole vector makes a certificate, and the commit
\* log holds no other block at this height.
commit_ok(precommits, reachable, block, logged) ==
    /\ ~halt_no_quorum(reachable)
    /\ polka(precommits, block)
    /\ CertificateOk(precommits, block)
    /\ logged \in {None, block}
=============================================================================
