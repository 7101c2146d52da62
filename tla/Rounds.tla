------------------------------- MODULE Rounds -------------------------------
(***************************************************************************)
(* One height of the round-based protocol of the `consensus` crate: leader *)
(* lottery, prevote and precommit steps with the lock, timeouts and round  *)
(* changes, the consensus WAL and equivocation evidence.  The node binary  *)
(* runs round 0 only (see Live); this module is what the crate's functions *)
(* give a driver that calls them as their contracts say.                   *)
(***************************************************************************)
EXTENDS Consensus, Sequences

CONSTANTS
    Ids,            \* the validators in ValidatorId order
    Ticket,         \* first 16 bytes of each validator's VRF output
    Blocks,         \* header hashes
    Built,          \* the blocks an honest leader of a round may build
    Base, Delta,    \* TimeoutConfig: base per step, growth per round
    Byzantine,      \* validators that run code of their own
    Restarting,     \* validators that may restart, once each
    Times,          \* how long a driver may have waited when it asks the clock
    MaxRound,       \* bound: the last round played
    Shown,          \* bound: the blocks Byzantine leaders propose in a round
    RestartPoints   \* bound: the rounds and steps in which a validator may restart

RoundNo == 0..MaxRound
Kinds == {"Prevote", "Precommit"}
Steps == {"Propose", "Prevote", "Precommit"}

ASSUME RoundsAssumption ==
    /\ MaxRound \in Nat /\ Delta \in Nat /\ Times \subseteq Nat
    /\ Base \in [Steps -> Nat]
    /\ Ids \in Seq(Validators) /\ Ids # <<>>
    /\ Ticket \in [Validators -> Nat]
    /\ Built \in [RoundNo -> SUBSET Blocks]
    /\ Shown \in [RoundNo -> SUBSET Blocks]
    /\ Byzantine \subseteq Validators /\ Restarting \subseteq Validators
    /\ Nil \notin Blocks /\ None \notin Blocks
    /\ None \notin [round : RoundNo, block : Blocks]

VARIABLES
    round,          \* the driver's round, per validator
    step,           \* the step of the round whose timer is running
    lock,           \* the driver's lock, per validator: None or round and block
    log,            \* VoteReplayLog, per validator
    wal,            \* votes in the durable consensus WAL, per validator
    proposals,      \* proposals sent
    sent,           \* votes signed and sent
    committed,      \* the block committed at this height, per validator
    forgetful       \* validators that have restarted

memory == <<round, step, lock, log>>
vars == <<memory, wal, proposals, sent, committed, forgetful>>

Correct == Validators \ Byzantine

----------------------------------------------------------------------------
(* The leader lottery.                                                     *)

round_vrf_source(r) == Ids[(r % Len(Ids)) + 1]

\* Power of the first i validators in id order.
Cumulative(i) == PowerOf({Ids[k] : k \in 1..i})

\* The first validator whose cumulative power exceeds the ticket of `source`.
weighted_leader ==
    [source \in Validators |->
        LET ticket == Ticket[source] % Cumulative(Len(Ids))
        IN  Ids[CHOOSE i \in 1..Len(Ids) :
                    /\ ticket < Cumulative(i)
                    /\ \A j \in 1..(i - 1) : ticket >= Cumulative(j)]]

\* The lottery of the source a proposal names selects its proposer.  The
\* source is not compared with the one of the round.
verify_leader(p) == weighted_leader[p.source] = p.proposer

----------------------------------------------------------------------------
(* Timeouts.                                                               *)

duration_ms(s, r) == Saturated(Base[s] + Saturated(r * Delta))

\* The injected clocks of two processes have nothing to do with each other, so
\* the time a driver reads is any of Times.
elapsed(s, r) == \E waited \in Times : waited >= duration_ms(s, r)

----------------------------------------------------------------------------
(* Votes, locks and evidence.                                              *)

VoteFor(v, kind, block) ==
    [signer |-> v, height |-> 0, round |-> round[v], kind |-> kind, block |-> block]

\* Votes of kind `kind` and round `r` that a validator may hold: the ones sent
\* and whatever Byzantine validators say, for one block.
Reported(kind, r, block) ==
    {w \in sent : w.kind = kind /\ w.round = r}
      \cup [signer : Byzantine, height : {0}, round : {r}, kind : {kind}, block : {block}]

Votes(kind, r, block) == {w \in Reported(kind, r, block) : w.block = block}

HasPolka(r, block) == polka(Votes("Prevote", r, block), block)

prevote_allowed(v, block, unlock) ==
    \/ lock[v] = None
    \/ block = Nil
    \/ block = lock[v].block
    \/ /\ unlock # None
       /\ unlock.round > lock[v].round
       /\ unlock.block = block

\* equivocation and submit_evidence: two signed votes in one slot that differ.
equivocation(a, b) == SameKey(a, b) /\ a.block # b.block

\* Mutant: the slot is looked up in the replay log, which a restart empties.
check_in_memory(v, vote) == ~Equivocates(log[v], vote)

\* The WAL holds no other body for the vote's slot.
check_no_double_sign(v, vote) == \A w \in wal[v] : ~equivocation(w, vote)

----------------------------------------------------------------------------
(* Actions.                                                                *)

Init ==
    /\ round = [v \in Validators |-> 0]
    /\ step = [v \in Validators |-> "Propose"]
    /\ lock = [v \in Validators |-> None]
    /\ log = [v \in Validators |-> {}]
    /\ wal = [v \in Validators |-> {}]
    /\ proposals = {}
    /\ sent = {}
    /\ committed = [v \in Validators |-> None]
    /\ forgetful = {}

Undecided(v) == v \in Correct /\ committed[v] = None

\* What the process forgets when it restarts: everything but the WAL.
Forget(v) ==
    /\ v \in Restarting \ forgetful
    /\ <<round[v], step[v]>> \in RestartPoints
    /\ forgetful' = forgetful \cup {v}
    /\ round' = [round EXCEPT ![v] = 0]
    /\ step' = [step EXCEPT ![v] = "Propose"]
    /\ lock' = [lock EXCEPT ![v] = None]
    /\ log' = [log EXCEPT ![v] = {}]

NextStep(s) == IF s = "Propose" THEN "Prevote" ELSE "Precommit"

\* sign_vote_logged is given a vote that is signed already: check, log, and only
\* then hand it out to be sent.  `newLock` is the driver's lock once the vote is
\* out.  A vote that is refused is not sent; the step is over in either case.
Sign(v, vote, newLock) ==
    /\ IF check_no_double_sign(v, vote)
       THEN /\ wal' = [wal EXCEPT ![v] = @ \cup {vote}]
            /\ sent' = sent \cup {vote}
            /\ lock' = [lock EXCEPT ![v] = newLock]
       ELSE UNCHANGED <<wal, sent, lock>>
    /\ log' = [log EXCEPT ![v] = observe(@, vote)]
    /\ step' = [step EXCEPT ![v] = NextStep(@)]
    /\ UNCHANGED <<round, proposals, committed, forgetful>>

\* The process dies between log_vote and handing the vote out.
LogThenCrash(v, vote) ==
    /\ check_no_double_sign(v, vote)
    /\ wal' = [wal EXCEPT ![v] = @ \cup {vote}]
    /\ Forget(v)
    /\ UNCHANGED <<proposals, sent, committed>>

Propose(v) ==
    /\ Undecided(v)
    /\ weighted_leader[round_vrf_source(round[v])] = v
    /\ \E b \in Built[round[v]] :
           proposals' = proposals \cup
               {[round |-> round[v], block |-> b, proposer |-> v,
                 source |-> round_vrf_source(round[v])]}
    /\ UNCHANGED <<memory, wal, sent, committed, forgetful>>

\* Proposals a Byzantine leader may show anyone.
ByzantineProposals(r) ==
    {p \in [round : {r}, block : Shown[r], proposer : Byzantine, source : Validators] :
        verify_leader(p)}

\* The highest polka a driver may hand to prevote_step.
UnlockPolkas == {u \in [round : RoundNo, block : Blocks] : HasPolka(u.round, u.block)}

\* Mutant: any polka unlocks, however old and whatever its block.
prevote_by_any_polka(v, p, unlock) ==
    VoteFor(v, "Prevote",
            IF unlock # None \/ prevote_allowed(v, p.block, unlock) THEN p.block ELSE Nil)

\* The vote prevote_step returns: for the proposal, or nil if the lock forbids it.
prevote_vote(v, p, unlock) ==
    VoteFor(v, "Prevote", IF prevote_allowed(v, p.block, unlock) THEN p.block ELSE Nil)

\* prevote_step: on a lock the nil vote is returned whatever the replay log
\* says; otherwise an equivocation is an error.
Prevotes(v) ==
    {c \in {[vote |-> prevote_vote(v, p, u), lock |-> lock[v]] :
               p \in {q \in proposals \cup ByzantineProposals(round[v]) :
                         q.round = round[v] /\ verify_leader(q)},
               u \in UnlockPolkas \cup {None}} :
        c.vote.block = Nil \/ ~Equivocates(log[v], c.vote)}

\* timeout_nil: the nil prevote of a round whose proposal does not come.
NilPrevotes(v) ==
    {[vote |-> VoteFor(v, "Prevote", Nil), lock |-> lock[v]] :
        s \in {x \in {"Propose"} : elapsed(x, round[v])}}

\* precommit_step on the prevotes the driver has: a polka for the header it has
\* makes a precommit and a lock, anything else a nil precommit and no new lock,
\* so that the driver keeps the one it has.
Precommits(v) ==
    {[vote |-> VoteFor(v, "Precommit", b), lock |-> [round |-> round[v], block |-> b]] :
        b \in {x \in Blocks : HasPolka(round[v], x)}}
      \cup {[vote |-> VoteFor(v, "Precommit", Nil), lock |-> lock[v]]}

PrevoteStep(v) ==
    /\ Undecided(v)
    /\ step[v] = "Propose"
    /\ \E c \in Prevotes(v) : Sign(v, c.vote, c.lock)

TimeoutNil(v) ==
    /\ Undecided(v)
    /\ step[v] = "Propose"
    /\ \E c \in NilPrevotes(v) : Sign(v, c.vote, c.lock)

PrecommitStep(v) ==
    /\ Undecided(v)
    /\ step[v] = "Prevote"
    /\ \E c \in Precommits(v) : Sign(v, c.vote, c.lock)

CrashWhileSigning(v) ==
    /\ Undecided(v)
    /\ \E c \in CASE step[v] = "Propose" -> Prevotes(v) \cup NilPrevotes(v)
                  [] step[v] = "Prevote" -> Precommits(v)
                  [] OTHER -> {} :
           LogThenCrash(v, c.vote)

\* The timer of any step ends the round.
round_change_on_timeout(v) ==
    /\ Undecided(v)
    /\ elapsed(step[v], round[v])
    /\ round[v] < MaxRound
    /\ round' = [round EXCEPT ![v] = @ + 1]
    /\ step' = [step EXCEPT ![v] = "Propose"]
    /\ UNCHANGED <<lock, log, wal, proposals, sent, committed, forgetful>>

\* steps::commit on the precommits of the validator's round.
Commit(v) ==
    /\ Undecided(v)
    /\ \E b \in Blocks :
           /\ commit_ok(Votes("Precommit", round[v], b), total_power, b, committed[v])
           /\ committed' = [committed EXCEPT ![v] = b]
    /\ UNCHANGED <<memory, wal, proposals, sent, forgetful>>

Restart(v) ==
    /\ Undecided(v)
    /\ Forget(v)
    /\ UNCHANGED <<wal, proposals, sent, committed>>

Next ==
    \E v \in Validators :
        \/ Propose(v)
        \/ PrevoteStep(v)
        \/ PrecommitStep(v)
        \/ TimeoutNil(v)
        \/ CrashWhileSigning(v)
        \/ round_change_on_timeout(v)
        \/ Commit(v)
        \/ Restart(v)

Spec == Init /\ [][Next]_vars

----------------------------------------------------------------------------
(* Properties.                                                             *)

Vote == [signer : Validators, height : {0}, round : RoundNo, kind : Kinds,
         block : Blocks \cup {Nil}]

\* Every variable has its type, and a process never signs, in its own name,
\* what its WAL does not hold (sign_vote_logged logs first).
RoundsTypeOK ==
    /\ round \in [Validators -> RoundNo]
    /\ step \in [Validators -> Steps]
    /\ lock \in [Validators -> [round : RoundNo, block : Blocks] \cup {None}]
    /\ log \in [Validators -> SUBSET Vote]
    /\ wal \in [Validators -> SUBSET Vote]
    /\ proposals \subseteq [round : RoundNo, block : Blocks,
                            proposer : Validators, source : Validators]
    /\ sent \subseteq Vote
    /\ committed \in [Validators -> Blocks \cup {None}]
    /\ forgetful \subseteq Restarting
    /\ \A w \in sent : w \in wal[w.signer]

\* wal.no_double_sign: no two votes a correct validator has ever sent make
\* evidence against it, restarts and a crash between logging and signing
\* included.
NoEvidenceAgainstCorrect == \A a, b \in sent : ~equivocation(a, b)

\* cons.lock: who precommitted a block and, without forgetting it, prevotes
\* another one in a later round has seen a polka for that one in between.
LockRespected ==
    \A a, b \in sent :
        (/\ a.signer = b.signer
         /\ a.kind = "Precommit" /\ b.kind = "Prevote"
         /\ a.round < b.round
         /\ a.block # Nil /\ b.block \notin {Nil, a.block}
         /\ a.signer \notin forgetful)
        => \E r \in (a.round + 1)..MaxRound : HasPolka(r, b.block)

\* cons.safety.no_two_commits, over all rounds: as long as those who lie or have
\* forgotten their lock hold at most a third of the power, the others commit
\* one block.
RoundsAgreement ==
    3 * PowerOf(Byzantine \cup forgetful) <= PowerOf(Validators) =>
        \A v, w \in Correct \ forgetful :
            committed[v] # None /\ committed[w] # None => committed[v] = committed[w]
=============================================================================
