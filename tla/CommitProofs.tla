---------------------------- MODULE CommitProofs ----------------------------
(***************************************************************************)
(* How headers come to be committed, and what they tell those outside.     *)
(*                                                                         *)
(* Safety of the round protocol of Rounds, for every validator set, every  *)
(* distribution of power, every choice of liars and restarts and any       *)
(* number of rounds: no evidence against a correct validator, locks are    *)
(* respected, and all commits agree while those who lie or have forgotten  *)
(* hold at most a third of the power.                                      *)
(*                                                                         *)
(* The tries of Light that a header commits to, for every set of keys of   *)
(* any lengths and any number of writes: insert and remove keep the one    *)
(* trie that holds the contents, a proof shows the truth and nothing else, *)
(* and with that the safety properties of the state and the light client.  *)
(***************************************************************************)
EXTENDS Rounds, Light, ConsensusProofs


----------------------------------------------------------------------------
(* The inductive invariant.                                                *)

\* More than two thirds of the voting power.
Quorum(S) == 3 * PowerOf(S) > 2 * PowerOf(Validators)

\* Who may be shown to have voted for the block.
Voters(kind, r, b) ==
    Byzantine \cup {w.signer : w \in {x \in sent : x.kind = kind /\ x.round = r /\ x.block = b}}

\* The WAL of a validator holds its own votes, one for each slot.
OneVotePerSlot ==
    \A v \in Validators : \A w \in wal[v] :
        w.signer = v /\ \A x \in wal[v] : ~equivocation(w, x)

\* A precommit for a block, and a lock, follow a polka.
PolkaFirst ==
    \A v \in Validators :
        /\ \A w \in wal[v] :
               w.kind = "Precommit" /\ w.block # Nil => HasPolka(w.round, w.block)
        /\ \A r \in RoundNo, b \in Blocks :
               lock[v] = [round |-> r, block |-> b] => HasPolka(r, b)

\* Who has not restarted is not behind its votes and holds the lock of its latest
\* precommit for a block.
LockHeld ==
    \A v \in Validators \ forgetful : \A w \in wal[v] :
        /\ w.round <= round[v]
        /\ w.kind = "Precommit" /\ w.block # Nil =>
               /\ lock[v] # None
               /\ lock[v].round >= w.round
               /\ lock[v].round = w.round => lock[v].block = w.block

\* LockRespected for what is logged.
PolkaBetween(a, b) == \E r \in (a.round + 1)..MaxRound : HasPolka(r, b.block)

\* A prevote of a later round for a block other than the one precommitted.
Overrides(a, b) ==
    /\ a.kind = "Precommit" /\ b.kind = "Prevote"
    /\ a.round < b.round
    /\ a.block # Nil /\ b.block \notin {Nil, a.block}

\* Who has precommitted a block prevotes another only after a polka for it in
\* between.
LockKept ==
    \A v \in Validators \ forgetful : \A a, b \in wal[v] :
        Overrides(a, b) => PolkaBetween(a, b)

\* The validator is past the round and has not precommitted the block in it, so that
\* it will not unless it forgets the round it is in.
Closed(v, r, b) ==
    /\ r < round[v]
    /\ \A w \in wal[v] : w.kind = "Precommit" /\ w.round = r => w.block # b

\* Liars and those who forgot their lock hold at most a third of the power.
Budget == 3 * PowerOf(Byzantine \cup forgetful) <= PowerOf(Validators)

\* Once another block has a polka in a later round, a quorum is closed to the block,
\* liars and those who forgot apart.
PolkaCloses ==
    \A r1, r2 \in RoundNo : \A b1, b2 \in Blocks :
        r1 < r2 /\ b1 # b2 /\ HasPolka(r2, b2) =>
            \E Q \in SUBSET Validators :
                Quorum(Q) /\ \A v \in Q \ (Byzantine \cup forgetful) : Closed(v, r1, b1)

\* What a validator has committed has a quorum of precommits in some round.
CommitHasQuorum ==
    \A v \in Validators, b \in Blocks :
        committed[v] = b => \E r \in RoundNo : Quorum(Voters("Precommit", r, b))

\* The inductive invariant.
RoundsInv ==
    /\ RoundsTypeOK
    /\ OneVotePerSlot
    /\ PolkaFirst
    /\ LockHeld
    /\ LockKept
    /\ PolkaCloses
    /\ CommitHasQuorum

----------------------------------------------------------------------------
(* Polkas.                                                                 *)

\* Those who may be shown to have voted are the signers a polka counts.
LEMMA VotersType ==
  ASSUME RoundsTypeOK, NEW kind, NEW r, NEW b
  PROVE  /\ Voters(kind, r, b) \in SUBSET Validators
         /\ Signers(Votes(kind, r, b), b) \cap Validators = Voters(kind, r, b)
<1>1. Byzantine \subseteq Validators /\ \A w \in sent : w.signer \in Validators
  BY RoundsAssumption DEF RoundsTypeOK, Vote
<1>2. Voters(kind, r, b) \in SUBSET Validators
  BY <1>1 DEF Voters
<1>3. ASSUME NEW v \in Voters(kind, r, b)
      PROVE  v \in Signers(Votes(kind, r, b), b)
  <2>1. CASE v \in Byzantine
    <3> DEFINE x == [signer |-> v, height |-> 0, round |-> r, kind |-> kind, block |-> b]
    <3>1. x \in Votes(kind, r, b) /\ x.block = b /\ x.signer = v
      BY <2>1 DEF Votes, Reported
    <3> QED
      BY <3>1 DEF Signers
  <2>2. CASE \E w \in sent : w.kind = kind /\ w.round = r /\ w.block = b /\ w.signer = v
    BY <2>2 DEF Signers, Votes, Reported
  <2> QED
    BY <2>1, <2>2 DEF Voters
<1>4. ASSUME NEW v \in Signers(Votes(kind, r, b), b)
      PROVE  v \in Voters(kind, r, b)
  BY DEF Voters, Signers, Votes, Reported
<1> QED
  BY <1>2, <1>3, <1>4

\* A polka is a quorum of prevotes.
LEMMA PolkaQuorum ==
  ASSUME RoundsTypeOK, NEW r, NEW b, HasPolka(r, b)
  PROVE  Quorum(Voters("Prevote", r, b))
  BY PolkaIsQuorum, VotersType DEF HasPolka, Quorum

\* More power makes no quorum of a set with less.
LEMMA QuorumGrows ==
  ASSUME NEW T \in SUBSET Validators, NEW S \in SUBSET T, Quorum(S)
  PROVE  Quorum(T)
<1>1. /\ PowerOf(S) \in Nat /\ PowerOf(T) \in Nat /\ PowerOf(S) <= PowerOf(T)
      /\ PowerOf(Validators) \in Nat
  BY PowerMonotone
<1> QED
  BY <1>1 DEF Quorum

\* More power does not lose a quorum, saturated or not.
LEMMA HasQuorumGrows ==
  ASSUME NEW p \in Nat, NEW q \in Nat, p <= q, NEW t \in Nat,
         has_quorum(Saturated(p), t)
  PROVE  has_quorum(Saturated(q), t)
  BY PowerAssumption DEF has_quorum, Saturated

\* Votes are never taken back, so a polka stays.
LEMMA PolkaStays ==
  ASSUME sent \subseteq sent', NEW r, NEW b, HasPolka(r, b)
  PROVE  HasPolka(r, b)'
<1> DEFINE V == Votes("Prevote", r, b)
<1> DEFINE S == Signers(V, b) \cap Validators
<1> DEFINE T == Signers(V', b) \cap Validators
<1>1. V \subseteq V'
  BY DEF Votes, Reported
<1>2. S \subseteq T /\ T \in SUBSET Validators
  <2> HIDE DEF V
  <2> QED
    BY <1>1 DEF Signers
<1>3. PowerOf(S) \in Nat /\ PowerOf(T) \in Nat /\ PowerOf(S) <= PowerOf(T)
  BY <1>2, PowerMonotone
<1>4. total_power \in Nat
  BY PowerAssumption, PowerMonotone DEF total_power, Saturated
<1>5. has_quorum(Saturated(PowerOf(S)), total_power)
  BY DEF HasPolka, polka, tally
<1>6. has_quorum(Saturated(PowerOf(T)), total_power)
  <2> HIDE DEF S, T
  <2> QED
    BY <1>3, <1>4, <1>5, HasQuorumGrows
<1> QED
  BY <1>6 DEF HasPolka, polka, tally

\* The same in the next state.
LEMMA PolkaQuorumNext ==
  (\A r, b : RoundsTypeOK /\ HasPolka(r, b) =>
                /\ Voters("Prevote", r, b) \in SUBSET Validators
                /\ Quorum(Voters("Prevote", r, b)))'
<1>1. \A r, b : RoundsTypeOK /\ HasPolka(r, b) =>
                   /\ Voters("Prevote", r, b) \in SUBSET Validators
                   /\ Quorum(Voters("Prevote", r, b))
  BY VotersType, PolkaQuorum
<1> QED
  BY <1>1, PTL

\* Votes are never taken back, so a quorum of them stays.
LEMMA VotersGrow ==
  ASSUME RoundsTypeOK', sent \subseteq sent', NEW kind, NEW r, NEW b,
         Quorum(Voters(kind, r, b))
  PROVE  Quorum(Voters(kind, r, b)')
<1>1. Voters(kind, r, b) \subseteq Voters(kind, r, b)'
  BY DEF Voters
<1>2. Voters(kind, r, b)' \in SUBSET Validators
  <2>1. Byzantine \subseteq Validators /\ \A w \in sent' : w.signer \in Validators
    BY RoundsAssumption DEF RoundsTypeOK, Vote
  <2> QED
    BY <2>1 DEF Voters
<1> QED
  BY <1>1, <1>2, QuorumGrows

----------------------------------------------------------------------------
(* The steps.                                                              *)

\* What prevote_step or timeout_nil may return: a vote that the lock allows.
PrevoteOf(v, vote) ==
    /\ vote \in Vote
    /\ vote.signer = v /\ vote.round = round[v] /\ vote.kind = "Prevote"
    /\ vote.block # Nil =>
           \/ lock[v] = None
           \/ vote.block = lock[v].block
           \/ \E r \in RoundNo : r > lock[v].round /\ HasPolka(r, vote.block)

\* What precommit_step may return: nil, or a block that has a polka and its lock.
PrecommitOf(v, vote, newLock) ==
    /\ vote \in Vote
    /\ vote.signer = v /\ vote.round = round[v] /\ vote.kind = "Precommit"
    /\ \/ vote.block = Nil /\ newLock = lock[v]
       \/ /\ vote.block \in Blocks
          /\ HasPolka(round[v], vote.block)
          /\ newLock = [round |-> round[v], block |-> vote.block]

\* A vote a correct validator may sign, with the lock it then holds.
Voting(v, vote, newLock) ==
    \/ step[v] = "Propose" /\ PrevoteOf(v, vote) /\ newLock = lock[v]
    \/ step[v] = "Prevote" /\ PrecommitOf(v, vote, newLock)

\* A vote has the fields it was made with.
LEMMA VoteForType ==
  ASSUME RoundsTypeOK, NEW v \in Validators, NEW kind \in Kinds, NEW b \in Blocks \cup {Nil}
  PROVE  /\ VoteFor(v, kind, b) \in Vote
         /\ VoteFor(v, kind, b).signer = v
         /\ VoteFor(v, kind, b).round = round[v]
         /\ VoteFor(v, kind, b).kind = kind
         /\ VoteFor(v, kind, b).block = b
  BY DEF RoundsTypeOK, Vote, VoteFor

\* What prevote_step makes of a proposal is a prevote its lock allows.
LEMMA PrevotesAllowed ==
  ASSUME RoundsTypeOK, NEW v \in Validators, NEW c \in Prevotes(v)
  PROVE  PrevoteOf(v, c.vote) /\ c.lock = lock[v]
<1>1. PICK p \in proposals \cup ByzantineProposals(round[v]), u \in UnlockPolkas \cup {None} :
        c = [vote |-> prevote_vote(v, p, u), lock |-> lock[v]]
  BY DEF Prevotes
<1>2. p.block \in Blocks
  <2>1. round[v] \in RoundNo
    BY DEF RoundsTypeOK
  <2> QED
    BY <2>1, RoundsAssumption DEF RoundsTypeOK, ByzantineProposals
<1>3. c.vote = prevote_vote(v, p, u) /\ c.lock = lock[v]
  BY <1>1
<1>4. CASE prevote_allowed(v, p.block, u)
  <2>1. c.vote = VoteFor(v, "Prevote", p.block)
    BY <1>3, <1>4 DEF prevote_vote
  <2>2. /\ c.vote \in Vote /\ c.vote.signer = v /\ c.vote.round = round[v]
        /\ c.vote.kind = "Prevote" /\ c.vote.block = p.block
    BY <1>2, <2>1, VoteForType DEF Kinds
  <2>3. p.block # Nil
    BY <1>2, RoundsAssumption
  <2>4. \/ lock[v] = None
        \/ p.block = lock[v].block
        \/ u # None /\ u.round > lock[v].round /\ u.block = p.block
    BY <1>4, <2>3 DEF prevote_allowed
  <2>5. ASSUME u # None, u.round > lock[v].round, u.block = p.block
        PROVE  \E r \in RoundNo : r > lock[v].round /\ HasPolka(r, p.block)
    <3>1. u.round \in RoundNo /\ HasPolka(u.round, u.block)
      BY <1>1, <2>5 DEF UnlockPolkas
    <3> QED
      BY <2>5, <3>1
  <2> QED
    BY <1>3, <2>2, <2>4, <2>5 DEF PrevoteOf
<1>5. CASE ~prevote_allowed(v, p.block, u)
  <2>1. c.vote = VoteFor(v, "Prevote", Nil)
    BY <1>3, <1>5 DEF prevote_vote
  <2> QED
    BY <1>3, <2>1, VoteForType DEF PrevoteOf, Kinds
<1> QED
  BY <1>4, <1>5

\* So is a prevote for nil.
LEMMA NilPrevotesAllowed ==
  ASSUME RoundsTypeOK, NEW v \in Validators, NEW c \in NilPrevotes(v)
  PROVE  PrevoteOf(v, c.vote) /\ c.lock = lock[v]
<1>1. c = [vote |-> VoteFor(v, "Prevote", Nil), lock |-> lock[v]]
  BY DEF NilPrevotes
<1>2. c.vote = VoteFor(v, "Prevote", Nil) /\ c.lock = lock[v]
  BY <1>1
<1> QED
  BY <1>2, VoteForType DEF PrevoteOf, Kinds

\* What precommit_step makes is a precommit of a block with a polka, or of nil.
LEMMA PrecommitsAllowed ==
  ASSUME RoundsTypeOK, NEW v \in Validators, NEW c \in Precommits(v)
  PROVE  PrecommitOf(v, c.vote, c.lock)
<1>1. CASE c = [vote |-> VoteFor(v, "Precommit", Nil), lock |-> lock[v]]
  <2>1. c.vote = VoteFor(v, "Precommit", Nil) /\ c.lock = lock[v]
    BY <1>1
  <2> QED
    BY <2>1, VoteForType DEF PrecommitOf, Kinds
<1>2. CASE \E b \in Blocks : HasPolka(round[v], b) /\
               c = [vote |-> VoteFor(v, "Precommit", b),
                    lock |-> [round |-> round[v], block |-> b]]
  <2>1. PICK b \in Blocks : HasPolka(round[v], b) /\
               c = [vote |-> VoteFor(v, "Precommit", b),
                    lock |-> [round |-> round[v], block |-> b]]
    BY <1>2
  <2>2. c.vote = VoteFor(v, "Precommit", b) /\ c.lock = [round |-> round[v], block |-> b]
    BY <2>1
  <2> QED
    BY <2>1, <2>2, VoteForType DEF PrecommitOf, Kinds
<1> QED
  BY <1>1, <1>2 DEF Precommits

\* The steps that matter: a vote, a crash while voting, a new round, a commit, a
\* restart, and at most a proposal.
Quiet ==
    /\ UNCHANGED <<round, step, lock, log, wal, sent, committed, forgetful>>
    /\ proposals' = proposals \/ \E v \in Validators : Propose(v)

\* Every step is quiet, or one validator signs, logs and crashes, moves on,
\* commits or restarts.
LEMMA StepKinds ==
  ASSUME RoundsTypeOK, [Next]_vars
  PROVE  \/ Quiet
         \/ \E v \in Correct :
               \/ \E vote, newLock : Voting(v, vote, newLock) /\ Sign(v, vote, newLock)
               \/ \E vote, newLock : Voting(v, vote, newLock) /\ LogThenCrash(v, vote)
               \/ round_change_on_timeout(v)
               \/ Commit(v)
               \/ Restart(v)
<1>1. CASE UNCHANGED vars
  BY <1>1 DEF Quiet, vars, memory
<1>2. ASSUME NEW v \in Validators, Propose(v) PROVE Quiet
  BY <1>2 DEF Propose, Quiet, memory
<1>3. ASSUME NEW v \in Validators, PrevoteStep(v)
      PROVE  v \in Correct /\ \E vote, newLock : Voting(v, vote, newLock) /\ Sign(v, vote, newLock)
  <2>1. PICK c \in Prevotes(v) : Sign(v, c.vote, c.lock)
    BY <1>3 DEF PrevoteStep
  <2>2. Voting(v, c.vote, c.lock)
    BY <1>3, PrevotesAllowed DEF Voting, PrevoteStep
  <2> QED
    BY <1>3, <2>1, <2>2 DEF PrevoteStep, Undecided
<1>4. ASSUME NEW v \in Validators, TimeoutNil(v)
      PROVE  v \in Correct /\ \E vote, newLock : Voting(v, vote, newLock) /\ Sign(v, vote, newLock)
  <2>1. PICK c \in NilPrevotes(v) : Sign(v, c.vote, c.lock)
    BY <1>4 DEF TimeoutNil
  <2>2. Voting(v, c.vote, c.lock)
    BY <1>4, NilPrevotesAllowed DEF Voting, TimeoutNil
  <2> QED
    BY <1>4, <2>1, <2>2 DEF TimeoutNil, Undecided
<1>5. ASSUME NEW v \in Validators, PrecommitStep(v)
      PROVE  v \in Correct /\ \E vote, newLock : Voting(v, vote, newLock) /\ Sign(v, vote, newLock)
  <2>1. PICK c \in Precommits(v) : Sign(v, c.vote, c.lock)
    BY <1>5 DEF PrecommitStep
  <2>2. Voting(v, c.vote, c.lock)
    BY <1>5, PrecommitsAllowed DEF Voting, PrecommitStep
  <2> QED
    BY <1>5, <2>1, <2>2 DEF PrecommitStep, Undecided
<1>6. ASSUME NEW v \in Validators, CrashWhileSigning(v)
      PROVE  v \in Correct /\ \E vote, newLock : Voting(v, vote, newLock) /\ LogThenCrash(v, vote)
  <2>1. v \in Correct
    BY <1>6 DEF CrashWhileSigning, Undecided
  <2>2. CASE step[v] = "Propose"
    <3>1. PICK c \in Prevotes(v) \cup NilPrevotes(v) : LogThenCrash(v, c.vote)
      BY <1>6, <2>2 DEF CrashWhileSigning
    <3>2. Voting(v, c.vote, c.lock)
      BY <2>2, PrevotesAllowed, NilPrevotesAllowed DEF Voting
    <3> QED
      BY <2>1, <3>1, <3>2
  <2>3. CASE step[v] = "Prevote"
    <3>1. PICK c \in Precommits(v) : LogThenCrash(v, c.vote)
      BY <1>6, <2>3 DEF CrashWhileSigning
    <3>2. Voting(v, c.vote, c.lock)
      BY <2>3, PrecommitsAllowed DEF Voting
    <3> QED
      BY <2>1, <3>1, <3>2
  <2>4. step[v] # "Precommit"
    BY <1>6 DEF CrashWhileSigning
  <2> QED
    BY <2>2, <2>3, <2>4 DEF RoundsTypeOK, Steps
<1>7. ASSUME NEW v \in Validators, round_change_on_timeout(v) \/ Commit(v) \/ Restart(v)
      PROVE  v \in Correct
  BY <1>7 DEF round_change_on_timeout, Commit, Restart, Undecided
<1> QED
  BY <1>1, <1>2, <1>3, <1>4, <1>5, <1>6, <1>7 DEF Next

----------------------------------------------------------------------------
(* Type correctness.                                                       *)

\* Votes and locks keep their types.
LEMMA VotingType ==
  ASSUME RoundsTypeOK, NEW v \in Validators, NEW vote, NEW newLock, Voting(v, vote, newLock)
  PROVE  /\ vote \in Vote /\ vote.signer = v /\ vote.round = round[v]
         /\ newLock \in [round : RoundNo, block : Blocks] \cup {None}
<1>1. round[v] \in RoundNo /\ lock[v] \in [round : RoundNo, block : Blocks] \cup {None}
  BY DEF RoundsTypeOK
<1> QED
  BY <1>1 DEF Voting, PrevoteOf, PrecommitOf

\* The source of a round's leader is a validator.
LEMMA SourceType ==
  ASSUME NEW r \in RoundNo
  PROVE  round_vrf_source(r) \in Validators
<1>1. Len(Ids) \in Nat \ {0}
  BY RoundsAssumption
<1>2. r % Len(Ids) \in 0 .. (Len(Ids) - 1)
  BY <1>1, RoundsAssumption DEF RoundNo
<1>3. (r % Len(Ids)) + 1 \in 1 .. Len(Ids)
  BY <1>1, <1>2
<1> QED
  BY <1>3, RoundsAssumption DEF round_vrf_source

\* Every step keeps the types.
LEMMA RoundsTypeStep ==
  ASSUME RoundsTypeOK, [Next]_vars
  PROVE  RoundsTypeOK'
<1>0. /\ round \in [Validators -> RoundNo]
      /\ step \in [Validators -> Steps]
      /\ lock \in [Validators -> [round : RoundNo, block : Blocks] \cup {None}]
      /\ log \in [Validators -> SUBSET Vote]
      /\ wal \in [Validators -> SUBSET Vote]
      /\ sent \subseteq Vote
      /\ committed \in [Validators -> Blocks \cup {None}]
      /\ forgetful \subseteq Restarting
      /\ \A w \in sent : w \in wal[w.signer]
      /\ 0 \in RoundNo /\ "Propose" \in Steps
      /\ None \in [round : RoundNo, block : Blocks] \cup {None}
  BY RoundsAssumption DEF RoundsTypeOK, RoundNo, Steps
<1>1. CASE Quiet
  <2>1. CASE proposals' = proposals
    BY <1>1, <2>1 DEF Quiet, RoundsTypeOK
  <2>2. ASSUME NEW v \in Validators, Propose(v)
        PROVE  proposals' \subseteq [round : RoundNo, block : Blocks,
                                     proposer : Validators, source : Validators]
    <3>1. round[v] \in RoundNo /\ round_vrf_source(round[v]) \in Validators
      BY <1>0, SourceType
    <3>2. PICK b \in Built[round[v]] :
            proposals' = proposals \cup
               {[round |-> round[v], block |-> b, proposer |-> v,
                 source |-> round_vrf_source(round[v])]}
      BY <2>2 DEF Propose
    <3>3. b \in Blocks
      BY <3>1, RoundsAssumption
    <3> QED
      BY <3>1, <3>2, <3>3 DEF RoundsTypeOK
  <2> QED
    BY <1>1, <2>1, <2>2 DEF Quiet, RoundsTypeOK
<1>2. ASSUME NEW v \in Correct, NEW vote, NEW newLock,
             Voting(v, vote, newLock), Sign(v, vote, newLock)
      PROVE  RoundsTypeOK'
  <2>1. /\ vote \in Vote /\ vote.signer = v
        /\ newLock \in [round : RoundNo, block : Blocks] \cup {None}
        /\ v \in Validators
    BY <1>2, VotingType DEF Correct
  <2>2. log' \in [Validators -> SUBSET Vote]
    <3>1. observe(log[v], vote) \in SUBSET Vote
      BY <1>0, <2>1 DEF observe
    <3> QED
      BY <1>0, <1>2, <3>1 DEF Sign
  <2>3. step' \in [Validators -> Steps]
    BY <1>0, <1>2 DEF Sign, NextStep, Steps
  <2>4. /\ lock' \in [Validators -> [round : RoundNo, block : Blocks] \cup {None}]
        /\ wal' \in [Validators -> SUBSET Vote]
        /\ sent' \subseteq Vote
    BY <1>0, <1>2, <2>1 DEF Sign
  <2>5. \A w \in sent' : w \in wal'[w.signer]
    BY <1>0, <1>2, <2>1 DEF Sign, Vote
  <2>6. UNCHANGED <<round, proposals, committed, forgetful>>
    BY <1>2 DEF Sign
  <2> QED
    BY <2>2, <2>3, <2>4, <2>5, <2>6 DEF RoundsTypeOK
<1>3. ASSUME NEW v \in Correct, Forget(v)
      PROVE  /\ round' \in [Validators -> RoundNo]
             /\ step' \in [Validators -> Steps]
             /\ lock' \in [Validators -> [round : RoundNo, block : Blocks] \cup {None}]
             /\ log' \in [Validators -> SUBSET Vote]
             /\ forgetful' \subseteq Restarting
  BY <1>0, <1>3 DEF Forget
<1>4. ASSUME NEW v \in Correct, NEW vote, NEW newLock,
             Voting(v, vote, newLock), LogThenCrash(v, vote)
      PROVE  RoundsTypeOK'
  <2>1. vote \in Vote /\ vote.signer = v /\ v \in Validators
    BY <1>4, VotingType DEF Correct
  <2>2. wal' \in [Validators -> SUBSET Vote] /\ \A w \in sent' : w \in wal'[w.signer]
    BY <1>0, <1>4, <2>1 DEF LogThenCrash, Vote
  <2> QED
    BY <1>3, <1>4, <2>2 DEF RoundsTypeOK, LogThenCrash
<1>5. ASSUME NEW v \in Correct, round_change_on_timeout(v)
      PROVE  RoundsTypeOK'
  <2>1. round[v] + 1 \in RoundNo
    BY <1>0, <1>5, RoundsAssumption DEF round_change_on_timeout, RoundNo, Correct
  <2>2. round' \in [Validators -> RoundNo] /\ step' \in [Validators -> Steps]
    BY <1>0, <1>5, <2>1 DEF round_change_on_timeout
  <2> QED
    BY <1>5, <2>2 DEF RoundsTypeOK, round_change_on_timeout
<1>6. ASSUME NEW v \in Correct, Commit(v)
      PROVE  RoundsTypeOK'
  <2>1. committed' \in [Validators -> Blocks \cup {None}]
    BY <1>0, <1>6 DEF Commit
  <2>2. UNCHANGED <<round, step, lock, log, wal, proposals, sent, forgetful>>
    BY <1>6 DEF Commit, memory
  <2> QED
    BY <2>1, <2>2 DEF RoundsTypeOK
<1>7. ASSUME NEW v \in Correct, Restart(v)
      PROVE  RoundsTypeOK'
  BY <1>3, <1>7 DEF RoundsTypeOK, Restart
<1> QED
  BY <1>1, <1>2, <1>4, <1>5, <1>6, <1>7, StepKinds

----------------------------------------------------------------------------
(* What is logged.                                                         *)

\* Votes are only added, and nobody recovers its memory.
LEMMA Growing ==
  ASSUME RoundsTypeOK, [Next]_vars
  PROVE  /\ sent \subseteq sent'
         /\ forgetful \subseteq forgetful'
         /\ \A v \in Validators : wal[v] \subseteq wal'[v]
<1>0. wal \in [Validators -> SUBSET Vote]
  BY DEF RoundsTypeOK
<1>1. ASSUME NEW v \in Correct, NEW vote, NEW newLock,
             Sign(v, vote, newLock) \/ LogThenCrash(v, vote)
      PROVE  /\ sent \subseteq sent'
             /\ forgetful \subseteq forgetful'
             /\ \A u \in Validators : wal[u] \subseteq wal'[u]
  BY <1>0, <1>1 DEF Sign, LogThenCrash, Forget
<1>2. ASSUME NEW v \in Correct, round_change_on_timeout(v) \/ Commit(v) \/ Restart(v)
      PROVE  /\ sent \subseteq sent'
             /\ forgetful \subseteq forgetful'
             /\ \A u \in Validators : wal[u] \subseteq wal'[u]
  BY <1>2 DEF round_change_on_timeout, Commit, Restart, Forget
<1> QED
  BY <1>1, <1>2, StepKinds DEF Quiet

\* What a validator logs is new or checked against everything in its WAL.
LEMMA LoggedVote ==
  ASSUME RoundsTypeOK, [Next]_vars, NEW v \in Validators, NEW w \in wal'[v], w \notin wal[v]
  PROVE  /\ \E newLock : Voting(v, w, newLock) /\ (Sign(v, w, newLock) \/ LogThenCrash(v, w))
         /\ wal' = [wal EXCEPT ![v] = @ \cup {w}]
         /\ check_no_double_sign(v, w)
<1>0. wal \in [Validators -> SUBSET Vote]
  BY DEF RoundsTypeOK
<1>1. ASSUME NEW u \in Correct, NEW vote, NEW newLock,
             Voting(u, vote, newLock), Sign(u, vote, newLock) \/ LogThenCrash(u, vote)
      PROVE  /\ u = v /\ vote = w /\ wal' = [wal EXCEPT ![v] = @ \cup {w}]
             /\ check_no_double_sign(v, w)
  BY <1>0, <1>1 DEF Sign, LogThenCrash
<1> QED
  BY <1>1, StepKinds DEF Quiet, round_change_on_timeout, Commit, Restart

\* Every step keeps one vote for each slot of a WAL.
LEMMA OneVotePerSlotStep ==
  ASSUME RoundsTypeOK, OneVotePerSlot, [Next]_vars
  PROVE  OneVotePerSlot'
<1>0. wal \in [Validators -> SUBSET Vote]
  BY DEF RoundsTypeOK
<1> SUFFICES ASSUME NEW v \in Validators, NEW w \in wal'[v], NEW x \in wal'[v]
             PROVE  w.signer = v /\ ~equivocation(w, x)
  BY DEF OneVotePerSlot, equivocation, SameKey
<1>1. ASSUME NEW y \in wal'[v], y \notin wal[v]
      PROVE  /\ y.signer = v /\ \A z \in wal[v] : ~equivocation(z, y)
             /\ \A z \in wal'[v] : z = y \/ z \in wal[v]
  <2>1. \E newLock : Voting(v, y, newLock)
    BY <1>1, LoggedVote
  <2>2. y.signer = v
    BY <2>1, VotingType
  <2>3. wal' = [wal EXCEPT ![v] = @ \cup {y}] /\ check_no_double_sign(v, y)
    BY <1>1, LoggedVote
  <2> QED
    BY <1>0, <2>2, <2>3 DEF check_no_double_sign
<1> QED
  BY <1>1 DEF OneVotePerSlot, equivocation, SameKey

----------------------------------------------------------------------------
(* Locks.                                                                  *)

\* Every step keeps a polka under each precommit of a block.
LEMMA PolkaFirstStep ==
  ASSUME RoundsTypeOK, PolkaFirst, [Next]_vars
  PROVE  PolkaFirst'
<1>0. /\ lock \in [Validators -> [round : RoundNo, block : Blocks] \cup {None}]
      /\ wal \in [Validators -> SUBSET Vote] /\ round \in [Validators -> RoundNo]
  BY DEF RoundsTypeOK
<1>1. \A r, b : HasPolka(r, b) => HasPolka(r, b)'
  BY Growing, PolkaStays
<1>2. ASSUME NEW v \in Validators, NEW w \in wal'[v], w.kind = "Precommit", w.block # Nil
      PROVE  HasPolka(w.round, w.block)'
  <2>1. CASE w \in wal[v]
    BY <1>1, <1>2, <2>1 DEF PolkaFirst
  <2>2. CASE w \notin wal[v]
    <3>1. PICK newLock : Voting(v, w, newLock)
      BY <2>2, LoggedVote
    <3>2. HasPolka(w.round, w.block)
      BY <1>2, <3>1 DEF Voting, PrevoteOf, PrecommitOf
    <3> QED
      BY <1>1, <3>2
  <2> QED
    BY <2>1, <2>2
<1>3. ASSUME NEW v \in Validators, NEW r \in RoundNo, NEW b \in Blocks,
             lock'[v] = [round |-> r, block |-> b]
      PROVE  HasPolka(r, b)'
  <2>1. CASE lock'[v] = lock[v]
    BY <1>1, <1>3, <2>1 DEF PolkaFirst
  <2>2. ASSUME NEW u \in Correct, NEW vote, NEW newLock,
               Voting(u, vote, newLock), Sign(u, vote, newLock), lock'[v] # lock[v]
        PROVE  HasPolka(r, b)'
    <3>1. u = v /\ lock'[v] = newLock
      BY <1>0, <2>2 DEF Sign
    <3>2. PrecommitOf(v, vote, newLock) /\ newLock # lock[v]
      BY <2>2, <3>1 DEF Voting
    <3>3. HasPolka(round[v], vote.block) /\ newLock = [round |-> round[v], block |-> vote.block]
      BY <3>2 DEF PrecommitOf
    <3>4. r = round[v] /\ b = vote.block
      BY <1>3, <3>1, <3>3
    <3> QED
      BY <1>1, <3>3, <3>4
  <2>3. ASSUME NEW u \in Correct, Forget(u)
        PROVE  lock'[v] = lock[v]
    <3>1. lock'[u] = None /\ \A x \in Validators \ {u} : lock'[x] = lock[x]
      BY <1>0, <2>3 DEF Forget, Correct
    <3>2. CASE u = v
      BY <1>3, <3>1, <3>2, RoundsAssumption
    <3> QED
      BY <3>1, <3>2
  <2> QED
    BY <2>1, <2>2, <2>3, StepKinds
       DEF Quiet, LogThenCrash, round_change_on_timeout, Commit, memory, Restart
<1> QED
  BY <1>2, <1>3 DEF PolkaFirst

\* Every step keeps the lock at the last precommit of a block.
LEMMA LockHeldStep ==
  ASSUME RoundsTypeOK, OneVotePerSlot, LockHeld, [Next]_vars
  PROVE  LockHeld'
<1>0. /\ lock \in [Validators -> [round : RoundNo, block : Blocks] \cup {None}]
      /\ wal \in [Validators -> SUBSET Vote] /\ round \in [Validators -> RoundNo]
      /\ \A r \in RoundNo : r \in Int
  BY DEF RoundsTypeOK, RoundNo
<1> SUFFICES ASSUME NEW v \in Validators \ forgetful', NEW w \in wal'[v]
             PROVE  /\ w.round <= round'[v]
                    /\ w.kind = "Precommit" /\ w.block # Nil =>
                           /\ lock'[v] # None
                           /\ lock'[v].round >= w.round
                           /\ lock'[v].round = w.round => lock'[v].block = w.block
  BY DEF LockHeld
<1>1. v \notin forgetful
  BY Growing
<1>2. ASSUME w \in wal[v], lock'[v] = lock[v], round'[v] = round[v] \/ round'[v] = round[v] + 1
      PROVE  /\ w.round <= round'[v]
             /\ w.kind = "Precommit" /\ w.block # Nil =>
                    /\ lock'[v] # None
                    /\ lock'[v].round >= w.round
                    /\ lock'[v].round = w.round => lock'[v].block = w.block
  <2>1. w.round \in Int /\ round[v] \in Int /\ w.round <= round[v]
    BY <1>0, <1>1, <1>2 DEF LockHeld, Vote
  <2> QED
    BY <1>1, <1>2, <2>1 DEF LockHeld
<1>3. ASSUME NEW u \in Correct, Forget(u)
      PROVE  v # u /\ lock'[v] = lock[v] /\ round'[v] = round[v]
  BY <1>0, <1>3 DEF Forget
<1>4. ASSUME NEW u \in Correct, NEW vote, NEW newLock,
             Voting(u, vote, newLock), Sign(u, vote, newLock)
      PROVE  /\ w.round <= round'[v]
             /\ w.kind = "Precommit" /\ w.block # Nil =>
                    /\ lock'[v] # None
                    /\ lock'[v].round >= w.round
                    /\ lock'[v].round = w.round => lock'[v].block = w.block
  <2>0. round' = round /\ u \in Validators
    BY <1>4 DEF Sign, Correct
  <2>1. CASE u # v \/ ~check_no_double_sign(u, vote)
    <3>1. wal'[v] = wal[v] /\ lock'[v] = lock[v]
      BY <1>0, <1>4, <2>1 DEF Sign
    <3> QED
      BY <1>2, <2>0, <3>1
  <2>2. CASE u = v /\ check_no_double_sign(v, vote)
    <3>1. wal'[v] = wal[v] \cup {vote} /\ lock'[v] = newLock
      BY <1>0, <1>4, <2>2 DEF Sign
    <3>2. vote \in Vote /\ vote.round = round[v] /\ round[v] \in Int
      BY <1>0, <1>4, <2>2, VotingType
    <3>3. w.round \in Int /\ w.round <= round[v]
      BY <1>0, <1>1, <3>1, <3>2 DEF LockHeld, Vote
    <3>4. CASE newLock = lock[v] /\ (vote.kind # "Precommit" \/ vote.block = Nil)
      BY <1>1, <2>0, <3>1, <3>3, <3>4 DEF LockHeld
    <3>5. CASE /\ vote.kind = "Precommit" /\ vote.block \in Blocks
               /\ newLock = [round |-> round[v], block |-> vote.block]
      <4>1. newLock # None /\ newLock.round = round[v] /\ newLock.block = vote.block
        BY <1>0, <3>5, RoundsAssumption
      <4>2. ASSUME w.kind = "Precommit", w.round = round[v]
            PROVE  w.block = vote.block
        <5>1. CASE w \in wal[v]
          <6>1. w.signer = vote.signer /\ w.height = vote.height
            BY <1>0, <1>4, <2>2, <3>2, <5>1, VotingType DEF OneVotePerSlot, Vote
          <6> QED
            BY <2>2, <3>2, <3>5, <4>2, <5>1, <6>1 DEF check_no_double_sign, equivocation, SameKey
        <5> QED
          BY <3>1, <5>1
      <4> QED
        BY <2>0, <3>1, <3>3, <4>1, <4>2
    <3> QED
      BY <1>4, <2>2, <3>4, <3>5 DEF Voting, PrevoteOf, PrecommitOf
  <2> QED
    BY <2>1, <2>2
<1>5. ASSUME NEW u \in Correct, NEW vote, LogThenCrash(u, vote)
      PROVE  w \in wal[v]
  BY <1>0, <1>3, <1>5 DEF LogThenCrash
<1>6. ASSUME NEW u \in Correct, round_change_on_timeout(u)
      PROVE  w \in wal[v] /\ lock'[v] = lock[v] /\ round'[v] \in {round[v], round[v] + 1}
  BY <1>0, <1>6 DEF round_change_on_timeout
<1>7. ASSUME NEW u \in Correct, Restart(u) \/ Commit(u)
      PROVE  w \in wal[v] /\ (Forget(u) \/ (lock' = lock /\ round' = round))
  BY <1>7 DEF Restart, Commit, memory
<1> QED
  BY <1>2, <1>3, <1>4, <1>5, <1>6, <1>7, StepKinds DEF Quiet, LogThenCrash

\* A logged prevote that goes against an older precommit of a validator that has not
\* forgotten it had its polka when it was made: the polka is there before the step.
LEMMA OverridesPolka ==
  ASSUME RoundsTypeOK, PolkaFirst, LockHeld, LockKept, [Next]_vars,
         NEW v \in Validators \ forgetful', NEW a \in wal'[v], NEW b \in wal'[v],
         Overrides(a, b)
  PROVE  \E r \in (a.round + 1)..MaxRound : HasPolka(r, b.block)
<1>0. /\ lock \in [Validators -> [round : RoundNo, block : Blocks] \cup {None}]
      /\ wal \in [Validators -> SUBSET Vote] /\ round \in [Validators -> RoundNo]
      /\ v \in Validators \ forgetful
      /\ wal[v] \subseteq wal'[v]
  BY Growing DEF RoundsTypeOK
<1>1. CASE a \in wal[v] /\ b \in wal[v]
  BY <1>0, <1>1 DEF LockKept, PolkaBetween
<1>2. ASSUME NEW x \in wal'[v], x \notin wal[v]
      PROVE  /\ \E newLock : Voting(v, x, newLock)
             /\ x.round = round[v] /\ \A y \in wal'[v] : y = x \/ y \in wal[v]
  <2>1. PICK newLock : Voting(v, x, newLock)
    BY <1>2, LoggedVote
  <2>2. x.round = round[v]
    BY <2>1, VotingType
  <2>3. wal' = [wal EXCEPT ![v] = @ \cup {x}]
    BY <1>2, LoggedVote
  <2> QED
    BY <1>0, <2>1, <2>2, <2>3
<1>3. CASE a \notin wal[v]
  <2>1. a.round = round[v] /\ (b = a \/ b \in wal[v])
    BY <1>2, <1>3
  <2>2. b \in wal[v]
    BY <2>1 DEF Overrides
  <2>3. b.round <= round[v] /\ b.round \in Int /\ round[v] \in Int
    BY <1>0, <2>2 DEF LockHeld, Vote, RoundNo
  <2> QED
    BY <2>1, <2>3 DEF Overrides
<1>4. CASE a \in wal[v] /\ b \notin wal[v]
  <2>1. PICK newLock : Voting(v, b, newLock)
    BY <1>2, <1>4
  <2>2. b \in Vote /\ PrevoteOf(v, b)
    BY <2>1 DEF Voting, PrecommitOf, PrevoteOf, Overrides
  <2>3. /\ lock[v] # None /\ lock[v].round >= a.round
        /\ lock[v].round = a.round => lock[v].block = a.block
    BY <1>0, <1>4 DEF LockHeld, Overrides
  <2>4. /\ lock[v] \in [round : RoundNo, block : Blocks]
        /\ lock[v] = [round |-> lock[v].round, block |-> lock[v].block]
        /\ lock[v].round \in RoundNo /\ lock[v].block \in Blocks
        /\ a.round \in RoundNo
    BY <1>0, <1>4, <2>3 DEF Vote
  <2>5. HasPolka(lock[v].round, lock[v].block)
    BY <1>0, <2>4 DEF PolkaFirst
  <2>6. CASE b.block = lock[v].block
    <3>1. lock[v].round \in (a.round + 1)..MaxRound
      BY <2>3, <2>4, <2>6, RoundsAssumption DEF Overrides, RoundNo
    <3> QED
      BY <2>5, <2>6, <3>1
  <2>7. CASE \E r \in RoundNo : r > lock[v].round /\ HasPolka(r, b.block)
    <3>1. PICK r \in RoundNo : r > lock[v].round /\ HasPolka(r, b.block)
      BY <2>7
    <3>2. r \in (a.round + 1)..MaxRound
      BY <2>3, <2>4, <3>1, RoundsAssumption DEF RoundNo
    <3> QED
      BY <3>1, <3>2
  <2> QED
    BY <2>2, <2>3, <2>6, <2>7 DEF PrevoteOf, Overrides
<1> QED
  BY <1>1, <1>3, <1>4

\* Every step keeps prevotes within the locks.
LEMMA LockKeptStep ==
  ASSUME RoundsTypeOK, PolkaFirst, LockHeld, LockKept, [Next]_vars
  PROVE  LockKept'
<1> SUFFICES ASSUME NEW v \in Validators \ forgetful', NEW a \in wal'[v], NEW b \in wal'[v],
                    Overrides(a, b)
             PROVE  PolkaBetween(a, b)'
  BY DEF LockKept
<1>1. PICK r \in (a.round + 1)..MaxRound : HasPolka(r, b.block)
  BY OverridesPolka
<1>2. HasPolka(r, b.block)'
  BY <1>1, Growing, PolkaStays
<1> QED
  BY <1>2 DEF PolkaBetween

----------------------------------------------------------------------------
(* Commits.                                                                *)

\* Who has left a round without a precommit of the block never makes one, as long as
\* it does not forget.
LEMMA ClosedStays ==
  ASSUME RoundsTypeOK, [Next]_vars, NEW v \in Validators \ forgetful',
         NEW r \in RoundNo, NEW b, Closed(v, r, b)
  PROVE  Closed(v, r, b)'
<1>0. /\ wal \in [Validators -> SUBSET Vote] /\ round \in [Validators -> RoundNo]
      /\ \A n \in RoundNo : n \in Int
  BY DEF RoundsTypeOK, RoundNo
<1>1. round'[v] = round[v] \/ round'[v] = round[v] + 1
  <2>1. ASSUME NEW u \in Correct, Forget(u) PROVE v # u /\ round'[v] = round[v]
    BY <1>0, <2>1 DEF Forget
  <2>2. ASSUME NEW u \in Correct, round_change_on_timeout(u)
        PROVE  round'[v] \in {round[v], round[v] + 1}
    BY <1>0, <2>2 DEF round_change_on_timeout
  <2> QED
    BY <2>1, <2>2, StepKinds DEF Quiet, Sign, LogThenCrash, Restart, Commit, memory
<1>2. r < round[v] /\ r < round'[v]
  BY <1>0, <1>1 DEF Closed
<1>3. ASSUME NEW w \in wal'[v], w.kind = "Precommit", w.round = r
      PROVE  w.block # b
  <2>1. CASE w \in wal[v]
    BY <1>3, <2>1 DEF Closed
  <2>2. CASE w \notin wal[v]
    <3>1. PICK newLock : Voting(v, w, newLock)
      BY <2>2, LoggedVote
    <3>2. w.round = round[v]
      BY <3>1, VotingType
    <3> QED
      BY <1>0, <1>2, <1>3, <3>2
  <2> QED
    BY <2>1, <2>2
<1> QED
  BY <1>2, <1>3 DEF Closed

\* Who has voted for the block of a polka has left the earlier rounds, and had it
\* precommitted another block in one of them, there would have been an earlier polka.
LEMMA PolkaClosesStep ==
  ASSUME RoundsInv, RoundsTypeOK', LockHeld', [Next]_vars
  PROVE  PolkaCloses'
<1> SUFFICES ASSUME NEW r1 \in RoundNo, NEW r2 \in RoundNo, NEW b1 \in Blocks,
                    NEW b2 \in Blocks, r1 < r2, b1 # b2, HasPolka(r2, b2)'
             PROVE  \E Q \in SUBSET Validators :
                        Quorum(Q) /\ \A v \in Q \ (Byzantine \cup forgetful') : Closed(v, r1, b1)'
  BY DEF PolkaCloses, Quorum
<1>1. forgetful \subseteq forgetful'
  BY Growing DEF RoundsInv
<1>2. CASE \E r \in RoundNo : r1 < r /\ HasPolka(r, b2)
  <2>1. PICK Q \in SUBSET Validators :
            Quorum(Q) /\ \A v \in Q \ (Byzantine \cup forgetful) : Closed(v, r1, b1)
    BY <1>2 DEF RoundsInv, PolkaCloses
  <2>2. ASSUME NEW v \in Q \ (Byzantine \cup forgetful') PROVE Closed(v, r1, b1)'
    <3>1. v \in Validators \ forgetful' /\ Closed(v, r1, b1)
      BY <1>1, <2>1
    <3> QED
      BY <3>1, ClosedStays DEF RoundsInv
  <2> QED
    BY <2>1, <2>2
<1>3. CASE \A r \in RoundNo : r1 < r => ~HasPolka(r, b2)
  <2> DEFINE Q == Voters("Prevote", r2, b2)'
  <2>1. Q \in SUBSET Validators /\ Quorum(Q)
    BY PolkaQuorumNext
  <2>2. ASSUME NEW v \in Q \ (Byzantine \cup forgetful') PROVE Closed(v, r1, b1)'
    <3>1. v \in Validators \ forgetful'
      BY <2>1
    <3>2. PICK b \in wal'[v] : b.kind = "Prevote" /\ b.round = r2 /\ b.block = b2
      BY <2>2 DEF Voters, RoundsTypeOK
    <3>3. r2 <= round'[v] /\ round'[v] \in RoundNo
      BY <3>1, <3>2 DEF LockHeld, RoundsTypeOK
    <3>4. r1 < round'[v]
      BY <3>3 DEF RoundNo
    <3>5. ASSUME NEW a \in wal'[v], a.kind = "Precommit", a.round = r1, a.block = b1
          PROVE  FALSE
      <4>1. Overrides(a, b)
        BY <3>2, <3>5, RoundsAssumption DEF Overrides
      <4>2. PICK r \in (r1 + 1)..MaxRound : HasPolka(r, b2)
        BY <3>1, <3>2, <3>5, <4>1, OverridesPolka DEF RoundsInv
      <4> QED
        BY <1>3, <4>2 DEF RoundNo
    <3> QED
      BY <3>4, <3>5 DEF Closed
  <2> QED
    BY <2>1, <2>2
<1> QED
  BY <1>2, <1>3

\* Every step keeps a quorum under each commit.
LEMMA CommitHasQuorumStep ==
  ASSUME RoundsTypeOK, CommitHasQuorum, RoundsTypeOK', [Next]_vars
  PROVE  CommitHasQuorum'
<1>0. committed \in [Validators -> Blocks \cup {None}] /\ round \in [Validators -> RoundNo]
  BY DEF RoundsTypeOK
<1> SUFFICES ASSUME NEW v \in Validators, NEW b \in Blocks, committed'[v] = b
             PROVE  \E r \in RoundNo : Quorum(Voters("Precommit", r, b)')
  BY DEF CommitHasQuorum
<1>1. CASE committed[v] = b
  <2>1. PICK r \in RoundNo : Quorum(Voters("Precommit", r, b))
    BY <1>1 DEF CommitHasQuorum
  <2>2. Quorum(Voters("Precommit", r, b)')
    BY <2>1, Growing, VotersGrow
  <2> QED
    BY <2>2
<1>2. ASSUME NEW u \in Correct, Commit(u), committed'[v] # committed[v]
      PROVE  \E r \in RoundNo : Quorum(Voters("Precommit", r, b)')
  <2>1. PICK c \in Blocks : /\ commit_ok(Votes("Precommit", round[u], c), total_power, c, committed[u])
                            /\ committed' = [committed EXCEPT ![u] = c]
    BY <1>2 DEF Commit
  <2>2. u = v /\ c = b
    BY <1>0, <1>2, <2>1
  <2>3. polka(Votes("Precommit", round[v], b), b)
    BY <2>1, <2>2 DEF commit_ok
  <2>4. PICK r \in RoundNo : r = round[v]
    BY <1>0
  <2>5. Quorum(Voters("Precommit", r, b))
    BY <2>3, <2>4, PolkaIsQuorum, VotersType DEF Quorum
  <2>6. Quorum(Voters("Precommit", r, b)')
    BY <2>5, Growing, VotersGrow
  <2> QED
    BY <2>6
<1>3. committed' = committed \/ \E u \in Correct : Commit(u)
  BY StepKinds DEF Quiet, Sign, LogThenCrash, round_change_on_timeout, Restart
<1> QED
  BY <1>1, <1>2, <1>3

----------------------------------------------------------------------------
(* The theorems.                                                           *)

\* The invariant holds at first.
LEMMA RoundsInitInv ==
  ASSUME Init
  PROVE  RoundsInv
<1>1. RoundsTypeOK
  BY RoundsAssumption DEF Init, RoundsTypeOK, RoundNo, Steps
<1>2. OneVotePerSlot /\ PolkaFirst /\ LockHeld /\ LockKept
  BY RoundsAssumption
     DEF Init, OneVotePerSlot, PolkaFirst, LockHeld, LockKept, RoundNo
<1>3. PolkaCloses
  <2> SUFFICES ASSUME NEW r \in RoundNo, NEW b \in Blocks, HasPolka(r, b)
               PROVE  Byzantine \in SUBSET Validators /\ Quorum(Byzantine)
    BY DEF PolkaCloses
  <2>1. Voters("Prevote", r, b) = Byzantine
    BY DEF Init, Voters
  <2> QED
    BY <1>1, <2>1, PolkaQuorum, RoundsAssumption
<1>4. CommitHasQuorum
  BY RoundsAssumption DEF Init, CommitHasQuorum
<1> QED
  BY <1>1, <1>2, <1>3, <1>4 DEF RoundsInv

\* Every step keeps it.
LEMMA RoundsStepInv ==
  ASSUME RoundsInv, [Next]_vars
  PROVE  RoundsInv'
<1>1. RoundsTypeOK'
  BY RoundsTypeStep DEF RoundsInv
<1>2. OneVotePerSlot'
  BY OneVotePerSlotStep DEF RoundsInv
<1>3. PolkaFirst'
  BY PolkaFirstStep DEF RoundsInv
<1>4. LockHeld'
  BY LockHeldStep DEF RoundsInv
<1>5. LockKept'
  BY LockKeptStep DEF RoundsInv
<1>6. PolkaCloses'
  BY <1>1, <1>4, PolkaClosesStep
<1>7. CommitHasQuorum'
  BY <1>1, CommitHasQuorumStep DEF RoundsInv
<1> QED
  BY <1>1, <1>2, <1>3, <1>4, <1>5, <1>6, <1>7 DEF RoundsInv

\* The inductive invariant holds in every reachable state of the round protocol.
THEOREM RoundsInvariant == Spec => []RoundsInv
<1>1. Init => RoundsInv
  BY RoundsInitInv
<1>2. RoundsInv /\ [Next]_vars => RoundsInv'
  BY RoundsStepInv
<1> QED
  BY <1>1, <1>2, PTL DEF Spec

\* sign_vote_logged never lets two votes of a correct validator make evidence against
\* it, whatever it forgets in a restart and wherever it crashes.
THEOREM NoEvidence == Spec => []NoEvidenceAgainstCorrect
<1>1. RoundsInv => NoEvidenceAgainstCorrect
  <2> SUFFICES ASSUME RoundsInv, NEW a \in sent, NEW b \in sent, equivocation(a, b)
               PROVE  FALSE
    BY DEF NoEvidenceAgainstCorrect
  <2>1. a.signer \in Validators /\ a \in wal[a.signer] /\ b \in wal[b.signer]
    BY DEF RoundsInv, RoundsTypeOK, Vote
  <2>2. a.signer = b.signer
    BY DEF equivocation, SameKey
  <2> QED
    BY <2>1, <2>2 DEF RoundsInv, OneVotePerSlot
<1> QED
  BY <1>1, RoundsInvariant, PTL

\* prevote_step and precommit_step keep the lock: a validator that has not restarted
\* prevotes against its own precommit only after a polka for the other block.
THEOREM LocksAreKept == Spec => []LockRespected
<1>1. RoundsInv => LockRespected
  <2> SUFFICES ASSUME RoundsInv, NEW a \in sent, NEW b \in sent,
                      a.signer = b.signer, Overrides(a, b), a.signer \notin forgetful
               PROVE  PolkaBetween(a, b)
    BY DEF LockRespected, Overrides, PolkaBetween
  <2>1. a.signer \in Validators /\ a \in wal[a.signer] /\ b \in wal[a.signer]
    BY DEF RoundsInv, RoundsTypeOK, Vote
  <2> QED
    BY <2>1 DEF RoundsInv, LockKept
<1> QED
  BY <1>1, RoundsInvariant, PTL

\* Two quorums of precommits are for one block: within a round because they share a
\* validator that signs once, across rounds because the polka of the later one closes
\* the earlier one to every other block.
LEMMA QuorumsAgree ==
  ASSUME RoundsInv, Budget, NEW r1 \in RoundNo, NEW r2 \in RoundNo, r1 <= r2,
         NEW b1 \in Blocks, NEW b2 \in Blocks,
         Quorum(Voters("Precommit", r1, b1)), Quorum(Voters("Precommit", r2, b2))
  PROVE  b1 = b2
<1> SUFFICES ASSUME b1 # b2 PROVE FALSE
  OBVIOUS
<1> DEFINE S == Voters("Precommit", r1, b1)
<1> DEFINE T == Voters("Precommit", r2, b2)
<1>0. /\ S \in SUBSET Validators /\ T \in SUBSET Validators
      /\ Byzantine \cup forgetful \in SUBSET Validators
      /\ 3 * PowerOf(Byzantine \cup forgetful) <= PowerOf(Validators)
  BY VotersType, RoundsAssumption DEF RoundsInv, RoundsTypeOK, Budget
<1>1. ASSUME NEW kind, NEW r, NEW b, NEW v \in Voters(kind, r, b), v \notin Byzantine
      PROVE  v \in Validators /\ \E w \in wal[v] : w.kind = kind /\ w.round = r /\ w.block = b
  BY <1>1 DEF Voters, RoundsInv, RoundsTypeOK, Vote
<1>2. CASE r1 = r2
  <2>1. PICK v \in S \cap T : v \notin Byzantine \cup forgetful
    BY <1>0, QuorumIntersection DEF Quorum
  <2>2. PICK a \in wal[v] : a.kind = "Precommit" /\ a.round = r1 /\ a.block = b1
    BY <1>1, <2>1
  <2>3. PICK b \in wal[v] : b.kind = "Precommit" /\ b.round = r2 /\ b.block = b2
    BY <1>1, <2>1
  <2>4. v \in Validators /\ a.signer = b.signer /\ a.height = b.height
    BY <1>0, <2>1, <2>2, <2>3 DEF RoundsInv, OneVotePerSlot, RoundsTypeOK, Vote
  <2>5. equivocation(a, b)
    BY <1>2, <2>2, <2>3, <2>4 DEF equivocation, SameKey
  <2> QED
    BY <2>2, <2>3, <2>4, <2>5 DEF RoundsInv, OneVotePerSlot
<1>3. CASE r1 < r2
  <2>1. PICK v \in T \cap T : v \notin Byzantine \cup forgetful
    BY <1>0, QuorumIntersection DEF Quorum
  <2>2. PICK a \in wal[v] : a.kind = "Precommit" /\ a.round = r2 /\ a.block = b2
    BY <1>1, <2>1
  <2>3. HasPolka(r2, b2)
    BY <1>0, <2>1, <2>2, RoundsAssumption DEF RoundsInv, PolkaFirst
  <2>4. PICK Q \in SUBSET Validators :
            Quorum(Q) /\ \A x \in Q \ (Byzantine \cup forgetful) : Closed(x, r1, b1)
    BY <1>3, <2>3 DEF RoundsInv, PolkaCloses
  <2>5. PICK x \in Q \cap S : x \notin Byzantine \cup forgetful
    BY <1>0, <2>4, QuorumIntersection DEF Quorum
  <2>6. PICK c \in wal[x] : c.kind = "Precommit" /\ c.round = r1 /\ c.block = b1
    BY <1>1, <2>5
  <2> QED
    BY <2>4, <2>5, <2>6 DEF Closed
<1> QED
  BY <1>2, <1>3 DEF RoundNo

\* All correct validators commit one block at the height, over all rounds, as long as
\* those who lie or have restarted without their lock hold at most a third of the
\* power.
THEOREM RoundsAgree == Spec => []RoundsAgreement
<1>1. RoundsInv => RoundsAgreement
  <2> SUFFICES ASSUME RoundsInv, Budget, NEW v \in Correct \ forgetful, NEW w \in Correct \ forgetful,
                      committed[v] # None, committed[w] # None
               PROVE  committed[v] = committed[w]
    BY DEF RoundsAgreement, Budget
  <2>1. /\ v \in Validators /\ w \in Validators
        /\ committed[v] \in Blocks /\ committed[w] \in Blocks
    BY DEF RoundsInv, RoundsTypeOK, Correct
  <2>2. PICK r1 \in RoundNo : Quorum(Voters("Precommit", r1, committed[v]))
    BY <2>1 DEF RoundsInv, CommitHasQuorum
  <2>3. PICK r2 \in RoundNo : Quorum(Voters("Precommit", r2, committed[w]))
    BY <2>1 DEF RoundsInv, CommitHasQuorum
  <2>4. r1 <= r2 \/ r2 <= r1
    BY DEF RoundNo
  <2> QED
    BY <2>1, <2>2, <2>3, <2>4, QuorumsAgree
<1> QED
  BY <1>1, RoundsInvariant, PTL

----------------------------------------------------------------------------
(* Paths.                                                                  *)

\* Paths of nibbles, one after the other, and of one nibble.
Paths == Seq(Nibbles)

\* One path after another.
Cat(q, r) == q \o r

\* The path of one nibble.
One(n) == <<n>>

\* Paths are sequences.
LEMMA PathIs ==
  ASSUME NEW q \in Paths
  PROVE  IsSeq(q) /\ Len(q) \in Nat /\ \A i \in 1 .. Len(q) : q[i] \in Nibbles
<1>1. IsSeq(q)
  BY SeqIs DEF Paths
<1>2. Len(q) \in Nat
  BY <1>1, LenIs
<1> QED
  BY <1>1, <1>2, ElementOfSeq DEF Paths

\* Two paths one after the other.
LEMMA CatIs ==
  ASSUME NEW q \in Paths, NEW r \in Paths
  PROVE  /\ Cat(q, r) \in Paths /\ Len(Cat(q, r)) = Len(q) + Len(r)
         /\ \A i \in 1 .. Len(q) : Cat(q, r)[i] = q[i]
         /\ \A i \in 1 .. Len(r) : Cat(q, r)[Len(q) + i] = r[i]
<1>1. IsSeq(q) /\ IsSeq(r)
  BY PathIs
<1>2. Cat(q, r) \in Paths
  BY ConcatProperties DEF Cat, Paths
<1> QED
  BY <1>1, <1>2, Concat DEF Cat

\* Two paths make a path.
LEMMA CatPath ==
  ASSUME NEW q \in Paths, NEW r \in Paths
  PROVE  Cat(q, r) \in Paths
  BY CatIs, Zenon

\* Paths of one length with the same nibbles are equal.
LEMMA PathExt ==
  ASSUME NEW q \in Paths, NEW r \in Paths, Len(q) = Len(r), \A i \in 1 .. Len(q) : q[i] = r[i]
  PROVE  q = r
  BY PathIs, SeqExt

\* The empty path.
LEMMA NoPath ==
  /\ <<>> \in Paths /\ Len(<<>>) = 0
  /\ \A q \in Paths : Len(q) = 0 => q = <<>>
  /\ \A q \in Paths : Cat(<<>>, q) = q /\ Cat(q, <<>>) = q
<1>1. <<>> \in Paths /\ Len(<<>>) = 0
  BY DEF Paths
<1>2. ASSUME NEW q \in Paths, Len(q) = 0 PROVE q = <<>>
  BY <1>1, <1>2, PathExt
<1>3. ASSUME NEW q \in Paths PROVE Cat(<<>>, q) = q /\ Cat(q, <<>>) = q
  BY ConcatEmptySeq DEF Cat, Paths
<1> QED
  BY <1>1, <1>2, <1>3

\* One after the other is associative and can be cancelled on the left.
LEMMA CatAssoc ==
  ASSUME NEW q \in Paths, NEW r \in Paths, NEW s \in Paths
  PROVE  Cat(Cat(q, r), s) = Cat(q, Cat(r, s))
  BY ConcatAssociative DEF Cat, Paths

\* A common front can be taken off.
LEMMA CatCancel ==
  ASSUME NEW q \in Paths, NEW r \in Paths, NEW s \in Paths, Cat(q, r) = Cat(q, s)
  PROVE  r = s
<1>1. Len(q) \in Nat /\ Len(r) \in Nat /\ Len(s) \in Nat
  BY PathIs
<1>2. Len(r) = Len(s)
  <2>1. Len(Cat(q, r)) = Len(q) + Len(r)
    BY CatIs, Zenon
  <2>2. Len(Cat(q, s)) = Len(q) + Len(s)
    BY CatIs, Zenon
  <2> QED
    BY <1>1, <2>1, <2>2
<1>3. \A i \in 1 .. Len(r) : r[i] = s[i]
  <2> SUFFICES ASSUME NEW i \in 1 .. Len(r) PROVE r[i] = s[i]
    OBVIOUS
  <2>1. Cat(q, r)[Len(q) + i] = r[i]
    BY CatIs, Zenon
  <2>2. Cat(q, s)[Len(q) + i] = s[i]
    <3>1. i \in 1 .. Len(s)
      BY <1>2
    <3> QED
      BY <3>1, CatIs, Zenon
  <2> QED
    BY <2>1, <2>2
<1> QED
  BY <1>2, <1>3, PathExt

\* A path that starts with a nibble.
LEMMA OneIs ==
  ASSUME NEW n \in Nibbles
  PROVE  One(n) \in Paths /\ Len(One(n)) = 1 /\ One(n)[1] = n /\ One(n) # <<>>
  BY DEF One, Paths

\* A nibble is a path.
LEMMA OnePath ==
  ASSUME NEW n \in Nibbles
  PROVE  One(n) \in Paths
  BY OneIs, Zenon

\* The first nibble and the rest of a path made of them.
LEMMA OneCat ==
  ASSUME NEW n \in Nibbles, NEW r \in Paths
  PROVE  /\ Cat(One(n), r) \in Paths /\ Cat(One(n), r) # <<>> /\ Cat(One(n), r)[1] = n
         /\ Tail(Cat(One(n), r)) = r /\ Len(Cat(One(n), r)) = Len(r) + 1
<1> DEFINE o == One(n)
<1>0. o \in Paths /\ Len(o) = 1
  BY OneIs
<1> HIDE DEF o
<1>a. /\ Cat(o, r) \in Paths /\ Len(Cat(o, r)) = Len(o) + Len(r)
      /\ \A i \in 1 .. Len(o) : Cat(o, r)[i] = o[i]
      /\ \A i \in 1 .. Len(r) : Cat(o, r)[Len(o) + i] = r[i]
  BY <1>0, CatIs, Zenon
<1>1. /\ Cat(One(n), r) \in Paths /\ Len(Cat(One(n), r)) = 1 + Len(r)
      /\ \A i \in 1 .. 1 : Cat(One(n), r)[i] = One(n)[i]
      /\ \A i \in 1 .. Len(r) : Cat(One(n), r)[1 + i] = r[i]
  BY <1>0, <1>a DEF o
<1>2. Len(r) \in Nat
  BY PathIs
<1> DEFINE c == Cat(One(n), r)
<1> HIDE DEF c
<1>3. c \in Paths /\ Len(c) = 1 + Len(r) /\ \A i \in 1 .. Len(r) : c[1 + i] = r[i]
  BY <1>1 DEF c
<1>4. c # <<>>
  BY <1>2, <1>3
<1>5. Tail(c) \in Paths /\ Len(Tail(c)) = Len(r) /\ \A i \in 1 .. Len(r) : Tail(c)[i] = c[i + 1]
  BY <1>2, <1>3, <1>4, HeadTailProperties DEF Paths
<1> DEFINE t == Tail(c)
<1>6. t \in Paths /\ Len(t) = Len(r) /\ \A i \in 1 .. Len(t) : t[i] = r[i]
  BY <1>2, <1>3, <1>5
<1> HIDE DEF t
<1>7. t = r
  BY <1>6, PathExt, Zenon
<1> QED
  BY <1>1, <1>2, <1>4, <1>7, OneIs DEF c, t

\* Every path but the empty one is its first nibble and the rest.
LEMMA FirstNibble ==
  ASSUME NEW q \in Paths, q # <<>>
  PROVE  /\ q[1] \in Nibbles /\ Tail(q) \in Paths /\ Len(Tail(q)) = Len(q) - 1 /\ Len(q) >= 1
         /\ q = Cat(One(q[1]), Tail(q))
<1>1. Len(q) \in Nat /\ Len(q) # 0
  BY PathIs, NoPath
<1>2. /\ q[1] \in Nibbles /\ Tail(q) \in Paths /\ Len(Tail(q)) = Len(q) - 1
      /\ \A i \in 1 .. Len(Tail(q)) : Tail(q)[i] = q[i + 1]
  BY <1>1, HeadTailProperties DEF Paths
<1> DEFINE n == q[1]
<1> DEFINE t == Tail(q)
<1> DEFINE c == Cat(One(n), t)
<1> HIDE DEF n, t
<1>3. n \in Nibbles /\ t \in Paths /\ Len(t) = Len(q) - 1 /\ \A i \in 1 .. Len(t) : t[i] = q[i + 1]
  BY <1>2 DEF n, t
<1> DEFINE o == One(n)
<1>a. o \in Paths /\ Len(o) = 1
  BY <1>3, OneIs
<1> HIDE DEF o
<1>b. /\ Cat(o, t) \in Paths /\ Len(Cat(o, t)) = Len(o) + Len(t)
      /\ \A i \in 1 .. Len(t) : Cat(o, t)[Len(o) + i] = t[i]
  BY <1>3, <1>a, CatIs, Zenon
<1>4. c \in Paths /\ Len(c) = 1 + Len(t) /\ \A i \in 1 .. Len(t) : c[1 + i] = t[i]
  BY <1>a, <1>b DEF o
<1>5. c[1] = n
  BY <1>3, OneCat
<1> HIDE DEF c
<1>6. \A i \in 1 .. Len(q) : c[i] = q[i]
  <2> SUFFICES ASSUME NEW i \in 1 .. Len(q) PROVE c[i] = q[i]
    OBVIOUS
  <2>1. CASE i = 1
    BY <2>1, <1>5 DEF n
  <2>2. CASE i # 1
    <3>1. i - 1 \in 1 .. Len(t) /\ 1 + (i - 1) = i /\ (i - 1) + 1 = i
      BY <1>1, <1>3, <2>2
    <3> QED
      BY <1>3, <1>4, <3>1
  <2> QED
    BY <2>1, <2>2
<1>7. c = q
  BY <1>1, <1>3, <1>4, <1>6, PathExt
<1> QED
  BY <1>1, <1>2, <1>7 DEF c, n, t

\* A nibble more at the end.
LEMMA AppendOne ==
  ASSUME NEW q \in Paths, NEW n \in Nibbles
  PROVE  Append(q, n) = Cat(q, One(n))
  BY AppendIsConcat DEF Paths, Cat, One

\* The front and the rest of two paths one after the other.
LEMMA FrontRest ==
  ASSUME NEW q \in Paths, NEW r \in Paths
  PROVE  SubSeq(Cat(q, r), 1, Len(q)) = q /\ From(Cat(q, r), Len(q) + 1) = r
<1> DEFINE c == Cat(q, r)
<1>1. /\ c \in Paths /\ Len(c) = Len(q) + Len(r)
      /\ \A i \in 1 .. Len(q) : c[i] = q[i]
      /\ \A i \in 1 .. Len(r) : c[Len(q) + i] = r[i]
  BY CatIs, Zenon
<1> HIDE DEF c
<1>2. IsSeq(c) /\ IsSeq(q) /\ IsSeq(r) /\ Len(q) \in Nat /\ Len(r) \in Nat
  BY <1>1, PathIs, Zenon
<1>3. SubSeq(c, 1, Len(q)) = q
  <2> DEFINE a == 1
  <2> DEFINE b == Len(q)
  <2>1. a \in Nat \ {0} /\ b \in Nat /\ a <= b + 1 /\ b <= Len(c) /\ b + 1 - a = b
    BY <1>1, <1>2
  <2> HIDE DEF a, b
  <2>2. /\ IsSeq(SubSeq(c, a, b)) /\ Len(SubSeq(c, a, b)) = b
        /\ \A i \in 1 .. b : SubSeq(c, a, b)[i] = c[a + i - 1]
    BY <1>2, <2>1, Sub
  <2>3. \A i \in 1 .. b : a + i - 1 = i
    BY <2>1 DEF a
  <2>4. \A i \in 1 .. b : SubSeq(c, a, b)[i] = q[i]
    BY <1>1, <2>2, <2>3 DEF b
  <2>5. SubSeq(c, a, b) = q
    BY <1>2, <2>2, <2>4, SeqExt DEF b
  <2> QED
    BY <2>5 DEF a, b
<1>4. SubSeq(c, Len(q) + 1, Len(c)) = r
  <2> DEFINE a == Len(q) + 1
  <2> DEFINE b == Len(c)
  <2>1. a \in Nat \ {0} /\ b \in Nat /\ a <= b + 1 /\ b <= Len(c) /\ b + 1 - a = Len(r)
    BY <1>1, <1>2
  <2> HIDE DEF a, b
  <2>2. /\ IsSeq(SubSeq(c, a, b)) /\ Len(SubSeq(c, a, b)) = Len(r)
        /\ \A i \in 1 .. Len(r) : SubSeq(c, a, b)[i] = c[a + i - 1]
    BY <1>2, <2>1, Sub
  <2>3. \A i \in 1 .. Len(r) : a + i - 1 = Len(q) + i
    BY <1>2 DEF a
  <2>4. \A i \in 1 .. Len(r) : SubSeq(c, a, b)[i] = r[i]
    BY <1>1, <2>2, <2>3
  <2>5. SubSeq(c, a, b) = r
    BY <1>2, <2>2, <2>4, SeqExt
  <2> QED
    BY <2>5 DEF a, b
<1> QED
  BY <1>3, <1>4 DEF c, From

\* A prefix is what a path starts with.
LEMMA PrefixIs ==
  ASSUME NEW q \in Paths, NEW k \in Paths
  PROVE  IsPrefix(q, k) <=> \E r \in Paths : k = Cat(q, r)
<1>1. IsSeq(k) /\ IsSeq(q) /\ Len(q) \in Nat /\ Len(k) \in Nat
  BY PathIs, Zenon
<1>2. SubSeq(q, 1, Len(q)) = q
  <2>1. Cat(q, <<>>) = q /\ <<>> \in Paths
    BY NoPath, Zenon
  <2> QED
    BY <2>1, FrontRest
<1>3. ASSUME NEW r \in Paths, k = Cat(q, r) PROVE IsPrefix(q, k)
  <2>1. Len(q) <= Len(k)
    <3>1. Len(k) = Len(q) + Len(r) /\ Len(r) \in Nat
      BY <1>3, CatIs, PathIs, Zenon
    <3> QED
      BY <1>1, <3>1
  <2>2. SubSeq(k, 1, Len(q)) = q
    BY <1>3, FrontRest, Zenon
  <2> QED
    BY <1>2, <2>1, <2>2 DEF IsPrefix
<1>4. ASSUME IsPrefix(q, k) PROVE \E r \in Paths : k = Cat(q, r)
  <2>1. Len(q) <= Len(k) /\ q = SubSeq(k, 1, Len(q))
    BY <1>2, <1>4 DEF IsPrefix
  <2> DEFINE a == Len(q) + 1
  <2> DEFINE b == Len(k)
  <2> DEFINE r == SubSeq(k, a, b)
  <2>2. a \in Nat \ {0} /\ b \in Nat /\ a <= b + 1 /\ b <= Len(k) /\ b + 1 - a = Len(k) - Len(q)
    BY <1>1, <2>1
  <2>3. r \in Paths
    <3>1. \A i \in a .. b : k[i] \in Nibbles
      BY <1>1, <2>2, PathIs
    <3> QED
      BY <2>2, <3>1, SubSeqProperties DEF Paths
  <2> HIDE DEF a, b
  <2>4. Len(r) = b + 1 - a /\ \A i \in 1 .. b + 1 - a : r[i] = k[a + i - 1]
    BY <1>1, <2>2, Sub
  <2> HIDE DEF r
  <2>5. \A i \in 1 .. Len(q) : k[i] = q[i]
    <3> DEFINE u == SubSeq(k, 1, Len(q))
    <3> DEFINE o == 1
    <3>1. o \in Nat \ {0} /\ o <= Len(q) + 1 /\ Len(q) <= Len(k) /\ Len(q) + 1 - o = Len(q)
      BY <1>1, <2>1
    <3> HIDE DEF o
    <3>2. \A i \in 1 .. Len(q) : SubSeq(k, o, Len(q))[i] = k[o + i - 1]
      BY <1>1, <3>1, Sub
    <3>3. \A i \in 1 .. Len(q) : o + i - 1 = i
      BY <1>1 DEF o
    <3>4. \A i \in 1 .. Len(q) : u[i] = k[i]
      BY <3>2, <3>3 DEF o
    <3>5. q = u
      BY <2>1
    <3> HIDE DEF u
    <3> QED
      BY <3>4, <3>5
  <2> DEFINE c == Cat(q, r)
  <2>6. /\ c \in Paths /\ Len(c) = Len(q) + Len(r)
        /\ \A i \in 1 .. Len(q) : c[i] = q[i]
        /\ \A i \in 1 .. Len(r) : c[Len(q) + i] = r[i]
    BY <2>3, CatIs, Zenon
  <2> HIDE DEF c
  <2>7. Len(c) = Len(k)
    BY <1>1, <2>2, <2>4, <2>6
  <2>8. \A i \in 1 .. Len(k) : c[i] = k[i]
    <3> SUFFICES ASSUME NEW i \in 1 .. Len(k) PROVE c[i] = k[i]
      OBVIOUS
    <3>1. CASE i <= Len(q)
      BY <1>1, <2>5, <2>6, <3>1
    <3>2. CASE ~(i <= Len(q))
      <4> DEFINE j == i - Len(q)
      <4>1. j \in 1 .. Len(r) /\ j \in 1 .. b + 1 - a /\ Len(q) + j = i /\ a + j - 1 = i
        BY <1>1, <2>2, <2>4, <3>2 DEF a
      <4> HIDE DEF j
      <4>2. c[Len(q) + j] = r[j] /\ r[j] = k[a + j - 1]
        BY <2>4, <2>6, <4>1
      <4> QED
        BY <4>1, <4>2
    <3> QED
      BY <3>1, <3>2
  <2>9. c = k
    BY <2>6, <2>7, <2>8, PathExt
  <2> QED
    BY <2>3, <2>9 DEF c
<1> QED
  BY <1>3, <1>4

\* Two fronts of one path: one of them is a front of the other.
LEMMA Comparable ==
  ASSUME NEW c \in Paths, NEW x \in Paths, NEW d \in Paths, NEW u \in Paths, Cat(c, x) = Cat(d, u)
  PROVE  \E e \in Paths : \/ c = Cat(d, e) /\ u = Cat(e, x)
                          \/ d = Cat(c, e) /\ x = Cat(e, u)
<1> DEFINE P == {m \in Nat : \A a, b \in Paths : Len(a) = m /\ Cat(a, x) = Cat(b, u) =>
                    \E e \in Paths : \/ a = Cat(b, e) /\ u = Cat(e, x)
                                     \/ b = Cat(a, e) /\ x = Cat(e, u)}
<1>1. 0 \in P
  <2> SUFFICES ASSUME NEW a \in Paths, NEW b \in Paths, Len(a) = 0, Cat(a, x) = Cat(b, u)
               PROVE  \E e \in Paths : b = Cat(a, e) /\ x = Cat(e, u)
    OBVIOUS
  <2>1. a = <<>>
    BY NoPath
  <2> QED
    BY <2>1, NoPath, Zenon
<1>2. ASSUME NEW m \in Nat, m \in P PROVE m + 1 \in P
  <2> SUFFICES ASSUME NEW a \in Paths, NEW b \in Paths, Len(a) = m + 1, Cat(a, x) = Cat(b, u)
               PROVE  \E e \in Paths : \/ a = Cat(b, e) /\ u = Cat(e, x)
                                       \/ b = Cat(a, e) /\ x = Cat(e, u)
    OBVIOUS
  <2>1. CASE b = <<>>
    BY <2>1, NoPath, Zenon
  <2>2. CASE b # <<>>
    <3>1. a # <<>>
      BY NoPath
    <3> DEFINE n == a[1]
    <3> DEFINE s == Tail(a)
    <3> DEFINE l == b[1]
    <3> DEFINE t == Tail(b)
    <3>2. n \in Nibbles /\ s \in Paths /\ Len(s) = Len(a) - 1 /\ a = Cat(One(n), s)
      BY <3>1, FirstNibble, Zenon
    <3>3. l \in Nibbles /\ t \in Paths /\ b = Cat(One(l), t)
      BY <2>2, FirstNibble, Zenon
    <3> HIDE DEF n, s, l, t
    <3>4. One(n) \in Paths /\ One(l) \in Paths /\ Cat(s, x) \in Paths /\ Cat(t, u) \in Paths
      BY <3>2, <3>3, OnePath, CatPath
    <3>5. Cat(a, x) = Cat(One(n), Cat(s, x)) /\ Cat(b, u) = Cat(One(l), Cat(t, u))
      BY <3>2, <3>3, <3>4, CatAssoc
    <3>6. n = l /\ Cat(s, x) = Cat(t, u)
      <4>1. Cat(One(n), Cat(s, x)) = Cat(One(l), Cat(t, u))
        BY <3>5
      <4>2. Cat(One(n), Cat(s, x))[1] = n /\ Tail(Cat(One(n), Cat(s, x))) = Cat(s, x)
        BY <3>2, <3>4, OneCat, Zenon
      <4>3. Cat(One(l), Cat(t, u))[1] = l /\ Tail(Cat(One(l), Cat(t, u))) = Cat(t, u)
        BY <3>3, <3>4, OneCat, Zenon
      <4> QED
        BY <4>1, <4>2, <4>3, Zenon
    <3>7. Len(s) = m
      BY <3>2
    <3>8. PICK e \in Paths : \/ s = Cat(t, e) /\ u = Cat(e, x)
                             \/ t = Cat(s, e) /\ x = Cat(e, u)
      BY <1>2, <3>2, <3>3, <3>6, <3>7
    <3>9. CASE s = Cat(t, e) /\ u = Cat(e, x)
      <4>1. a = Cat(b, e)
        BY <3>2, <3>3, <3>4, <3>6, <3>9, CatAssoc
      <4> QED
        BY <3>9, <4>1
    <3>10. CASE t = Cat(s, e) /\ x = Cat(e, u)
      <4>1. b = Cat(a, e)
        BY <3>2, <3>3, <3>4, <3>6, <3>10, CatAssoc
      <4> QED
        BY <3>10, <4>1
    <3> QED
      BY <3>8, <3>9, <3>10
  <2> QED
    BY <2>1, <2>2
<1>3. Len(c) \in Nat
  BY PathIs
<1>4. Len(c) \in P
  <2> HIDE DEF P
  <2> QED
    BY <1>1, <1>2, <1>3, NumberInduction
<1> QED
  BY <1>4

\* Two rests that go on differently, or end.
Parted(x, y) == x = <<>> \/ y = <<>> \/ x[1] # y[1]

\* c, x, y show where two paths part.
PartAt(a, b, c, x, y) == a = Cat(c, x) /\ b = Cat(c, y) /\ Parted(x, y)

\* Two paths part somewhere.
Parts(a, b) == \E c, x, y \in Paths : PartAt(a, b, c, x, y)

\* Any two paths share a front after which they part.
LEMMA Parting ==
  ASSUME NEW a \in Paths, NEW b \in Paths
  PROVE  Parts(a, b)
<1> DEFINE P == {m \in Nat : \A q, r \in Paths : Len(q) = m => Parts(q, r)}
<1>0. ASSUME NEW q \in Paths, NEW r \in Paths, Parted(q, r)
      PROVE  Parts(q, r)
  <2>1. PartAt(q, r, <<>>, q, r) /\ <<>> \in Paths
    BY <1>0, NoPath DEF PartAt
  <2> QED
    BY   <2>1 DEF Parts
<1>1. 0 \in P
  <2> SUFFICES ASSUME NEW q \in Paths, NEW r \in Paths, Len(q) = 0
               PROVE  Parts(q, r)
    OBVIOUS
  <2>1. Parted(q, r)
    BY NoPath DEF Parted
  <2> QED
    BY <1>0, <2>1
<1>2. ASSUME NEW m \in Nat, m \in P PROVE m + 1 \in P
  <2> SUFFICES ASSUME NEW q \in Paths, NEW r \in Paths, Len(q) = m + 1
               PROVE  Parts(q, r)
    OBVIOUS
  <2>1. CASE Parted(q, r)
    BY <1>0, <2>1
  <2>2. CASE ~Parted(q, r)
    <3>1. q # <<>> /\ r # <<>> /\ q[1] = r[1]
      BY <2>2 DEF Parted
    <3> DEFINE n == q[1]
    <3> DEFINE s == Tail(q)
    <3> DEFINE t == Tail(r)
    <3>2. n \in Nibbles /\ s \in Paths /\ Len(s) = Len(q) - 1 /\ q = Cat(One(n), s)
      BY <3>1, FirstNibble, Zenon
    <3>3. t \in Paths /\ r = Cat(One(n), t)
      BY <3>1, FirstNibble, Zenon
    <3> HIDE DEF n, s, t
    <3>4. Len(s) = m
      BY <3>2
    <3>5. PICK c, x, y \in Paths : s = Cat(c, x) /\ t = Cat(c, y) /\ Parted(x, y)
      <4>1. Parts(s, t)
        BY <1>2, <3>2, <3>3, <3>4
      <4> QED
        BY <4>1 DEF Parts, PartAt
    <3>6. One(n) \in Paths /\ Cat(One(n), c) \in Paths
      BY <3>2, OnePath, CatPath
    <3>7. q = Cat(Cat(One(n), c), x) /\ r = Cat(Cat(One(n), c), y)
      BY <3>2, <3>3, <3>5, <3>6, CatAssoc
    <3> QED
      BY <3>5, <3>6, <3>7 DEF Parts, PartAt
  <2> QED
    BY <2>1, <2>2
<1>3. Len(a) \in Nat
  BY PathIs
<1>4. Len(a) \in P
  <2> HIDE DEF P
  <2> QED
    BY <1>1, <1>2, <1>3, NumberInduction
<1> QED
  BY <1>4

\* What two paths share is in front of where they part.
LEMMA SharedIsFront ==
  ASSUME NEW c \in Paths, NEW x \in Paths, NEW y \in Paths, Parted(x, y),
         NEW d \in Paths, NEW u \in Paths, NEW w \in Paths,
         Cat(c, x) = Cat(d, u), Cat(c, y) = Cat(d, w)
  PROVE  \E e \in Paths : c = Cat(d, e)
<1>1. PICK e \in Paths : \/ c = Cat(d, e) /\ u = Cat(e, x)
                         \/ d = Cat(c, e) /\ x = Cat(e, u)
  BY Comparable
<1>2. CASE d = Cat(c, e) /\ x = Cat(e, u)
  <2>1. Cat(d, w) = Cat(c, Cat(e, w)) /\ Cat(e, w) \in Paths
    <3>1. Cat(e, w) \in Paths
      BY CatPath, Zenon
    <3>2. Cat(Cat(c, e), w) = Cat(c, Cat(e, w))
      BY CatAssoc
    <3> QED
      BY <1>2, <3>1, <3>2
  <2>2. y = Cat(e, w)
    <3>1. Cat(c, y) = Cat(c, Cat(e, w))
      BY <2>1
    <3> QED
      BY <2>1, <3>1, CatCancel
  <2>3. CASE e = <<>>
    BY <1>2, <2>3, NoPath, Zenon
  <2>4. CASE e # <<>>
    <3> DEFINE n == e[1]
    <3> DEFINE t == Tail(e)
    <3>1. n \in Nibbles /\ t \in Paths /\ e = Cat(One(n), t)
      BY <2>4, FirstNibble, Zenon
    <3> HIDE DEF n, t
    <3>2. One(n) \in Paths /\ Cat(t, u) \in Paths /\ Cat(t, w) \in Paths
      BY <3>1, OnePath, CatPath
    <3>3. x = Cat(One(n), Cat(t, u)) /\ y = Cat(One(n), Cat(t, w))
      BY <1>2, <2>2, <3>1, <3>2, CatAssoc
    <3>4. x # <<>> /\ y # <<>> /\ x[1] = n /\ y[1] = n
      BY <3>1, <3>2, <3>3, OneCat, Zenon
    <3> QED
      BY <3>4 DEF Parted
  <2> QED
    BY <2>3, <2>4
<1> QED
  BY <1>1, <1>2

\* A front of every path of a set.
Fronts(c, S) == \A k \in S : \E r \in Paths : k = Cat(c, r)

\* The longest common prefix is the longest front.
LEMMA LcpIs ==
  ASSUME NEW S \in SUBSET Paths, S # {}
  PROVE  /\ LongestCommonPrefix(S) \in Paths /\ Fronts(LongestCommonPrefix(S), S)
         /\ \A d \in Paths : Fronts(d, S) => Len(d) <= Len(LongestCommonPrefix(S))
<1> DEFINE C == CommonPrefixes(S)
<1>1. ASSUME NEW d PROVE d \in C <=> d \in Paths /\ Fronts(d, S)
  <2>1. ASSUME d \in C PROVE d \in Paths /\ Fronts(d, S)
    <3>1. PICK k \in S : d \in Prefixes(k)
      BY <2>1 DEF CommonPrefixes
    <3>2. PICK l \in 0 .. Len(k) : d = SubSeq(k, 1, l)
      BY <3>1 DEF Prefixes
    <3>3. \A t \in S : IsPrefix(d, t)
      BY <2>1 DEF CommonPrefixes
    <3>4. d \in Paths
      <4>1. k \in Paths /\ Len(k) \in Nat /\ \A i \in 1 .. Len(k) : k[i] \in Nibbles
        BY PathIs
      <4>2. \A i \in 1 .. l : k[i] \in Nibbles
        BY <4>1
      <4>3. 1 \in Int /\ l \in Int
        BY <4>1
      <4> QED
        BY <3>2, <4>1, <4>2, <4>3, SubSeqProperties DEF Paths
    <3> QED
      BY <3>3, <3>4, PrefixIs DEF Fronts
  <2>2. ASSUME d \in Paths, Fronts(d, S) PROVE d \in C
    <3>1. PICK k \in S : TRUE
      OBVIOUS
    <3>2. PICK r \in Paths : k = Cat(d, r)
      BY <2>2, <3>1 DEF Fronts
    <3>3. SubSeq(k, 1, Len(d)) = d
      BY <2>2, <3>2, FrontRest
    <3>4. Len(d) \in 0 .. Len(k)
      <4>1. Len(k) = Len(d) + Len(r)
        BY <2>2, <3>2, CatIs, Zenon
      <4>2. Len(d) \in Nat /\ Len(r) \in Nat
        BY <2>2, PathIs, Zenon
      <4> QED
        BY <4>1, <4>2
    <3>5. d \in Prefixes(k)
      BY <3>3, <3>4 DEF Prefixes
    <3>6. \A t \in S : IsPrefix(d, t)
      BY <2>2, PrefixIs DEF Fronts
    <3> QED
      BY <3>5, <3>6 DEF CommonPrefixes
  <2> QED
    BY <2>1, <2>2
<1>2. LongestCommonPrefix(S) = CHOOSE c \in C : \A d \in C : Len(d) <= Len(c)
  BY DEF LongestCommonPrefix
<1> HIDE DEF C
<1>3. PICK k \in S : TRUE
  OBVIOUS
<1>4. \A d \in C : Len(d) \in Nat /\ Len(d) <= Len(k) /\ Len(k) \in Nat
  <2> SUFFICES ASSUME NEW d \in C PROVE Len(d) \in Nat /\ Len(d) <= Len(k) /\ Len(k) \in Nat
    OBVIOUS
  <2>1. PICK r \in Paths : k = Cat(d, r)
    BY <1>1, <1>3 DEF Fronts
  <2>2. Len(k) = Len(d) + Len(r)
    BY <1>1, <2>1, CatIs, Zenon
  <2>3. Len(d) \in Nat /\ Len(r) \in Nat
    BY <1>1, PathIs, Zenon
  <2> QED
    BY <2>2, <2>3
<1>5. C # {}
  <2>1. <<>> \in Paths /\ Fronts(<<>>, S)
    BY NoPath DEF Fronts
  <2> QED
    BY <1>1, <2>1
<1>6. \E c \in C : \A d \in C : Len(d) <= Len(c)
  <2> DEFINE T == {Len(k) - Len(d) : d \in C}
  <2>1. T \in SUBSET Nat /\ T # {}
    BY <1>4, <1>5
  <2>2. PICK n \in T : \A m \in T : n <= m
    BY <2>1, LeastNumber
  <2>3. PICK c \in C : n = Len(k) - Len(c)
    BY <2>2
  <2>4. ASSUME NEW d \in C PROVE Len(d) <= Len(c)
    <3>1. n <= Len(k) - Len(d)
      BY <2>2
    <3> QED
      BY <1>4, <2>3, <3>1
  <2> QED
    BY <2>4
<1>7. LongestCommonPrefix(S) \in C /\ \A d \in C : Len(d) <= Len(LongestCommonPrefix(S))
  BY <1>2, <1>6
<1> QED
  BY <1>1, <1>7

\* A front after which two paths of the set part is the longest.
LEMMA LcpParted ==
  ASSUME NEW S \in SUBSET Paths, NEW c \in Paths, Fronts(c, S),
         NEW x \in Paths, NEW y \in Paths, Cat(c, x) \in S, Cat(c, y) \in S, Parted(x, y)
  PROVE  LongestCommonPrefix(S) = c
<1> DEFINE l == LongestCommonPrefix(S)
<1>1. l \in Paths /\ Fronts(l, S) /\ Len(c) <= Len(l)
  BY LcpIs
<1> HIDE DEF l
<1>2. PICK u \in Paths, w \in Paths : Cat(c, x) = Cat(l, u) /\ Cat(c, y) = Cat(l, w)
  BY <1>1 DEF Fronts
<1>3. PICK e \in Paths : c = Cat(l, e)
  BY <1>1, <1>2, SharedIsFront
<1>4. Len(c) = Len(l) + Len(e)
  BY <1>1, <1>3, CatIs, Zenon
<1>5. Len(e) \in Nat /\ Len(l) \in Nat
  BY <1>1, PathIs, Zenon
<1>6. e = <<>>
  BY <1>1, <1>4, <1>5, NoPath
<1>7. c = l
  BY <1>1, <1>3, <1>6, NoPath, Zenon
<1> QED
  BY <1>7 DEF l

\* common_prefix_len, at the nibble where the paths part.
LEMMA CommonPrefixLen ==
  ASSUME NEW c \in Paths, NEW x \in Paths, NEW y \in Paths, Parted(x, y)
  PROVE  common_prefix_len(Cat(c, x), Cat(c, y)) = Len(c)
<1> DEFINE S == {Cat(c, x), Cat(c, y)}
<1>1. S \in SUBSET Paths /\ Fronts(c, S)
  BY CatPath DEF Fronts
<1>2. LongestCommonPrefix(S) = c
  <2>1. Cat(c, x) \in S /\ Cat(c, y) \in S
    OBVIOUS
  <2> HIDE DEF S
  <2> QED
    BY <1>1, <2>1, LcpParted
<1> QED
  BY <1>2 DEF common_prefix_len

----------------------------------------------------------------------------
(* Contents: values by path.                                               *)

\* A finite map from paths to values.
IsContent(C) ==
    C = [k \in DOMAIN C |-> C[k]] /\ DOMAIN C \in SUBSET Paths /\ IsFiniteSet(DOMAIN C)

\* Contents with the same values under the same paths are equal.
LEMMA ContentExt ==
  ASSUME NEW A, NEW B, IsContent(A), IsContent(B),
         \A k \in Paths : k \in DOMAIN A <=> k \in DOMAIN B,
         \A k \in DOMAIN A : A[k] = B[k]
  PROVE  A = B
<1>1. DOMAIN A = DOMAIN B
  BY DEF IsContent
<1> QED
  BY <1>1 DEF IsContent

\* What lies under a prefix.
LEMMA UnderIs ==
  ASSUME NEW C, IsContent(C), NEW q \in Paths
  PROVE  /\ IsContent(Under(C, q))
         /\ \A r : r \in DOMAIN Under(C, q) <=> r \in Paths /\ Cat(q, r) \in DOMAIN C
         /\ \A r \in DOMAIN Under(C, q) : Under(C, q)[r] = C[Cat(q, r)]
<1> DEFINE S == {p \in DOMAIN C : IsPrefix(q, p)}
<1> DEFINE R(k) == From(k, Len(q) + 1)
<1> DEFINE D == {R(k) : k \in S}
<1>1. Under(C, q) = [r \in D |-> C[Cat(q, r)]]
  BY DEF Under, Cat
<1>2. \A k \in S : \E r \in Paths : k = Cat(q, r) /\ R(k) = r
  <2> SUFFICES ASSUME NEW k \in S PROVE \E r \in Paths : k = Cat(q, r) /\ R(k) = r
    OBVIOUS
  <2>1. k \in Paths
    BY DEF IsContent
  <2>2. PICK r \in Paths : k = Cat(q, r)
    BY <2>1, PrefixIs
  <2> QED
    BY <2>2, FrontRest
<1>3. ASSUME NEW r \in Paths, Cat(q, r) \in DOMAIN C PROVE Cat(q, r) \in S /\ R(Cat(q, r)) = r
  BY <1>3, PrefixIs, CatPath, FrontRest
<1>4. \A r : r \in D <=> r \in Paths /\ Cat(q, r) \in DOMAIN C
  BY <1>2, <1>3
<1>5. IsFiniteSet(D)
  <2>1. IsFiniteSet(S)
    BY FS_Subset DEF IsContent
  <2> DEFINE f == [k \in S |-> R(k)]
  <2>2. f \in Surjection(S, D)
    BY DEF Surjection
  <2> HIDE DEF S, D, f
  <2> QED
    BY <2>1, <2>2, FS_Surjection
<1> HIDE DEF D
<1>6. DOMAIN Under(C, q) = D /\ \A r \in D : Under(C, q)[r] = C[Cat(q, r)]
  BY <1>1
<1>7. IsContent(Under(C, q))
  BY <1>1, <1>4, <1>5, <1>6 DEF IsContent
<1> QED
  BY <1>4, <1>6, <1>7

\* Under no prefix lies everything.
LEMMA UnderAll ==
  ASSUME NEW C, IsContent(C)
  PROVE  Under(C, <<>>) = C
<1> DEFINE U == Under(C, <<>>)
<1>1. <<>> \in Paths /\ \A r \in Paths : Cat(<<>>, r) = r
  BY NoPath
<1>2. /\ IsContent(U) /\ \A r : r \in DOMAIN U <=> r \in Paths /\ Cat(<<>>, r) \in DOMAIN C
      /\ \A r \in DOMAIN U : U[r] = C[Cat(<<>>, r)]
  BY <1>1, UnderIs, Zenon
<1> HIDE DEF U
<1>3. U = C
  BY <1>1, <1>2, ContentExt
<1> QED
  BY <1>3 DEF U

\* What lies under a prefix of what lies under a prefix.
LEMMA UnderUnder ==
  ASSUME NEW C, IsContent(C), NEW q \in Paths, NEW s \in Paths
  PROVE  Under(Under(C, q), s) = Under(C, Cat(q, s))
<1> DEFINE U == Under(C, q)
<1> DEFINE V == Under(U, s)
<1> DEFINE t == Cat(q, s)
<1> DEFINE W == Under(C, t)
<1>1. /\ IsContent(U) /\ \A r : r \in DOMAIN U <=> r \in Paths /\ Cat(q, r) \in DOMAIN C
      /\ \A r \in DOMAIN U : U[r] = C[Cat(q, r)]
  BY UnderIs, Zenon
<1>2. t \in Paths /\ \A r \in Paths : Cat(t, r) = Cat(q, Cat(s, r)) /\ Cat(s, r) \in Paths
  BY CatPath, CatAssoc
<1> HIDE DEF U, t
<1>3. /\ IsContent(V) /\ \A r : r \in DOMAIN V <=> r \in Paths /\ Cat(s, r) \in DOMAIN U
      /\ \A r \in DOMAIN V : V[r] = U[Cat(s, r)]
  BY <1>1, UnderIs, Zenon
<1>4. /\ IsContent(W) /\ \A r : r \in DOMAIN W <=> r \in Paths /\ Cat(t, r) \in DOMAIN C
      /\ \A r \in DOMAIN W : W[r] = C[Cat(t, r)]
  BY <1>2, UnderIs, Zenon
<1> HIDE DEF V, W
<1>5. V = W
  <2>1. \A k \in Paths : k \in DOMAIN V <=> k \in DOMAIN W
    BY <1>1, <1>2, <1>3, <1>4
  <2>2. \A k \in DOMAIN V : V[k] = W[k]
    BY <1>1, <1>2, <1>3, <1>4
  <2> QED
    BY <1>3, <1>4, <2>1, <2>2, ContentExt
<1> QED
  BY <1>5 DEF U, V, W, t

\* A content with another value, and without one.
With(C, k, v) == [j \in DOMAIN C \cup {k} |-> IF j = k THEN v ELSE C[j]]

\* A content without a path.
Less(C, k) == [j \in DOMAIN C \ {k} |-> C[j]]

\* A content with a value more is a content.
LEMMA WithIs ==
  ASSUME NEW C, NEW v, IsContent(C), NEW k \in Paths
  PROVE  /\ IsContent(With(C, k, v)) /\ DOMAIN With(C, k, v) = DOMAIN C \cup {k}
         /\ \A j \in DOMAIN C : j # k => With(C, k, v)[j] = C[j]
<1>1. IsFiniteSet(DOMAIN C \cup {k})
  BY FS_AddElement DEF IsContent
<1> QED
  BY <1>1 DEF With, IsContent

\* It has the value.
LEMMA WithAt ==
  ASSUME NEW C, NEW v, NEW k
  PROVE  With(C, k, v)[k] = v
  BY DEF With

\* A content without a path is a content.
LEMMA LessIs ==
  ASSUME NEW C, IsContent(C), NEW k \in Paths
  PROVE  /\ IsContent(Less(C, k)) /\ DOMAIN Less(C, k) = DOMAIN C \ {k}
         /\ \A j \in DOMAIN C \ {k} : Less(C, k)[j] = C[j]
<1>1. IsFiniteSet(DOMAIN C \ {k})
  BY FS_Subset DEF IsContent
<1> QED
  BY <1>1 DEF Less, IsContent

\* The change shows under the prefixes of the path.
LEMMA UnderWith ==
  ASSUME NEW C, IsContent(C), NEW q \in Paths, NEW r \in Paths, NEW v
  PROVE  Under(With(C, Cat(q, r), v), q) = With(Under(C, q), r, v)
<1> DEFINE k == Cat(q, r)
<1> DEFINE W == With(C, k, v)
<1> DEFINE U == Under(C, q)
<1> DEFINE A == Under(W, q)
<1> DEFINE B == With(U, r, v)
<1>0. k \in Paths /\ \A s \in Paths : Cat(q, s) = k <=> s = r
  BY CatPath, CatCancel
<1>1. /\ IsContent(W) /\ DOMAIN W = DOMAIN C \cup {k}
      /\ \A j \in DOMAIN C : j # k => W[j] = C[j]
  BY <1>0, WithIs, Zenon
<1>a. W[k] = v
  BY WithAt
<1>2. /\ IsContent(U) /\ \A s : s \in DOMAIN U <=> s \in Paths /\ Cat(q, s) \in DOMAIN C
      /\ \A s \in DOMAIN U : U[s] = C[Cat(q, s)]
  BY UnderIs, Zenon
<1> HIDE DEF k, W, U
<1>3. /\ IsContent(A) /\ \A s : s \in DOMAIN A <=> s \in Paths /\ Cat(q, s) \in DOMAIN W
      /\ \A s \in DOMAIN A : A[s] = W[Cat(q, s)]
  BY <1>1, UnderIs, Zenon
<1>4. /\ IsContent(B) /\ DOMAIN B = DOMAIN U \cup {r}
      /\ \A j \in DOMAIN U : j # r => B[j] = U[j]
  BY <1>2, WithIs, Zenon
<1>b. B[r] = v
  BY WithAt
<1> HIDE DEF A, B
<1>5. \A s \in Paths : s \in DOMAIN A <=> s \in DOMAIN B
  BY <1>0, <1>1, <1>2, <1>3, <1>4
<1>6. \A s \in DOMAIN A : A[s] = B[s]
  BY <1>a, <1>b, <1>0, <1>1, <1>2, <1>3, <1>4
<1>7. A = B
  BY <1>3, <1>4, <1>5, <1>6, ContentExt
<1> QED
  BY <1>7 DEF k, W, U, A, B

\* What lies under a prefix without a path of it.
LEMMA UnderLess ==
  ASSUME NEW C, IsContent(C), NEW q \in Paths, NEW r \in Paths
  PROVE  Under(Less(C, Cat(q, r)), q) = Less(Under(C, q), r)
<1> DEFINE k == Cat(q, r)
<1> DEFINE W == Less(C, k)
<1> DEFINE U == Under(C, q)
<1> DEFINE A == Under(W, q)
<1> DEFINE B == Less(U, r)
<1>0. k \in Paths /\ \A s \in Paths : Cat(q, s) = k <=> s = r
  BY CatPath, CatCancel
<1>1. /\ IsContent(W) /\ DOMAIN W = DOMAIN C \ {k}
      /\ \A j \in DOMAIN C \ {k} : W[j] = C[j]
  BY <1>0, LessIs, Zenon
<1>2. /\ IsContent(U) /\ \A s : s \in DOMAIN U <=> s \in Paths /\ Cat(q, s) \in DOMAIN C
      /\ \A s \in DOMAIN U : U[s] = C[Cat(q, s)]
  BY UnderIs, Zenon
<1> HIDE DEF k, W, U
<1>3. /\ IsContent(A) /\ \A s : s \in DOMAIN A <=> s \in Paths /\ Cat(q, s) \in DOMAIN W
      /\ \A s \in DOMAIN A : A[s] = W[Cat(q, s)]
  BY <1>1, UnderIs, Zenon
<1>4. /\ IsContent(B) /\ DOMAIN B = DOMAIN U \ {r}
      /\ \A j \in DOMAIN U \ {r} : B[j] = U[j]
  BY <1>2, LessIs, Zenon
<1> HIDE DEF A, B
<1>5. \A s \in Paths : s \in DOMAIN A <=> s \in DOMAIN B
  BY <1>0, <1>1, <1>2, <1>3, <1>4
<1>6. \A s \in DOMAIN A : A[s] = B[s]
  BY <1>0, <1>1, <1>2, <1>3, <1>4
<1>7. A = B
  BY <1>3, <1>4, <1>5, <1>6, ContentExt
<1> QED
  BY <1>7 DEF k, W, U, A, B

\* Under other prefixes it does not.
LEMMA UnderOther ==
  ASSUME NEW C, IsContent(C), NEW q \in Paths, NEW k \in Paths, NEW v,
         \A r \in Paths : k # Cat(q, r)
  PROVE  Under(With(C, k, v), q) = Under(C, q) /\ Under(Less(C, k), q) = Under(C, q)
<1> DEFINE W == With(C, k, v)
<1> DEFINE L == Less(C, k)
<1> DEFINE U == Under(C, q)
<1> DEFINE A == Under(W, q)
<1> DEFINE B == Under(L, q)
<1>1. /\ IsContent(W) /\ DOMAIN W = DOMAIN C \cup {k}
      /\ \A j \in DOMAIN C : j # k => W[j] = C[j]
  BY WithIs, Zenon
<1>2. IsContent(L) /\ DOMAIN L = DOMAIN C \ {k} /\ \A j \in DOMAIN C \ {k} : L[j] = C[j]
  BY LessIs, Zenon
<1>3. /\ IsContent(U) /\ \A s : s \in DOMAIN U <=> s \in Paths /\ Cat(q, s) \in DOMAIN C
      /\ \A s \in DOMAIN U : U[s] = C[Cat(q, s)]
  BY UnderIs, Zenon
<1> HIDE DEF W, L, U
<1>4. /\ IsContent(A) /\ \A s : s \in DOMAIN A <=> s \in Paths /\ Cat(q, s) \in DOMAIN W
      /\ \A s \in DOMAIN A : A[s] = W[Cat(q, s)]
  BY <1>1, UnderIs, Zenon
<1>5. /\ IsContent(B) /\ \A s : s \in DOMAIN B <=> s \in Paths /\ Cat(q, s) \in DOMAIN L
      /\ \A s \in DOMAIN B : B[s] = L[Cat(q, s)]
  BY <1>2, UnderIs, Zenon
<1> HIDE DEF A, B
<1>6. A = U
  <2>1. \A s \in Paths : s \in DOMAIN A <=> s \in DOMAIN U
    BY <1>1, <1>3, <1>4
  <2>2. \A s \in DOMAIN A : A[s] = U[s]
    BY <1>1, <1>3, <1>4
  <2> QED
    BY <1>3, <1>4, <2>1, <2>2, ContentExt
<1>7. B = U
  <2>1. \A s \in Paths : s \in DOMAIN B <=> s \in DOMAIN U
    BY <1>2, <1>3, <1>5
  <2>2. \A s \in DOMAIN B : B[s] = U[s]
    BY <1>2, <1>3, <1>5
  <2> QED
    BY <1>3, <1>5, <2>1, <2>2, ContentExt
<1> QED
  BY <1>6, <1>7 DEF W, L, U, A, B

----------------------------------------------------------------------------
(* Nodes.                                                                  *)

\* The byte a nibble is in.
LEMMA HalfUp ==
  ASSUME NEW i \in Nat
  PROVE  \/ i % 2 = 1 /\ 2 * ((i + 1) \div 2) - 1 = i
         \/ i % 2 = 0 /\ 2 * ((i + 1) \div 2) = i
  OBVIOUS

\* Nibbles put into bytes are the nibbles of those bytes.
LEMMA Repacked ==
  ASSUME NEW N, IsSeq(N), NEW b, b = [i \in 1 .. (Len(N) \div 2) |-> <<N[2 * i - 1], N[2 * i]>>],
         Len(N) % 2 = 0
  PROVE  bytes_to_nibbles(b) = N
<1>1. Len(N) \in Nat /\ Len(N) \div 2 \in Nat /\ 2 * (Len(N) \div 2) = Len(N)
  BY LenIs
<1> DEFINE m == Len(N) \div 2
<1>2. m \in Nat /\ 2 * m = Len(N)
  BY <1>1
<1>3. b = [i \in 1 .. m |-> <<N[2 * i - 1], N[2 * i]>>]
  OBVIOUS
<1> HIDE DEF m
<1>4. IsSeq(b) /\ Len(b) = m
  BY <1>2, <1>3, MadeSeq
<1>5. \A i \in 1 .. m : b[i] = <<N[2 * i - 1], N[2 * i]>>
  BY <1>3
<1> DEFINE c == bytes_to_nibbles(b)
<1>6. c = [i \in 1 .. Len(N) |-> b[(i + 1) \div 2][2 - (i % 2)]]
  BY <1>2, <1>4 DEF bytes_to_nibbles
<1> HIDE DEF c
<1>7. IsSeq(c) /\ Len(c) = Len(N)
  BY <1>1, <1>6, MadeSeq
<1>8. ASSUME NEW i \in 1 .. Len(N) PROVE c[i] = N[i]
  <2> DEFINE j == (i + 1) \div 2
  <2>1. j \in 1 .. m /\ j \in Nat
    BY <1>2
  <2>2. c[i] = b[j][2 - (i % 2)]
    BY <1>6
  <2>3. b[j] = <<N[2 * j - 1], N[2 * j]>>
    BY <1>5, <2>1
  <2>4. \/ i % 2 = 1 /\ 2 * j - 1 = i
        \/ i % 2 = 0 /\ 2 * j = i
    BY HalfUp
  <2> HIDE DEF j
  <2>5. CASE i % 2 = 1 /\ 2 * j - 1 = i
    <3>1. 2 - (i % 2) = 1
      BY <2>5
    <3>2. b[j][1] = N[2 * j - 1]
      BY <2>3
    <3> QED
      BY <2>2, <2>5, <3>1, <3>2
  <2>6. CASE i % 2 = 0 /\ 2 * j = i
    <3>1. 2 - (i % 2) = 2
      BY <2>6
    <3>2. b[j][2] = N[2 * j]
      BY <2>3
    <3> QED
      BY <2>2, <2>6, <3>1, <3>2
  <2> QED
    BY <2>4, <2>5, <2>6
<1>9. c = N
  BY <1>7, <1>8, SeqExt
<1> QED
  BY <1>9 DEF c

\* A path unpacks to itself (pack_hex_prefix, unpack_hex_prefix).
LEMMA HexRound ==
  ASSUME NEW path \in Paths, NEW is_leaf \in BOOLEAN
  PROVE  unpack_hex_prefix(pack_hex_prefix(path, is_leaf)).path = path
<1> DEFINE odd == Len(path) % 2
<1> DEFINE f == (IF is_leaf THEN 2 ELSE 0) + odd
<1>1. IsSeq(path) /\ Len(path) \in Nat /\ odd \in {0, 1} /\ f \in Nat /\ f % 2 = odd
  <2>1. IsSeq(path) /\ Len(path) \in Nat
    BY PathIs
  <2> QED
    BY <2>1
<1> DEFINE front == IF odd = 1 THEN <<f>> ELSE <<f, 0>>
<1> DEFINE N == front \o path
<1>2. IsSeq(front) /\ Len(front) = 2 - odd /\ front[1] = f
  BY <1>1, TupleIs
<1> DEFINE b == [i \in 1 .. (Len(N) \div 2) |-> <<N[2 * i - 1], N[2 * i]>>]
<1>3. N = <<f>> \o (IF odd = 1 THEN path ELSE <<0>> \o path)
  <2>1. CASE odd = 1
    BY <2>1
  <2>2. CASE odd # 1
    <3> DEFINE S == {path[i] : i \in DOMAIN path} \cup {f, 0}
    <3>1. path \in Seq(S)
      BY <1>1 DEF IsSeq
    <3>2. <<f>> \in Seq(S) /\ <<0>> \in Seq(S) /\ <<f, 0>> = <<f>> \o <<0>>
      BY <1>1
    <3> HIDE DEF S, f
    <3>3. (<<f>> \o <<0>>) \o path = <<f>> \o (<<0>> \o path)
      BY <3>1, <3>2, ConcatAssociative
    <3> QED
      BY <2>2, <3>2, <3>3
  <2> QED
    BY <2>1, <2>2
<1>4. pack_hex_prefix(path, is_leaf) = b
  <2>1. pack_hex_prefix(path, is_leaf) = LET M == <<f>> \o (IF odd = 1 THEN path ELSE <<0>> \o path)
          IN [i \in 1 .. (Len(M) \div 2) |-> <<M[2 * i - 1], M[2 * i]>>]
    BY DEF pack_hex_prefix
  <2> HIDE DEF N, odd, f
  <2> QED
    BY <2>1, <1>3
<1> HIDE DEF front
<1>5. IsSeq(N) /\ Len(N) = (2 - odd) + Len(path) /\ N[1] = f
  <2>1. /\ IsSeq(N) /\ Len(N) = Len(front) + Len(path)
        /\ \A i \in 1 .. Len(front) : N[i] = front[i]
    BY <1>1, <1>2, Concat
  <2>2. 1 \in 1 .. Len(front)
    BY <1>1, <1>2
  <2> HIDE DEF N
  <2> QED
    BY <1>1, <1>2, <2>1, <2>2
<1>6. Len(N) % 2 = 0
  BY <1>1, <1>5
<1>7. bytes_to_nibbles(b) = N
  <2> HIDE DEF N
  <2> QED
    BY <1>5, <1>6, Repacked
<1> DEFINE a == IF N[1] % 2 = 1 THEN 2 ELSE 3
<1>8. unpack_hex_prefix(b).path = SubSeq(N, a, Len(N))
  <2> HIDE DEF N, b
  <2> QED
    BY <1>7 DEF unpack_hex_prefix
<1>9. a = (2 - odd) + 1 /\ a \in Nat \ {0} /\ a <= Len(N) + 1 /\ Len(N) + 1 - a = Len(path)
  BY <1>1, <1>5
<1> DEFINE u == SubSeq(N, a, Len(N))
<1>10. u = path
  <2>1. \A i \in 1 .. Len(path) : N[Len(front) + i] = path[i]
    BY <1>1, <1>2, Concat
  <2> HIDE DEF N, a, odd, f
  <2>2. Len(N) \in Nat /\ Len(N) <= Len(N)
    BY <1>5, LenIs
  <2>a. IsSeq(N) /\ a \in Nat \ {0} /\ a <= Len(N) + 1
    BY <1>5, <1>9
  <2>3. /\ IsSeq(u) /\ Len(u) = Len(N) + 1 - a
        /\ \A i \in 1 .. Len(N) + 1 - a : u[i] = N[a + i - 1]
    BY <2>a, <2>2, Sub
  <2> HIDE DEF u
  <2>4. \A i \in 1 .. Len(path) : a + i - 1 = Len(front) + i
    BY <1>1, <1>2, <1>9
  <2>5. \A i \in 1 .. Len(path) : u[i] = path[i]
    BY <1>9, <2>1, <2>3, <2>4
  <2> QED
    BY <1>1, <1>9, <2>3, <2>5, SeqExt
<1> QED
  BY <1>4, <1>8, <1>10

\* The hashes of the three kinds of nodes, and what they are the hash of.
LeafHash(path, value) == serialize_node(leaf(path, value))

\* The payload of an extension.
ExtHash(path, next) == serialize_node(extension(path, next))

\* The payload of a branch.
BranchHash(children, value) == serialize_node(branch(children, value))

\* The payload of the empty node is read back.
LEMMA EmptyNode == deserialize_node(EmptyRoot) = Empty
  BY DEF EmptyRoot, serialize_node, deserialize_node, Empty

\* So is that of a leaf, through the hex prefix of its path.
LEMMA LeafNode ==
  ASSUME NEW p \in Paths, NEW v
  PROVE  deserialize_node(LeafHash(p, v)) = leaf(p, v)
<1>1. LeafHash(p, v) = <<1, pack_hex_prefix(p, TRUE), v>>
  BY DEF LeafHash, leaf, serialize_node
<1> DEFINE x == pack_hex_prefix(p, TRUE)
<1>2. unpack_hex_prefix(x).path = p
  BY HexRound
<1> HIDE DEF x
<1> DEFINE h0 == LeafHash(p, v)
<1>3. h0[1] = 1 /\ h0[2] = x /\ h0[3] = v
  BY <1>1 DEF x
<1> HIDE DEF h0
<1>4. deserialize_node(h0) = leaf(unpack_hex_prefix(h0[2]).path, h0[3])
  BY <1>3 DEF deserialize_node
<1> QED
  BY <1>2, <1>3, <1>4 DEF h0

\* So is that of an extension.
LEMMA ExtNode ==
  ASSUME NEW p \in Paths, NEW h
  PROVE  deserialize_node(ExtHash(p, h)) = extension(p, h)
<1>1. ExtHash(p, h) = <<2, pack_hex_prefix(p, FALSE), h>>
  BY DEF ExtHash, extension, serialize_node
<1> DEFINE x == pack_hex_prefix(p, FALSE)
<1>2. unpack_hex_prefix(x).path = p
  BY HexRound
<1> HIDE DEF x
<1> DEFINE h0 == ExtHash(p, h)
<1>3. h0[1] = 2 /\ h0[2] = x /\ h0[3] = h
  BY <1>1 DEF x
<1> HIDE DEF h0
<1>4. deserialize_node(h0) = extension(unpack_hex_prefix(h0[2]).path, h0[3])
  BY <1>3 DEF deserialize_node
<1> QED
  BY <1>2, <1>3, <1>4 DEF h0

\* So is that of a branch.
LEMMA BranchNode ==
  ASSUME NEW c, NEW v
  PROVE  deserialize_node(BranchHash(c, v)) = branch(c, v)
<1>1. BranchHash(c, v) = <<3, c, v>>
  BY DEF BranchHash, branch, serialize_node
<1> QED
  BY <1>1 DEF deserialize_node

----------------------------------------------------------------------------
(* The shape of the reference trie.                                        *)

\* The prefixes of the paths, the number of levels, and the nodes of one level over the
\* nodes of the level below.
PrefixesOf(C) == UNION {Prefixes(k) : k \in DOMAIN C}

\* The length of the longest path.
DepthOf(C) == Max({Len(k) : k \in DOMAIN C})

\* One level of nodes over the level below.
NodesOver(C, below) == [q \in PrefixesOf(C) |-> NodeAt(C, q, below)]

\* The levels from the bottom.
Levels(f, C, n) == f = [d \in 0 .. n |-> NodesOver(C, IF d = 0 THEN <<>> ELSE f[d - 1])]

\* There are such levels.
LEMMA LevelsExist ==
  ASSUME NEW C
  PROVE  \A n \in Nat : \E f : Levels(f, C, n)
<1> DEFINE P == {n \in Nat : \E f : Levels(f, C, n)}
<1>1. 0 \in P
  <2> DEFINE f == [d \in 0 .. 0 |-> NodesOver(C, <<>>)]
  <2>1. Levels(f, C, 0)
    BY DEF Levels
  <2> QED
    BY <2>1
<1>2. ASSUME NEW n \in Nat, n \in P PROVE n + 1 \in P
  <2>1. PICK f : Levels(f, C, n)
    BY <1>2
  <2> DEFINE Value(h, d) == NodesOver(C, IF d = 0 THEN <<>> ELSE h[d - 1])
  <2>2. \A d \in 0 .. n : f[d] = Value(f, d)
    BY <2>1 DEF Levels
  <2> DEFINE g == [d \in 0 .. n + 1 |-> IF d = n + 1 THEN Value(f, n + 1) ELSE f[d]]
  <2>3. ASSUME NEW d \in 0 .. n + 1 PROVE g[d] = Value(g, d)
    <3>1. d # 0 => d - 1 \in 0 .. n + 1 /\ d - 1 # n + 1
      OBVIOUS
    <3>2. d # 0 => g[d - 1] = f[d - 1]
      BY <3>1
    <3>3. g[d] = IF d = n + 1 THEN Value(f, n + 1) ELSE f[d]
      OBVIOUS
    <3>a. d # n + 1 => d \in 0 .. n
      OBVIOUS
    <3>4. d # n + 1 => f[d] = Value(f, d)
      BY <2>2, <3>a
    <3> HIDE DEF g
    <3>6. Value(g, d) = Value(f, d)
      BY <3>2
    <3> HIDE DEF Value
    <3>5. g[d] = Value(f, d)
      BY <3>3, <3>4
    <3> QED
      BY <3>5, <3>6
  <2>4. g = [d \in 0 .. n + 1 |-> g[d]]
    OBVIOUS
  <2> HIDE DEF g
  <2>5. g = [d \in 0 .. n + 1 |-> Value(g, d)]
    BY <2>3, <2>4
  <2>6. Levels(g, C, n + 1)
    BY <2>5 DEF Levels
  <2> QED
    BY <2>6
<1> HIDE DEF P
<1>3. \A n \in Nat : n \in P
  BY <1>1, <1>2, NumberInduction
<1> QED
  BY <1>3 DEF P

\* A prefix has something under it.
LEMMA PrefixesOfIs ==
  ASSUME NEW C, IsContent(C), NEW q
  PROVE  q \in PrefixesOf(C) <=> q \in Paths /\ DOMAIN Under(C, q) # {}
<1>1. ASSUME q \in PrefixesOf(C) PROVE q \in Paths /\ DOMAIN Under(C, q) # {}
  <2>1. PICK k \in DOMAIN C : q \in Prefixes(k)
    BY <1>1 DEF PrefixesOf
  <2>2. PICK l \in 0 .. Len(k) : q = SubSeq(k, 1, l)
    BY <2>1 DEF Prefixes
  <2>3. k \in Paths /\ Len(k) \in Nat /\ \A i \in 1 .. Len(k) : k[i] \in Nibbles
    BY PathIs DEF IsContent
  <2>4. /\ \A i \in 1 .. l : k[i] \in Nibbles
        /\ 1 \in Int /\ l \in Int /\ l \in Nat /\ l <= Len(k) /\ l + 1 - 1 = l
        /\ 1 \in Nat \ {0} /\ 1 <= l + 1
    BY <2>3
  <2>5. q \in Paths
    BY <2>2, <2>3, <2>4, SubSeqProperties DEF Paths
  <2>6. Len(q) = l
    <3> DEFINE o == 1
    <3>1. o \in Nat \ {0} /\ o <= l + 1 /\ l + 1 - o = l /\ q = SubSeq(k, o, l)
      BY <2>2, <2>4
    <3>2. IsSeq(k)
      BY <2>3, PathIs
    <3> HIDE DEF o
    <3> QED
      BY <2>4, <3>1, <3>2, Sub
  <2>7. IsPrefix(q, k)
    <3>1. SubSeq(q, 1, Len(q)) = q
      <4>1. Cat(q, <<>>) = q /\ <<>> \in Paths
        BY <2>5, NoPath, Zenon
      <4> QED
        BY <2>5, <4>1, FrontRest
    <3> QED
      BY <2>2, <2>4, <2>6, <3>1 DEF IsPrefix
  <2>8. PICK r \in Paths : k = Cat(q, r)
    BY <2>3, <2>5, <2>7, PrefixIs
  <2>9. r \in DOMAIN Under(C, q)
    BY <2>5, <2>8, UnderIs, Zenon
  <2> QED
    BY <2>5, <2>9
<1>2. ASSUME q \in Paths, DOMAIN Under(C, q) # {} PROVE q \in PrefixesOf(C)
  <2>1. PICK r : r \in DOMAIN Under(C, q)
    BY <1>2
  <2>2. r \in Paths /\ Cat(q, r) \in DOMAIN C
    BY <1>2, <2>1, UnderIs, Zenon
  <2>3. SubSeq(Cat(q, r), 1, Len(q)) = q
    BY <1>2, <2>2, FrontRest
  <2>4. Len(q) \in 0 .. Len(Cat(q, r))
    <3>1. Len(Cat(q, r)) = Len(q) + Len(r)
      BY <1>2, <2>2, CatIs, Zenon
    <3>2. Len(q) \in Nat /\ Len(r) \in Nat
      BY <1>2, <2>2, PathIs, Zenon
    <3> QED
      BY <3>1, <3>2
  <2>5. q \in Prefixes(Cat(q, r))
    BY <2>3, <2>4 DEF Prefixes
  <2> QED
    BY <2>2, <2>5 DEF PrefixesOf
<1> QED
  BY <1>1, <1>2

\* The subtrie under a prefix, and the trie by what its paths share.
Kid(U, s) == IF DOMAIN Under(U, s) = {} THEN Absent ELSE Some(TrieOf(Under(U, s)))

\* The node over a content: a leaf, or a branch below what its paths share.
Shape(U) ==
    LET c == LongestCommonPrefix(DOMAIN U)
    IN  IF DOMAIN U = {c} THEN LeafHash(c, U[c])
        ELSE Prefixed(c, BranchHash([n \in Nibbles |-> Kid(U, Cat(c, One(n)))], Lookup(U, c)))

\* Wherever the content occurs, in a trie with enough levels, its node has that shape.
ShapedIn(U, C, f, n, q, d) ==
    /\ IsContent(C) /\ n \in Nat /\ Levels(f, C, n) /\ q \in Paths /\ Under(C, q) = U
    /\ d \in 0 .. n /\ \A k \in DOMAIN U : Len(k) <= d
    => f[d][q] = Shape(U)

\* The node over the content has its shape wherever it occurs.
Shaped(U) == \A C, f, n, q, d : ShapedIn(U, C, f, n, q, d)

\* A finite set of numbers has a bound.
LEMMA FiniteBounded ==
  ASSUME NEW T \in SUBSET Nat, IsFiniteSet(T)
  PROVE  \E b \in Nat : \A m \in T : m <= b
<1> DEFINE P == {S \in SUBSET T : \E b \in Nat : \A m \in S : m <= b}
<1>1. {} \in P
  OBVIOUS
<1>2. ASSUME NEW S \in SUBSET T, NEW x \in T, S \in P, x \notin S PROVE S \cup {x} \in P
  <2>1. PICK b \in Nat : \A m \in S : m <= b
    BY <1>2
  <2>2. x + b \in Nat /\ \A m \in S \cup {x} : m <= x + b
    BY <2>1
  <2> QED
    BY <2>2
<1> HIDE DEF P
<1>3. T \in P
  BY <1>1, <1>2, FiniteInduction
<1> QED
  BY <1>3 DEF P

\* The longest path.
LEMMA DepthIs ==
  ASSUME NEW C, IsContent(C), DOMAIN C # {}
  PROVE  DepthOf(C) \in Nat /\ \A k \in DOMAIN C : Len(k) <= DepthOf(C)
<1> DEFINE T == {Len(k) : k \in DOMAIN C}
<1>1. T \in SUBSET Nat /\ T # {}
  BY PathIs DEF IsContent
<1>2. IsFiniteSet(T)
  <2> DEFINE f == [k \in DOMAIN C |-> Len(k)]
  <2>1. f \in Surjection(DOMAIN C, T)
    BY DEF Surjection
  <2>2. IsFiniteSet(DOMAIN C)
    BY DEF IsContent
  <2> HIDE DEF f, T
  <2> QED
    BY <2>1, <2>2, FS_Surjection
<1>3. PICK b \in Nat : \A m \in T : m <= b
  <2> HIDE DEF T
  <2>1. \E b \in Nat : \A m \in T : m <= b
    BY <1>1, <1>2, FiniteBounded
  <2> QED
    BY <2>1
<1>4. \E x \in T : \A y \in T : x >= y
  <2> DEFINE W == {b - m : m \in T}
  <2>1. W \in SUBSET Nat /\ W # {}
    BY <1>1, <1>3
  <2>2. PICK n \in W : \A m \in W : n <= m
    BY <2>1, LeastNumber
  <2>3. PICK x \in T : n = b - x
    BY <2>2
  <2>4. ASSUME NEW y \in T PROVE x >= y
    <3>1. n <= b - y
      BY <2>2
    <3>2. x \in Nat /\ y \in Nat
      BY <1>1
    <3> HIDE DEF T
    <3> QED
      BY <2>3, <3>1, <3>2
  <2> QED
    BY <2>4
<1>5. DepthOf(C) = CHOOSE x \in T : \A y \in T : x >= y
  BY DEF DepthOf, Max
<1> DEFINE D == DepthOf(C)
<1>6. D \in T /\ \A y \in T : D >= y
  <2> HIDE DEF T
  <2> QED
    BY <1>4, <1>5
<1> HIDE DEF D
<1>7. ASSUME NEW k \in DOMAIN C PROVE Len(k) <= D
  BY <1>1, <1>6
<1> QED
  BY <1>1, <1>6, <1>7 DEF D

\* What the reference trie computes.
LEMMA TrieLevels ==
  ASSUME NEW C, IsContent(C), DOMAIN C # {}
  PROVE  \E f : Levels(f, C, DepthOf(C)) /\ TrieOf(C) = f[DepthOf(C)][<<>>]
<1> DEFINE f == CHOOSE at : Levels(at, C, DepthOf(C))
<1>1. TrieOf(C) = f[DepthOf(C)][<<>>]
  BY DEF TrieOf, Levels, NodesOver, PrefixesOf, DepthOf
<1>2. \E at : Levels(at, C, DepthOf(C))
  BY DepthIs, LevelsExist
<1>3. Levels(f, C, DepthOf(C))
  BY <1>2
<1> QED
  BY <1>1, <1>3

\* Where the content is the whole content.
LEMMA ShapedTrie ==
  ASSUME NEW U, IsContent(U), DOMAIN U # {}, Shaped(U)
  PROVE  TrieOf(U) = Shape(U)
<1> DEFINE n == DepthOf(U)
<1>1. n \in Nat /\ \A k \in DOMAIN U : Len(k) <= n
  BY DepthIs, Zenon
<1>2. PICK f : Levels(f, U, n) /\ TrieOf(U) = f[n][<<>>]
  BY TrieLevels, Zenon
<1> HIDE DEF n
<1>3. <<>> \in Paths /\ Under(U, <<>>) = U /\ n \in 0 .. n
  BY <1>1, NoPath, UnderAll
<1>4. ShapedIn(U, U, f, n, <<>>, n)
  BY Zenon DEF Shaped
<1>5. f[n][<<>>] = Shape(U)
  BY <1>1, <1>2, <1>3, <1>4 DEF ShapedIn
<1> QED
  BY <1>2, <1>5

\* The step of the induction over the depth.
LEMMA ShapedStep ==
  ASSUME NEW m \in Nat,
         \A V : IsContent(V) /\ DOMAIN V # {} /\ (\A k \in DOMAIN V : Len(k) < m) => Shaped(V),
         NEW U, IsContent(U), DOMAIN U # {}, \A k \in DOMAIN U : Len(k) < m + 1
  PROVE  Shaped(U)
<1> DEFINE c == LongestCommonPrefix(DOMAIN U)
<1>1. c \in Paths /\ Fronts(c, DOMAIN U) /\ DOMAIN U \in SUBSET Paths
  BY LcpIs DEF IsContent
<1> SUFFICES ASSUME NEW C, NEW f, NEW n, NEW q, NEW d PROVE ShapedIn(U, C, f, n, q, d)
  BY Zenon DEF Shaped
<1> SUFFICES ASSUME IsContent(C), n \in Nat, Levels(f, C, n), q \in Paths, Under(C, q) = U,
                    d \in 0 .. n, \A k \in DOMAIN U : Len(k) <= d
             PROVE  f[d][q] = Shape(U)
  BY Zenon DEF ShapedIn
<1> DEFINE below == IF d = 0 THEN <<>> ELSE f[d - 1]
<1>2. f[d] = NodesOver(C, below)
  BY DEF Levels
<1>3. q \in PrefixesOf(C)
  BY PrefixesOfIs
<1>4. f[d][q] = NodeAt(C, q, below)
  BY <1>2, <1>3 DEF NodesOver
<1> DEFINE K == [n0 \in Nibbles |-> Lookup(below, q \o Append(c, n0))]
<1> DEFINE B == [n0 \in Nibbles |-> Kid(U, Cat(c, One(n0)))]
<1>5. NodeAt(C, q, below) = IF DOMAIN U = {c} THEN LeafHash(c, U[c])
                            ELSE Prefixed(c, BranchHash(K, Lookup(U, c)))
  BY DEF NodeAt, LeafHash, BranchHash
<1>6. Shape(U) = IF DOMAIN U = {c} THEN LeafHash(c, U[c])
                 ELSE Prefixed(c, BranchHash(B, Lookup(U, c)))
  BY DEF Shape
<1>7. ASSUME DOMAIN U # {c} PROVE K = B
  <2>1. PICK k \in DOMAIN U : k # c
    BY <1>7
  <2>2. PICK r \in Paths : k = Cat(c, r)
    BY <1>1 DEF Fronts
  <2>3. Len(k) = Len(c) + Len(r)
    BY <1>1, <2>2, CatIs, Zenon
  <2>4. Len(c) \in Nat /\ Len(r) \in Nat /\ Len(k) <= d
    BY <1>1, PathIs, Zenon
  <2>5. Len(r) # 0
    <3>1. ASSUME Len(r) = 0 PROVE FALSE
      <4>1. r = <<>> /\ Cat(c, <<>>) = c
        BY <1>1, <3>1, NoPath
      <4> QED
        BY <2>1, <2>2, <4>1
    <3> QED
      BY <3>1
  <2>6. d # 0 /\ d - 1 \in 0 .. n /\ d \in Nat
    BY <2>3, <2>4, <2>5
  <2>7. below = f[d - 1]
    BY <2>6
  <2>8. f[d - 1] = NodesOver(C, IF d - 1 = 0 THEN <<>> ELSE f[(d - 1) - 1])
    BY <2>6 DEF Levels
  <2>9. DOMAIN below = PrefixesOf(C)
    BY <2>7, <2>8 DEF NodesOver
  <2> SUFFICES ASSUME NEW n0 \in Nibbles
               PROVE  Lookup(below, q \o Append(c, n0)) = Kid(U, Cat(c, One(n0)))
    OBVIOUS
  <2> DEFINE s == Cat(c, One(n0))
  <2> DEFINE V == Under(U, s)
  <2> DEFINE t == Cat(q, s)
  <2>10. q \o Append(c, n0) = t
    BY <1>1, AppendOne DEF Cat
  <2>11. s \in Paths /\ Len(s) = Len(c) + 1
    <3>1. One(n0) \in Paths /\ Len(One(n0)) = 1
      BY OneIs
    <3> DEFINE o == One(n0)
    <3> HIDE DEF o, c
    <3>2. Cat(c, o) \in Paths /\ Len(Cat(c, o)) = Len(c) + Len(o)
      BY <1>1, <3>1, CatIs, Zenon DEF o
    <3> QED
      BY <3>1, <3>2 DEF o
  <2> HIDE DEF s, c, below
  <2>12. t \in Paths /\ Under(C, t) = V
    BY <2>11, CatPath, UnderUnder
  <2>13. IsContent(V) /\ \A x : x \in DOMAIN V => x \in Paths /\ Cat(s, x) \in DOMAIN U
    BY <2>11, UnderIs, Zenon
  <2> HIDE DEF V, t
  <2>14. t \in DOMAIN below <=> DOMAIN V # {}
    BY <2>9, <2>12, PrefixesOfIs
  <2>15. CASE DOMAIN V = {}
    <3>1. Lookup(below, t) = Absent
      BY <2>14, <2>15 DEF Lookup
    <3>2. Kid(U, s) = Absent
      BY <2>15 DEF Kid, V
    <3> QED
      BY <2>10, <3>1, <3>2 DEF s
  <2>16. CASE DOMAIN V # {}
    <3>1. ASSUME NEW x \in DOMAIN V PROVE Len(x) < m /\ Len(x) <= d - 1
      <4>1. x \in Paths /\ Cat(s, x) \in DOMAIN U
        BY <2>13
      <4>2. Len(Cat(s, x)) = Len(s) + Len(x)
        BY <2>11, <4>1, CatIs, Zenon
      <4>3. Len(x) \in Nat
        BY <4>1, PathIs, Zenon
      <4>4. Len(Cat(s, x)) < m + 1 /\ Len(Cat(s, x)) <= d
        BY <4>1
      <4> QED
        BY <2>4, <2>6, <2>11, <4>2, <4>3, <4>4
    <3>2. Shaped(V)
      BY <2>13, <2>16, <3>1
    <3>3. TrieOf(V) = Shape(V)
      BY <2>13, <2>16, <3>2, ShapedTrie
    <3>4. f[d - 1][t] = Shape(V)
      <4> DEFINE e == d - 1
      <4>1. e \in 0 .. n /\ \A x \in DOMAIN V : Len(x) <= e
        BY <2>6, <3>1
      <4> HIDE DEF e
      <4>3. ShapedIn(V, C, f, n, t, e)
        BY <3>2, Zenon DEF Shaped
      <4>2. f[e][t] = Shape(V)
        BY <2>12, <4>1, <4>3 DEF ShapedIn
      <4> QED
        BY <4>2 DEF e
    <3>5. Lookup(below, t) = Some(Shape(V))
      BY <2>7, <2>14, <2>16, <3>4 DEF Lookup
    <3>6. Kid(U, s) = Some(TrieOf(V))
      BY <2>16 DEF Kid, V
    <3> QED
      BY <2>10, <3>3, <3>5, <3>6 DEF s
  <2> QED
    BY <2>15, <2>16
<1> HIDE DEF K, B, c
<1> QED
  BY <1>4, <1>5, <1>6, <1>7

\* The reference trie has its shape.
LEMMA TrieShape ==
  ASSUME NEW C, IsContent(C), DOMAIN C # {}
  PROVE  TrieOf(C) = Shape(C)
<1> DEFINE Thin(V, m) == IsContent(V) /\ DOMAIN V # {} /\ \A k \in DOMAIN V : Len(k) < m
<1> DEFINE P == {m \in Nat : \A V : Thin(V, m) => Shaped(V)}
<1>1. 0 \in P
  <2> SUFFICES ASSUME NEW V, Thin(V, 0) PROVE FALSE
    OBVIOUS
  <2>1. PICK k \in DOMAIN V : TRUE
    OBVIOUS
  <2>2. k \in Paths
    BY DEF IsContent
  <2>3. Len(k) \in Nat
    BY <2>2, PathIs, Zenon
  <2> QED
    BY <2>3
<1>2. ASSUME NEW m \in Nat, m \in P PROVE m + 1 \in P
  <2>1. \A V : Thin(V, m) => Shaped(V)
    BY <1>2
  <2> SUFFICES ASSUME NEW U, Thin(U, m + 1) PROVE Shaped(U)
    OBVIOUS
  <2> QED
    BY <2>1, ShapedStep
<1>3. \A m \in Nat : m \in P
  <2> HIDE DEF P
  <2> QED
    BY <1>1, <1>2, NumberInduction
<1> DEFINE m == DepthOf(C) + 1
<1>4. m \in Nat /\ \A k \in DOMAIN C : Len(k) < m
  <2>1. DepthOf(C) \in Nat /\ \A k \in DOMAIN C : Len(k) <= DepthOf(C)
    BY DepthIs, Zenon
  <2>2. \A k \in DOMAIN C : Len(k) \in Nat
    BY PathIs DEF IsContent
  <2> QED
    BY <2>1, <2>2
<1> HIDE DEF m
<1>5. Shaped(C)
  BY <1>3, <1>4
<1> QED
  BY <1>5, ShapedTrie

\* The subtries by the first nibble.
Kids(C) == [n \in Nibbles |-> Kid(C, One(n))]

\* Two paths that part at once: there is a branch at the top.
Wide(C) == \E x, y \in DOMAIN C : x # y /\ Parted(x, y)

\* The empty trie.
LEMMA TrieNone ==
  ASSUME NEW C, DOMAIN C = {}
  PROVE  TrieOf(C) = EmptyRoot
  BY DEF TrieOf

\* One path: a leaf.
LEMMA TrieLeaf ==
  ASSUME NEW C, IsContent(C), NEW k \in Paths, DOMAIN C = {k}
  PROVE  TrieOf(C) = LeafHash(k, C[k])
<1>1. <<>> \in Paths /\ Cat(k, <<>>) = k
  BY NoPath
<1>2. Fronts(k, {k}) /\ Parted(<<>>, <<>>)
  BY <1>1 DEF Fronts, Parted
<1>3. LongestCommonPrefix({k}) = k
  <2> DEFINE S == {k}
  <2>1. S \in SUBSET Paths /\ Fronts(k, S) /\ Cat(k, <<>>) \in S
    BY <1>1, <1>2
  <2> HIDE DEF S
  <2>2. LongestCommonPrefix(S) = k
    BY <1>1, <1>2, <2>1, LcpParted
  <2> QED
    BY <2>2 DEF S
<1>4. TrieOf(C) = Shape(C)
  BY TrieShape
<1> QED
  BY <1>3, <1>4 DEF Shape

\* What all paths share is the empty path: a branch.
LEMMA TrieBranch ==
  ASSUME NEW C, IsContent(C), Wide(C)
  PROVE  TrieOf(C) = BranchHash(Kids(C), Lookup(C, <<>>))
<1>1. PICK x \in DOMAIN C, y \in DOMAIN C : x # y /\ Parted(x, y)
  BY DEF Wide
<1>2. x \in Paths /\ y \in Paths /\ DOMAIN C \in SUBSET Paths /\ DOMAIN C # {}
  BY DEF IsContent
<1> DEFINE e == <<>>
<1>3. e \in Paths /\ \A q \in Paths : Cat(e, q) = q
  BY NoPath
<1> HIDE DEF e
<1>4. Fronts(e, DOMAIN C)
  BY <1>2, <1>3 DEF Fronts
<1>5. LongestCommonPrefix(DOMAIN C) = e
  BY <1>1, <1>2, <1>3, <1>4, LcpParted
<1>6. DOMAIN C # {e}
  BY <1>1
<1>7. TrieOf(C) = Shape(C)
  BY <1>2, TrieShape
<1> DEFINE K == [n \in Nibbles |-> Kid(C, Cat(e, One(n)))]
<1>8. Shape(C) = Prefixed(e, BranchHash(K, Lookup(C, e)))
  BY <1>5, <1>6 DEF Shape
<1>9. K = Kids(C)
  BY <1>3, OnePath DEF Kids
<1> QED
  BY <1>7, <1>8, <1>9 DEF Prefixed, e

\* All paths share a front: an extension over a branch.
LEMMA TrieExtension ==
  ASSUME NEW C, IsContent(C), NEW c \in Paths, c # <<>>, Fronts(c, DOMAIN C), Wide(Under(C, c))
  PROVE  TrieOf(C) = ExtHash(c, TrieOf(Under(C, c)))
<1> DEFINE U == Under(C, c)
<1>1. /\ IsContent(U) /\ \A r : r \in DOMAIN U <=> r \in Paths /\ Cat(c, r) \in DOMAIN C
      /\ \A r \in DOMAIN U : U[r] = C[Cat(c, r)]
  BY UnderIs, Zenon
<1>2. PICK x \in DOMAIN U, y \in DOMAIN U : x # y /\ Parted(x, y)
  BY DEF Wide
<1>3. DOMAIN C \in SUBSET Paths
  BY DEF IsContent
<1> HIDE DEF U
<1>4. x \in Paths /\ y \in Paths /\ Cat(c, x) \in DOMAIN C /\ Cat(c, y) \in DOMAIN C
  BY <1>1
<1>5. LongestCommonPrefix(DOMAIN C) = c
  BY <1>2, <1>3, <1>4, LcpParted
<1>6. DOMAIN C # {c}
  <2>1. Cat(c, x) # Cat(c, y)
    BY <1>2, <1>4, CatCancel
  <2> QED
    BY <1>4, <2>1
<1>7. TrieOf(C) = Shape(C)
  BY <1>4, TrieShape
<1> DEFINE K == [n \in Nibbles |-> Kid(C, Cat(c, One(n)))]
<1>8. Shape(C) = Prefixed(c, BranchHash(K, Lookup(C, c)))
  BY <1>5, <1>6 DEF Shape
<1>9. ASSUME NEW n \in Nibbles PROVE Kid(C, Cat(c, One(n))) = Kid(U, One(n))
  <2>1. Under(U, One(n)) = Under(C, Cat(c, One(n)))
    BY OnePath, UnderUnder DEF U
  <2> QED
    BY <2>1 DEF Kid
<1>10. K = Kids(U)
  BY <1>9 DEF Kids
<1>11. Lookup(C, c) = Lookup(U, <<>>)
  <2> DEFINE e == <<>>
  <2>1. e \in Paths /\ Cat(c, e) = c
    BY NoPath
  <2> HIDE DEF e
  <2>2. e \in DOMAIN U <=> c \in DOMAIN C
    BY <1>1, <2>1
  <2>3. c \in DOMAIN C => U[e] = C[c]
    BY <1>1, <2>1, <2>2
  <2>4. Lookup(C, c) = Lookup(U, e)
    BY <2>2, <2>3 DEF Lookup
  <2> QED
    BY <2>4 DEF e
<1>12. TrieOf(U) = BranchHash(Kids(U), Lookup(U, <<>>))
  BY <1>1, TrieBranch DEF U
<1> QED
  BY <1>7, <1>8, <1>10, <1>11, <1>12 DEF Prefixed, ExtHash, U

\* There is no other case.
LEMMA TrieCases ==
  ASSUME NEW C, IsContent(C)
  PROVE  \/ DOMAIN C = {}
         \/ \E k \in Paths : DOMAIN C = {k}
         \/ Wide(C)
         \/ \E c \in Paths : c # <<>> /\ Fronts(c, DOMAIN C) /\ Wide(Under(C, c))
<1> SUFFICES ASSUME DOMAIN C # {}, \A k \in Paths : DOMAIN C # {k}
             PROVE  \E c \in Paths : Fronts(c, DOMAIN C) /\ Wide(Under(C, c))
  BY UnderAll
<1> DEFINE c == LongestCommonPrefix(DOMAIN C)
<1>1. /\ c \in Paths /\ Fronts(c, DOMAIN C) /\ DOMAIN C \in SUBSET Paths
      /\ \A d \in Paths : Fronts(d, DOMAIN C) => Len(d) <= Len(c)
  BY LcpIs DEF IsContent
<1> HIDE DEF c
<1> DEFINE U == Under(C, c)
<1>2. /\ IsContent(U) /\ \A r : r \in DOMAIN U <=> r \in Paths /\ Cat(c, r) \in DOMAIN C
  BY <1>1, UnderIs, Zenon
<1> HIDE DEF U
<1>3. \A k \in DOMAIN C : \E r \in DOMAIN U : k = Cat(c, r)
  BY <1>1, <1>2 DEF Fronts
<1>4. PICK a \in DOMAIN C, b \in DOMAIN C : a # b
  BY <1>1
<1>5. PICK x \in DOMAIN U, y \in DOMAIN U : a = Cat(c, x) /\ b = Cat(c, y)
  BY <1>3
<1>6. x # y /\ x \in Paths /\ y \in Paths
  BY <1>2, <1>4, <1>5
<1>7. ASSUME <<>> \in DOMAIN U PROVE Wide(U)
  <2> DEFINE e == <<>>
  <2>1. e \in DOMAIN U /\ (x # e \/ y # e) /\ Parted(x, e) /\ Parted(y, e)
    BY <1>6, <1>7 DEF Parted
  <2> HIDE DEF e
  <2> QED
    BY <2>1 DEF Wide
<1>8. ASSUME <<>> \notin DOMAIN U PROVE Wide(U)
  <2> DEFINE n == x[1]
  <2>1. n \in Nibbles
    BY <1>6, <1>8, FirstNibble
  <2> HIDE DEF n
  <2> DEFINE o == One(n)
  <2>2. o \in Paths /\ Len(o) = 1
    BY <2>1, OneIs
  <2> HIDE DEF o
  <2>3. Cat(c, o) \in Paths /\ Len(Cat(c, o)) = Len(c) + Len(o)
    BY <1>1, <2>2, CatIs, Zenon
  <2>4. Len(c) \in Nat
    BY <1>1, PathIs, Zenon
  <2>5. ~Fronts(Cat(c, o), DOMAIN C)
    BY <1>1, <2>2, <2>3, <2>4
  <2>6. PICK z \in DOMAIN U : \A r \in Paths : Cat(c, z) # Cat(Cat(c, o), r)
    BY <1>3, <2>5 DEF Fronts
  <2>7. z \in Paths
    BY <1>2
  <2>8. z[1] # n
    <3> SUFFICES ASSUME z[1] = n PROVE FALSE
      OBVIOUS
    <3>1. Tail(z) \in Paths /\ z = Cat(o, Tail(z))
      BY <1>8, <2>7, FirstNibble DEF o
    <3>2. Cat(c, Cat(o, Tail(z))) = Cat(Cat(c, o), Tail(z))
      BY <1>1, <2>2, <3>1, CatAssoc
    <3> QED
      BY <2>6, <3>1, <3>2
  <2>9. x # z /\ Parted(x, z)
    BY <2>8 DEF Parted, n
  <2> QED
    BY <2>9 DEF Wide
<1> QED
  BY <1>1, <1>7, <1>8 DEF U

----------------------------------------------------------------------------
(* The way down.                                                           *)

\* Strings one after the other, and one with nothing after it.
LEMMA JoinAssoc ==
  ASSUME NEW s, NEW t, NEW u, IsSeq(s), IsSeq(t), IsSeq(u)
  PROVE  (s \o t) \o u = s \o (t \o u)
<1> DEFINE S == {s[i] : i \in DOMAIN s} \cup {t[i] : i \in DOMAIN t} \cup {u[i] : i \in DOMAIN u}
<1>1. s \in Seq(S) /\ t \in Seq(S) /\ u \in Seq(S)
  BY DEF IsSeq
<1> HIDE DEF S
<1> QED
  BY <1>1, ConcatAssociative

\* Nothing more at the end.
LEMMA JoinNone ==
  ASSUME NEW s, IsSeq(s)
  PROVE  s \o <<>> = s
<1> DEFINE S == {s[i] : i \in DOMAIN s}
<1>1. s \in Seq(S)
  BY DEF IsSeq
<1> HIDE DEF S
<1> QED
  BY <1>1, ConcatEmptySeq

\* The last of two strings one after the other.
LEMMA JoinLast ==
  ASSUME NEW s, NEW t, IsSeq(s), IsSeq(t), Len(t) # 0
  PROVE  Last(s \o t) = Last(t)
<1>1. Len(t) \in 1 .. Len(t) /\ Len(s) \in Nat /\ Len(t) \in Nat
  BY LenIs
<1>2. Len(s \o t) = Len(s) + Len(t) /\ \A i \in 1 .. Len(t) : (s \o t)[Len(s) + i] = t[i]
  BY Concat
<1> QED
  BY <1>1, <1>2 DEF Last

\* A list with one more at its start.
LEMMA PutFirst ==
  ASSUME NEW s, NEW w, IsSeq(w)
  PROVE  /\ IsSeq(<<s>> \o w) /\ Len(<<s>> \o w) = Len(w) + 1 /\ (<<s>> \o w)[1] = s
         /\ \A i \in 1 .. Len(w) : (<<s>> \o w)[1 + i] = w[i]
<1>1. PICK o : o = <<s>>
  OBVIOUS
<1>9. IsSeq(o)
  BY <1>1, TupleIs
<1>2. Len(o) = 1 /\ o[1] = s
  BY <1>1, TupleIs
<1>3. Len(w) \in Nat
  BY LenIs
<1>4. PICK u : u = o \o w
  OBVIOUS
<1>8. /\ IsSeq(o \o w) /\ Len(o \o w) = Len(o) + Len(w)
      /\ \A i \in 1 .. Len(o) : (o \o w)[i] = o[i]
      /\ \A i \in 1 .. Len(w) : (o \o w)[Len(o) + i] = w[i]
  BY <1>9, Concat
<1>5. /\ IsSeq(u) /\ Len(u) = Len(o) + Len(w)
      /\ \A i \in 1 .. Len(o) : u[i] = o[i]
      /\ \A i \in 1 .. Len(w) : u[Len(o) + i] = w[i]
  BY <1>4, <1>8
<1>6. IsSeq(u) /\ Len(u) = Len(w) + 1 /\ u[1] = s /\ \A i \in 1 .. Len(w) : u[1 + i] = w[i]
  BY <1>2, <1>3, <1>5
<1>7. <<s>> \o w = u
  BY <1>1, <1>4
<1> QED
  BY <1>6, <1>7

\* A lookup stops or goes to one position.
LEMMA DownIs ==
  ASSUME NEW s
  PROVE  Down(s) = <<>> \/ \E t : Down(s) = <<t>>
<1>1. ASSUME NEW n, n = deserialize_node(s.h)
      PROVE  Down(s) = <<>> \/ \E t : Down(s) = <<t>>
  <2>1. CASE n.kind = "Extension" /\ StartsWith(s.key, n.path)
    <3>1. Down(s) = Some([h |-> n.next, key |-> From(s.key, Len(n.path) + 1)])
      BY <1>1, <2>1 DEF Down
    <3> QED
      BY <3>1 DEF Some
  <2>2. CASE ~(n.kind = "Extension" /\ StartsWith(s.key, n.path))
             /\ n.kind = "Branch" /\ s.key # <<>> /\ n.children[s.key[1]] # Absent
    <3>1. Down(s) = Some([h |-> n.children[s.key[1]][1], key |-> Tail(s.key)])
      BY <1>1, <2>2 DEF Down
    <3> QED
      BY <3>1 DEF Some
  <2>3. CASE ~(n.kind = "Extension" /\ StartsWith(s.key, n.path))
             /\ ~(n.kind = "Branch" /\ s.key # <<>> /\ n.children[s.key[1]] # Absent)
    <3>1. Down(s) = Absent
      BY <1>1, <2>3 DEF Down
    <3> QED
      BY <3>1 DEF Absent
  <2> QED
    BY <2>1, <2>2, <2>3
<1> QED
  BY <1>1

\* The positions after a number of steps.
Goes(f, s, n) == f = [k \in 0 .. n |-> IF k = 0 THEN <<s>> ELSE f[k - 1] \o Down(Last(f[k - 1]))]

\* The last of those.
WayTo(s, n) == (CHOOSE f : Goes(f, s, n))[n]

\* Way takes as many steps as the key has nibbles.
LEMMA WayIs ==
  ASSUME NEW h, NEW key
  PROVE  Way(h, key) = WayTo([h |-> h, key |-> key], Len(key))
  BY DEF Way, WayTo, Goes

\* The recursion has a solution.
LEMMA GoesExist ==
  ASSUME NEW s
  PROVE  \A n \in Nat : \E f : Goes(f, s, n)
<1> DEFINE P == {n \in Nat : \E f : Goes(f, s, n)}
<1>1. 0 \in P
  <2> DEFINE f == [k \in 0 .. 0 |-> <<s>>]
  <2>1. Goes(f, s, 0)
    BY DEF Goes
  <2> QED
    BY <2>1
<1>2. ASSUME NEW n \in Nat, n \in P PROVE n + 1 \in P
  <2>1. PICK f : Goes(f, s, n)
    BY <1>2
  <2> DEFINE Value(h, k) == IF k = 0 THEN <<s>> ELSE (h[k - 1] \o Down(Last(h[k - 1])))
  <2>2. \A k \in 0 .. n : f[k] = Value(f, k)
    BY <2>1 DEF Goes
  <2> DEFINE g == [k \in 0 .. n + 1 |-> IF k = n + 1 THEN Value(f, n + 1) ELSE f[k]]
  <2>3. ASSUME NEW k \in 0 .. n + 1 PROVE g[k] = Value(g, k)
    <3>1. k # 0 => k - 1 \in 0 .. n + 1 /\ k - 1 # n + 1
      OBVIOUS
    <3>2. k # 0 => g[k - 1] = f[k - 1]
      BY <3>1
    <3>3. g[k] = IF k = n + 1 THEN Value(f, n + 1) ELSE f[k]
      OBVIOUS
    <3>a. k # n + 1 => k \in 0 .. n
      OBVIOUS
    <3>4. k # n + 1 => f[k] = Value(f, k)
      BY <2>2, <3>a
    <3> HIDE DEF g
    <3>6. Value(g, k) = Value(f, k)
      BY <3>2
    <3> HIDE DEF Value
    <3>5. g[k] = Value(f, k)
      BY <3>3, <3>4
    <3> QED
      BY <3>5, <3>6
  <2>4. g = [k \in 0 .. n + 1 |-> g[k]]
    OBVIOUS
  <2> HIDE DEF g
  <2>5. g = [k \in 0 .. n + 1 |-> Value(g, k)]
    BY <2>3, <2>4
  <2>6. Goes(g, s, n + 1)
    BY <2>5 DEF Goes
  <2> QED
    BY <2>6
<1> HIDE DEF P
<1>3. \A n \in Nat : n \in P
  BY <1>1, <1>2, NumberInduction
<1> QED
  BY <1>3 DEF P

\* No step and one step more.
LEMMA WayToNone ==
  ASSUME NEW s
  PROVE  WayTo(s, 0) = <<s>>
<1> DEFINE f == CHOOSE at : Goes(at, s, 0)
<1>1. Goes(f, s, 0)
  BY GoesExist
<1>2. WayTo(s, 0) = f[0]
  BY DEF WayTo
<1> HIDE DEF f
<1>3. f[0] = <<s>>
  BY <1>1 DEF Goes
<1> QED
  BY <1>2, <1>3

\* One step more.
LEMMA WayToMore ==
  ASSUME NEW s, NEW n \in Nat
  PROVE  WayTo(s, n + 1) = WayTo(s, n) \o Down(Last(WayTo(s, n)))
<1> DEFINE f == CHOOSE at : Goes(at, s, n)
<1> DEFINE g == CHOOSE at : Goes(at, s, n + 1)
<1>1. Goes(f, s, n) /\ Goes(g, s, n + 1)
  BY GoesExist
<1>2. WayTo(s, n) = f[n] /\ WayTo(s, n + 1) = g[n + 1]
  BY DEF WayTo
<1> HIDE DEF f, g
<1>3. \A k \in 0 .. n : f[k] = IF k = 0 THEN <<s>> ELSE f[k - 1] \o Down(Last(f[k - 1]))
  BY <1>1 DEF Goes
<1>4. \A k \in 0 .. n + 1 : g[k] = IF k = 0 THEN <<s>> ELSE g[k - 1] \o Down(Last(g[k - 1]))
  BY <1>1 DEF Goes
<1> DEFINE P == {k \in Nat : k <= n => g[k] = f[k]}
<1>5. 0 \in P
  BY <1>3, <1>4
<1>6. ASSUME NEW k \in Nat, k \in P PROVE k + 1 \in P
  <2> SUFFICES ASSUME k + 1 <= n PROVE g[k + 1] = f[k + 1]
    OBVIOUS
  <2>1. g[k] = f[k]
    BY <1>6
  <2>2. k + 1 \in 0 .. n /\ k + 1 \in 0 .. n + 1 /\ k + 1 # 0 /\ (k + 1) - 1 = k
    OBVIOUS
  <2>3. f[k + 1] = f[k] \o Down(Last(f[k])) /\ g[k + 1] = g[k] \o Down(Last(g[k]))
    BY <1>3, <1>4, <2>2
  <2> QED
    BY <2>1, <2>3
<1> HIDE DEF P
<1>7. n \in P
  BY <1>5, <1>6, NumberInduction
<1>8. g[n] = f[n]
  BY <1>7 DEF P
<1>9. g[n + 1] = g[n] \o Down(Last(g[n]))
  <2>1. n + 1 \in 0 .. n + 1 /\ n + 1 # 0 /\ (n + 1) - 1 = n
    OBVIOUS
  <2> QED
    BY <1>4, <2>1
<1> QED
  BY <1>2, <1>8, <1>9

\* The positions are a list that starts where the way starts.
LEMMA WayToSeq ==
  ASSUME NEW s
  PROVE  \A n \in Nat : IsSeq(WayTo(s, n)) /\ Len(WayTo(s, n)) # 0 /\ WayTo(s, n)[1] = s
<1> DEFINE P == {n \in Nat : IsSeq(WayTo(s, n)) /\ Len(WayTo(s, n)) # 0 /\ WayTo(s, n)[1] = s}
<1>1. 0 \in P
  BY WayToNone, TupleIs
<1>2. ASSUME NEW n \in Nat, n \in P PROVE n + 1 \in P
  <2> DEFINE w == WayTo(s, n)
  <2> DEFINE d == Down(Last(w))
  <2>1. WayTo(s, n + 1) = w \o d
    BY WayToMore
  <2>2. IsSeq(w) /\ Len(w) # 0 /\ w[1] = s
    BY <1>2
  <2>3. IsSeq(d)
    BY DownIs, TupleIs
  <2> HIDE DEF w, d
  <2>4. Len(w) \in Nat /\ Len(d) \in Nat
    BY <2>2, <2>3, LenIs
  <2>5. IsSeq(w \o d) /\ Len(w \o d) = Len(w) + Len(d) /\ \A i \in 1 .. Len(w) : (w \o d)[i] = w[i]
    BY <2>2, <2>3, Concat, Zenon
  <2>6. Len(w \o d) # 0 /\ (w \o d)[1] = s
    BY <2>2, <2>4, <2>5
  <2> DEFINE v == WayTo(s, n + 1)
  <2>7. v = w \o d
    BY <2>1
  <2> HIDE DEF v
  <2>8. IsSeq(v) /\ Len(v) # 0 /\ v[1] = s
    BY <2>5, <2>6, <2>7
  <2> QED
    BY <2>8 DEF v
<1> HIDE DEF P
<1>3. \A n \in Nat : n \in P
  BY <1>1, <1>2, NumberInduction
<1> QED
  BY <1>3 DEF P

\* The way goes through the next position, and from where it has ended nowhere.
LEMMA WayToNext ==
  ASSUME NEW s, NEW t, Down(s) = <<t>>
  PROVE  \A n \in Nat : WayTo(s, n + 1) = <<s>> \o WayTo(t, n)
<1> DEFINE P == {n \in Nat : WayTo(s, n + 1) = <<s>> \o WayTo(t, n)}
<1>1. 0 \in P
  <2>1. WayTo(s, 0 + 1) = WayTo(s, 0) \o Down(Last(WayTo(s, 0)))
    BY WayToMore
  <2>2. WayTo(s, 0) = <<s>> /\ Last(<<s>>) = s /\ WayTo(t, 0) = <<t>>
    BY WayToNone DEF Last
  <2> QED
    BY <2>1, <2>2
<1>2. ASSUME NEW n \in Nat, n \in P PROVE n + 1 \in P
  <2> DEFINE w == WayTo(t, n)
  <2> DEFINE d == Down(Last(w))
  <2> DEFINE v == WayTo(s, n + 1)
  <2> DEFINE o == <<s>>
  <2>1. WayTo(t, n + 1) = w \o d
    BY WayToMore
  <2>2. WayTo(s, (n + 1) + 1) = v \o Down(Last(v))
    <3>1. \A m \in Nat : WayTo(s, m + 1) = WayTo(s, m) \o Down(Last(WayTo(s, m)))
      BY WayToMore
    <3>2. n + 1 \in Nat
      OBVIOUS
    <3> QED
      BY <3>1, <3>2
  <2>3. v = o \o w
    BY <1>2
  <2>4. IsSeq(w) /\ Len(w) # 0 /\ IsSeq(d) /\ IsSeq(o)
    BY WayToSeq, DownIs, TupleIs
  <2> HIDE DEF w, v, o
  <2>5. Last(v) = Last(w)
    BY <2>3, <2>4, JoinLast
  <2>6. v \o Down(Last(v)) = (o \o w) \o d
    BY <2>3, <2>5
  <2> HIDE DEF d
  <2>7. (o \o w) \o d = o \o (w \o d)
    BY <2>4, JoinAssoc
  <2>8. WayTo(s, (n + 1) + 1) = o \o WayTo(t, n + 1)
    BY <2>1, <2>2, <2>6, <2>7
  <2> QED
    BY <2>8 DEF o
<1> HIDE DEF P
<1>3. \A n \in Nat : n \in P
  BY <1>1, <1>2, NumberInduction
<1> QED
  BY <1>3 DEF P

\* A way that has ended stays where it is.
LEMMA WayToEnd ==
  ASSUME NEW s, NEW n \in Nat, Down(Last(WayTo(s, n))) = <<>>
  PROVE  \A m \in Nat : WayTo(s, n + m) = WayTo(s, n)
<1> DEFINE P == {m \in Nat : WayTo(s, n + m) = WayTo(s, n)}
<1>1. 0 \in P
  OBVIOUS
<1>2. ASSUME NEW m \in Nat, m \in P PROVE m + 1 \in P
  <2>1. WayTo(s, n + m) = WayTo(s, n)
    BY <1>2
  <2>2. WayTo(s, (n + m) + 1) = WayTo(s, n + m) \o Down(Last(WayTo(s, n + m)))
    <3> DEFINE a == n + m
    <3>1. a \in Nat
      OBVIOUS
    <3> HIDE DEF a
    <3>2. WayTo(s, a + 1) = WayTo(s, a) \o Down(Last(WayTo(s, a)))
      BY <3>1, WayToMore
    <3> QED
      BY <3>2 DEF a
  <2>3. WayTo(s, n) \o <<>> = WayTo(s, n)
    BY WayToSeq, JoinNone
  <2>4. (n + m) + 1 = n + (m + 1)
    OBVIOUS
  <2>5. WayTo(s, n + (m + 1)) = WayTo(s, n)
    BY <2>1, <2>2, <2>3, <2>4
  <2> QED
    BY <2>5
<1> HIDE DEF P
<1>3. \A m \in Nat : m \in P
  BY <1>1, <1>2, NumberInduction
<1> QED
  BY <1>3 DEF P

----------------------------------------------------------------------------
(* The way back up.                                                        *)

\* insert along a way: from its end up to where it starts.
InsertUp(f, w, v, n) == f = [k \in 0 .. n |-> IF k = 0 THEN InsertHere(Last(w), v) ELSE Linked(w[Len(w) - k], f[k - 1])]

\* What the last of them gives.
InsertAlong(w, v) == (CHOOSE f : InsertUp(f, w, v, Len(w) - 1))[Len(w) - 1]

\* insert goes up along the way.
LEMMA InsertIs ==
  ASSUME NEW h, NEW key, NEW v
  PROVE  insert(h, key, v) = InsertAlong(Way(h, key), v)
  BY DEF insert, InsertAlong, InsertUp

\* The recursion has a solution.
LEMMA InsertUpExist ==
  ASSUME NEW w, NEW v
  PROVE  \A n \in Nat : \E f : InsertUp(f, w, v, n)
<1> DEFINE P == {n \in Nat : \E f : InsertUp(f, w, v, n)}
<1>1. 0 \in P
  <2> DEFINE f == [k \in 0 .. 0 |-> InsertHere(Last(w), v)]
  <2>1. InsertUp(f, w, v, 0)
    BY DEF InsertUp
  <2> QED
    BY <2>1
<1>2. ASSUME NEW n \in Nat, n \in P PROVE n + 1 \in P
  <2>1. PICK f : InsertUp(f, w, v, n)
    BY <1>2
  <2> DEFINE Value(h, k) == IF k = 0 THEN InsertHere(Last(w), v) ELSE Linked(w[Len(w) - k], h[k - 1])
  <2>2. \A k \in 0 .. n : f[k] = Value(f, k)
    BY <2>1 DEF InsertUp
  <2> DEFINE g == [k \in 0 .. n + 1 |-> IF k = n + 1 THEN Value(f, n + 1) ELSE f[k]]
  <2>3. ASSUME NEW k \in 0 .. n + 1 PROVE g[k] = Value(g, k)
    <3>1. k # 0 => k - 1 \in 0 .. n + 1 /\ k - 1 # n + 1
      OBVIOUS
    <3>2. k # 0 => g[k - 1] = f[k - 1]
      BY <3>1
    <3>3. g[k] = IF k = n + 1 THEN Value(f, n + 1) ELSE f[k]
      OBVIOUS
    <3>a. k # n + 1 => k \in 0 .. n
      OBVIOUS
    <3>4. k # n + 1 => f[k] = Value(f, k)
      BY <2>2, <3>a
    <3> HIDE DEF g
    <3>6. Value(g, k) = Value(f, k)
      BY <3>2
    <3> HIDE DEF Value
    <3>5. g[k] = Value(f, k)
      BY <3>3, <3>4
    <3> QED
      BY <3>5, <3>6
  <2>4. g = [k \in 0 .. n + 1 |-> g[k]]
    OBVIOUS
  <2> HIDE DEF g
  <2>5. g = [k \in 0 .. n + 1 |-> Value(g, k)]
    BY <2>3, <2>4
  <2>6. InsertUp(g, w, v, n + 1)
    BY <2>5 DEF InsertUp
  <2> QED
    BY <2>6
<1> HIDE DEF P
<1>3. \A n \in Nat : n \in P
  BY <1>1, <1>2, NumberInduction
<1> QED
  BY <1>3 DEF P

\* Each subtrie on the way up is linked to the one below.
LEMMA InsertAlongIs ==
  ASSUME NEW w, IsSeq(w), Len(w) # 0, NEW v
  PROVE  \E f : InsertUp(f, w, v, Len(w) - 1) /\ InsertAlong(w, v) = f[Len(w) - 1]
<1> DEFINE n == Len(w) - 1
<1>1. n \in Nat
  BY LenIs
<1>2. InsertAlong(w, v) = (CHOOSE f : InsertUp(f, w, v, n))[n]
  BY DEF InsertAlong
<1> HIDE DEF n
<1>3. \E f : InsertUp(f, w, v, n)
  BY <1>1, InsertUpExist
<1>4. \E f : InsertUp(f, w, v, n) /\ InsertAlong(w, v) = f[n]
  BY <1>2, <1>3
<1> QED
  BY <1>4 DEF n

\* A way of one position.
LEMMA InsertAlongOne ==
  ASSUME NEW s, NEW v
  PROVE  InsertAlong(<<s>>, v) = InsertHere(s, v)
<1> DEFINE w == <<s>>
<1>1. IsSeq(w) /\ Len(w) # 0 /\ Len(w) - 1 = 0 /\ Last(w) = s
  BY TupleIs DEF Last
<1> HIDE DEF w
<1>2. PICK f : InsertUp(f, w, v, Len(w) - 1) /\ InsertAlong(w, v) = f[Len(w) - 1]
  BY <1>1, InsertAlongIs
<1>3. f[0] = InsertHere(Last(w), v)
  BY <1>1, <1>2 DEF InsertUp
<1> QED
  BY <1>1, <1>2, <1>3 DEF w

\* A way with a position more in front.
LEMMA InsertAlongMore ==
  ASSUME NEW s, NEW w, IsSeq(w), Len(w) # 0, NEW v
  PROVE  InsertAlong(<<s>> \o w, v) = Linked(s, InsertAlong(w, v))
<1> DEFINE u == <<s>> \o w
<1>2. Len(w) \in Nat
  BY LenIs
<1>3. IsSeq(u) /\ Len(u) = Len(w) + 1 /\ u[1] = s /\ \A i \in 1 .. Len(w) : u[1 + i] = w[i]
  BY PutFirst
<1>4. Last(u) = Last(w)
  BY TupleIs, JoinLast
<1> HIDE DEF u
<1>5. Len(u) # 0
  BY <1>2, <1>3
<1> DEFINE n == Len(w) - 1
<1>6. n \in Nat /\ Len(w) = n + 1 /\ Len(u) - 1 = n + 1 /\ Len(u) = n + 2
  BY <1>2, <1>3
<1>7. PICK f : InsertUp(f, w, v, n) /\ InsertAlong(w, v) = f[n]
  BY InsertAlongIs
<1>8. PICK g : InsertUp(g, u, v, n + 1) /\ InsertAlong(u, v) = g[n + 1]
  <2>1. \E g : InsertUp(g, u, v, Len(u) - 1) /\ InsertAlong(u, v) = g[Len(u) - 1]
    BY <1>3, <1>5, InsertAlongIs
  <2> QED
    BY <1>6, <2>1
<1> HIDE DEF n
<1>9. \A k \in 0 .. n : f[k] = IF k = 0 THEN InsertHere(Last(w), v) ELSE Linked(w[Len(w) - k], f[k - 1])
  BY <1>7 DEF InsertUp
<1>10. \A k \in 0 .. n + 1 : g[k] = IF k = 0 THEN InsertHere(Last(u), v) ELSE Linked(u[Len(u) - k], g[k - 1])
  BY <1>8 DEF InsertUp
<1> DEFINE P == {k \in Nat : k <= n => g[k] = f[k]}
<1>11. 0 \in P
  BY <1>4, <1>6, <1>9, <1>10
<1>12. ASSUME NEW k \in Nat, k \in P PROVE k + 1 \in P
  <2> SUFFICES ASSUME k + 1 <= n PROVE g[k + 1] = f[k + 1]
    OBVIOUS
  <2>1. g[k] = f[k]
    BY <1>6, <1>12
  <2>2. k + 1 \in 0 .. n /\ k + 1 \in 0 .. n + 1 /\ k + 1 # 0 /\ (k + 1) - 1 = k
    BY <1>6
  <2> DEFINE j == Len(w) - (k + 1)
  <2>3. j \in 1 .. Len(w) /\ Len(u) - (k + 1) = 1 + j
    BY <1>6
  <2>4. f[k + 1] = Linked(w[j], f[k]) /\ g[k + 1] = Linked(u[1 + j], g[k])
    BY <1>9, <1>10, <2>2, <2>3
  <2> QED
    BY <1>3, <2>1, <2>3, <2>4
<1> HIDE DEF P
<1>13. n \in P
  BY <1>6, <1>11, <1>12, NumberInduction
<1>14. g[n] = f[n]
  BY <1>6, <1>13 DEF P
<1>15. g[n + 1] = Linked(u[1], g[n])
  <2>1. n + 1 \in 0 .. n + 1 /\ n + 1 # 0 /\ (n + 1) - 1 = n /\ Len(u) - (n + 1) = 1
    BY <1>6
  <2> QED
    BY <1>10, <2>1
<1> QED
  BY <1>3, <1>7, <1>8, <1>14, <1>15 DEF u

\* remove along a way: from its end up to where it starts.
RemoveUp(f, w, n) == f = [k \in 0 .. n |-> IF k = 0 THEN RemoveHere(Last(w)) ELSE Unlinked(w[Len(w) - k], f[k - 1])]

\* What the last of them gives.
RemoveAlong(w) == (CHOOSE f : RemoveUp(f, w, Len(w) - 1))[Len(w) - 1]

\* remove goes up along the way.
LEMMA RemoveIs ==
  ASSUME NEW h, NEW key
  PROVE  remove(h, key) = RemoveAlong(Way(h, key))
  BY DEF remove, RemoveAlong, RemoveUp

\* The recursion has a solution.
LEMMA RemoveUpExist ==
  ASSUME NEW w
  PROVE  \A n \in Nat : \E f : RemoveUp(f, w, n)
<1> DEFINE P == {n \in Nat : \E f : RemoveUp(f, w, n)}
<1>1. 0 \in P
  <2> DEFINE f == [k \in 0 .. 0 |-> RemoveHere(Last(w))]
  <2>1. RemoveUp(f, w, 0)
    BY DEF RemoveUp
  <2> QED
    BY <2>1
<1>2. ASSUME NEW n \in Nat, n \in P PROVE n + 1 \in P
  <2>1. PICK f : RemoveUp(f, w, n)
    BY <1>2
  <2> DEFINE Value(h, k) == IF k = 0 THEN RemoveHere(Last(w)) ELSE Unlinked(w[Len(w) - k], h[k - 1])
  <2>2. \A k \in 0 .. n : f[k] = Value(f, k)
    BY <2>1 DEF RemoveUp
  <2> DEFINE g == [k \in 0 .. n + 1 |-> IF k = n + 1 THEN Value(f, n + 1) ELSE f[k]]
  <2>3. ASSUME NEW k \in 0 .. n + 1 PROVE g[k] = Value(g, k)
    <3>1. k # 0 => k - 1 \in 0 .. n + 1 /\ k - 1 # n + 1
      OBVIOUS
    <3>2. k # 0 => g[k - 1] = f[k - 1]
      BY <3>1
    <3>3. g[k] = IF k = n + 1 THEN Value(f, n + 1) ELSE f[k]
      OBVIOUS
    <3>a. k # n + 1 => k \in 0 .. n
      OBVIOUS
    <3>4. k # n + 1 => f[k] = Value(f, k)
      BY <2>2, <3>a
    <3> HIDE DEF g
    <3>6. Value(g, k) = Value(f, k)
      BY <3>2
    <3> HIDE DEF Value
    <3>5. g[k] = Value(f, k)
      BY <3>3, <3>4
    <3> QED
      BY <3>5, <3>6
  <2>4. g = [k \in 0 .. n + 1 |-> g[k]]
    OBVIOUS
  <2> HIDE DEF g
  <2>5. g = [k \in 0 .. n + 1 |-> Value(g, k)]
    BY <2>3, <2>4
  <2>6. RemoveUp(g, w, n + 1)
    BY <2>5 DEF RemoveUp
  <2> QED
    BY <2>6
<1> HIDE DEF P
<1>3. \A n \in Nat : n \in P
  BY <1>1, <1>2, NumberInduction
<1> QED
  BY <1>3 DEF P

\* Each subtrie on the way up is what is left of it.
LEMMA RemoveAlongIs ==
  ASSUME NEW w, IsSeq(w), Len(w) # 0
  PROVE  \E f : RemoveUp(f, w, Len(w) - 1) /\ RemoveAlong(w) = f[Len(w) - 1]
<1> DEFINE n == Len(w) - 1
<1>1. n \in Nat
  BY LenIs
<1>2. RemoveAlong(w) = (CHOOSE f : RemoveUp(f, w, n))[n]
  BY DEF RemoveAlong
<1> HIDE DEF n
<1>3. \E f : RemoveUp(f, w, n)
  BY <1>1, RemoveUpExist
<1>4. \E f : RemoveUp(f, w, n) /\ RemoveAlong(w) = f[n]
  BY <1>2, <1>3
<1> QED
  BY <1>4 DEF n

\* A way of one position.
LEMMA RemoveAlongOne ==
  ASSUME NEW s
  PROVE  RemoveAlong(<<s>>) = RemoveHere(s)
<1> DEFINE w == <<s>>
<1>1. IsSeq(w) /\ Len(w) # 0 /\ Len(w) - 1 = 0 /\ Last(w) = s
  BY TupleIs DEF Last
<1> HIDE DEF w
<1>2. PICK f : RemoveUp(f, w, Len(w) - 1) /\ RemoveAlong(w) = f[Len(w) - 1]
  BY <1>1, RemoveAlongIs
<1>3. f[0] = RemoveHere(Last(w))
  BY <1>1, <1>2 DEF RemoveUp
<1> QED
  BY <1>1, <1>2, <1>3 DEF w

\* A way with a position more in front.
LEMMA RemoveAlongMore ==
  ASSUME NEW s, NEW w, IsSeq(w), Len(w) # 0
  PROVE  RemoveAlong(<<s>> \o w) = Unlinked(s, RemoveAlong(w))
<1> DEFINE u == <<s>> \o w
<1>2. Len(w) \in Nat
  BY LenIs
<1>3. IsSeq(u) /\ Len(u) = Len(w) + 1 /\ u[1] = s /\ \A i \in 1 .. Len(w) : u[1 + i] = w[i]
  BY PutFirst
<1>4. Last(u) = Last(w)
  BY TupleIs, JoinLast
<1> HIDE DEF u
<1>5. Len(u) # 0
  BY <1>2, <1>3
<1> DEFINE n == Len(w) - 1
<1>6. n \in Nat /\ Len(w) = n + 1 /\ Len(u) - 1 = n + 1 /\ Len(u) = n + 2
  BY <1>2, <1>3
<1>7. PICK f : RemoveUp(f, w, n) /\ RemoveAlong(w) = f[n]
  BY RemoveAlongIs
<1>8. PICK g : RemoveUp(g, u, n + 1) /\ RemoveAlong(u) = g[n + 1]
  <2>1. \E g : RemoveUp(g, u, Len(u) - 1) /\ RemoveAlong(u) = g[Len(u) - 1]
    BY <1>3, <1>5, RemoveAlongIs
  <2> QED
    BY <1>6, <2>1
<1> HIDE DEF n
<1>9. \A k \in 0 .. n : f[k] = IF k = 0 THEN RemoveHere(Last(w)) ELSE Unlinked(w[Len(w) - k], f[k - 1])
  BY <1>7 DEF RemoveUp
<1>10. \A k \in 0 .. n + 1 : g[k] = IF k = 0 THEN RemoveHere(Last(u)) ELSE Unlinked(u[Len(u) - k], g[k - 1])
  BY <1>8 DEF RemoveUp
<1> DEFINE P == {k \in Nat : k <= n => g[k] = f[k]}
<1>11. 0 \in P
  BY <1>4, <1>6, <1>9, <1>10
<1>12. ASSUME NEW k \in Nat, k \in P PROVE k + 1 \in P
  <2> SUFFICES ASSUME k + 1 <= n PROVE g[k + 1] = f[k + 1]
    OBVIOUS
  <2>1. g[k] = f[k]
    BY <1>6, <1>12
  <2>2. k + 1 \in 0 .. n /\ k + 1 \in 0 .. n + 1 /\ k + 1 # 0 /\ (k + 1) - 1 = k
    BY <1>6
  <2> DEFINE j == Len(w) - (k + 1)
  <2>3. j \in 1 .. Len(w) /\ Len(u) - (k + 1) = 1 + j
    BY <1>6
  <2>4. f[k + 1] = Unlinked(w[j], f[k]) /\ g[k + 1] = Unlinked(u[1 + j], g[k])
    BY <1>9, <1>10, <2>2, <2>3
  <2> QED
    BY <1>3, <2>1, <2>3, <2>4
<1> HIDE DEF P
<1>13. n \in P
  BY <1>6, <1>11, <1>12, NumberInduction
<1>14. g[n] = f[n]
  BY <1>6, <1>13 DEF P
<1>15. g[n + 1] = Unlinked(u[1], g[n])
  <2>1. n + 1 \in 0 .. n + 1 /\ n + 1 # 0 /\ (n + 1) - 1 = n /\ Len(u) - (n + 1) = 1
    BY <1>6
  <2> QED
    BY <1>10, <2>1
<1> QED
  BY <1>3, <1>7, <1>8, <1>14, <1>15 DEF u

----------------------------------------------------------------------------
(* One step of the way.                                                    *)

\* A position, and that the way from there has an end.
At(h, key) == [h |-> h, key |-> key]

\* The way to a key has an end.
Ends(h, key) == Down(Last(Way(h, key))) = <<>>

\* The operations where the way ends at once, and where it goes on to another position.
Stays(h, key) ==
    /\ Way(h, key) = <<At(h, key)>>
    /\ get_at(h, key) = Found(At(h, key))
    /\ \A v : insert(h, key, v) = InsertHere(At(h, key), v)
    /\ remove(h, key) = RemoveHere(At(h, key))

\* The operations go on to a subtrie with the rest of the key.
Passes(h, key, g, rest) ==
    /\ Way(h, key) = <<At(h, key)>> \o Way(g, rest)
    /\ get_at(h, key) = get_at(g, rest)
    /\ \A v : insert(h, key, v) = Linked(At(h, key), insert(g, rest, v))
    /\ remove(h, key) = Unlinked(At(h, key), remove(g, rest))

\* Where the way ends at once.
LEMMA UnfoldEnd ==
  ASSUME NEW h, NEW key, Len(key) \in Nat, Down(At(h, key)) = <<>>
  PROVE  Ends(h, key) /\ Stays(h, key)
<1> DEFINE s == At(h, key)
<1>1. WayTo(s, 0) = <<s>> /\ Last(<<s>>) = s
  BY WayToNone DEF Last
<1>2. Down(Last(WayTo(s, 0))) = <<>>
  BY <1>1
<1>3. Way(h, key) = WayTo(s, Len(key))
  BY WayIs DEF At
<1> HIDE DEF s
<1>4. WayTo(s, 0 + Len(key)) = WayTo(s, 0)
  BY <1>2, WayToEnd
<1>5. Way(h, key) = <<s>>
  BY <1>1, <1>3, <1>4
<1>6. get_at(h, key) = Found(s) /\ Ends(h, key)
  BY <1>1, <1>5 DEF get_at, Ends, s
<1>7. \A v : insert(h, key, v) = InsertHere(s, v)
  BY <1>5, InsertIs, InsertAlongOne
<1>8. remove(h, key) = RemoveHere(s)
  BY <1>5, RemoveIs, RemoveAlongOne
<1> QED
  BY <1>5, <1>6, <1>7, <1>8 DEF s, Stays

\* Where it goes on.
LEMMA UnfoldDown ==
  ASSUME NEW h, NEW key, NEW g, NEW rest, Len(key) \in Nat, Len(rest) \in Nat,
         Len(rest) < Len(key), Down(At(h, key)) = <<At(g, rest)>>, Ends(g, rest)
  PROVE  Ends(h, key) /\ Passes(h, key, g, rest)
<1> DEFINE s == At(h, key)
<1> DEFINE t == At(g, rest)
<1> DEFINE w == Way(g, rest)
<1>1. Way(h, key) = WayTo(s, Len(key)) /\ w = WayTo(t, Len(rest))
  BY WayIs DEF At
<1>2. Down(s) = <<t>>
  OBVIOUS
<1>3. Down(Last(w)) = <<>>
  BY DEF Ends
<1> HIDE DEF s, t, w
<1> DEFINE m == Len(key) - 1 - Len(rest)
<1>4. m \in Nat /\ Len(rest) + m \in Nat /\ Len(key) = (Len(rest) + m) + 1
  OBVIOUS
<1> HIDE DEF m
<1>5. WayTo(t, Len(rest) + m) = w
  BY <1>1, <1>3, <1>4, WayToEnd
<1>6. WayTo(s, (Len(rest) + m) + 1) = <<s>> \o WayTo(t, Len(rest) + m)
  BY <1>2, <1>4, WayToNext
<1>7. Way(h, key) = <<s>> \o w
  BY <1>1, <1>4, <1>5, <1>6
<1>8. IsSeq(w) /\ Len(w) # 0
  BY <1>1, WayToSeq
<1>9. Last(<<s>> \o w) = Last(w)
  BY <1>8, TupleIs, JoinLast
<1>10. Ends(h, key) /\ get_at(h, key) = get_at(g, rest)
  BY <1>3, <1>7, <1>9 DEF Ends, get_at, w
<1>11. \A v : insert(h, key, v) = Linked(s, insert(g, rest, v))
  <2> SUFFICES ASSUME NEW v PROVE insert(h, key, v) = Linked(s, insert(g, rest, v))
    OBVIOUS
  <2>1. insert(h, key, v) = InsertAlong(<<s>> \o w, v)
    BY <1>7, InsertIs
  <2>2. insert(g, rest, v) = InsertAlong(w, v)
    BY InsertIs DEF w
  <2> QED
    BY <1>8, <2>1, <2>2, InsertAlongMore
<1>12. remove(h, key) = Unlinked(s, remove(g, rest))
  BY <1>7, <1>8, RemoveIs, RemoveAlongMore DEF w
<1> QED
  BY <1>7, <1>10, <1>11, <1>12 DEF s, w, Passes

----------------------------------------------------------------------------
(* The way down the reference trie.                                        *)

\* The parts of a position.
LEMMA AtIs == ASSUME NEW h, NEW key PROVE At(h, key).h = h /\ At(h, key).key = key
  BY DEF At

\* A lookup from each kind of node.
LEMMA DownEmpty ==
  ASSUME NEW k
  PROVE  Down(At(EmptyRoot, k)) = <<>>
<1>1. deserialize_node(At(EmptyRoot, k).h) = [kind |-> "Empty"]
  BY AtIs, EmptyNode DEF Empty
<1> QED
  BY <1>1 DEF Down, Absent

\* A leaf leads nowhere.
LEMMA DownLeaf ==
  ASSUME NEW p \in Paths, NEW v, NEW k
  PROVE  Down(At(LeafHash(p, v), k)) = <<>>
<1>1. deserialize_node(At(LeafHash(p, v), k).h) = [kind |-> "Leaf", path |-> p, value |-> v]
  BY AtIs, LeafNode DEF leaf
<1> QED
  BY <1>1 DEF Down, Absent

\* An extension leads on if the key starts with its path.
LEMMA DownExt ==
  ASSUME NEW p \in Paths, NEW g, NEW k \in Paths
  PROVE  /\ \A r \in Paths : k = Cat(p, r) => Down(At(ExtHash(p, g), k)) = <<At(g, r)>>
         /\ (\A r \in Paths : k # Cat(p, r)) => Down(At(ExtHash(p, g), k)) = <<>>
<1> DEFINE s == At(ExtHash(p, g), k)
<1> DEFINE n == deserialize_node(s.h)
<1>1. n = [kind |-> "Extension", path |-> p, next |-> g] /\ s.key = k
  BY AtIs, ExtNode DEF extension
<1>2. n.kind = "Extension" /\ n.path = p /\ n.next = g
  BY <1>1
<1> HIDE DEF s
<1>3. ASSUME NEW r \in Paths, k = Cat(p, r) PROVE Down(s) = <<At(g, r)>>
  <2>1. StartsWith(k, p)
    BY <1>3, PrefixIs DEF StartsWith
  <2>2. From(k, Len(p) + 1) = r
    BY <1>3, FrontRest
  <2>3. Down(s) = Some([h |-> n.next, key |-> From(s.key, Len(n.path) + 1)])
    BY <1>1, <1>2, <2>1 DEF Down
  <2> QED
    BY <1>1, <1>2, <2>2, <2>3 DEF Some, At
<1>4. ASSUME \A r \in Paths : k # Cat(p, r) PROVE Down(s) = <<>>
  <2>1. ~StartsWith(k, p)
    BY <1>4, PrefixIs DEF StartsWith
  <2> QED
    BY <1>1, <1>2, <2>1 DEF Down, Absent
<1> QED
  BY <1>3, <1>4 DEF s

\* A branch leads on if it has the key's first nibble.
LEMMA DownBranch ==
  ASSUME NEW c, NEW v, NEW k
  PROVE  /\ k = <<>> \/ c[k[1]] = Absent => Down(At(BranchHash(c, v), k)) = <<>>
         /\ \A g : k # <<>> /\ c[k[1]] = Some(g) => Down(At(BranchHash(c, v), k)) = <<At(g, Tail(k))>>
<1> DEFINE s == At(BranchHash(c, v), k)
<1> DEFINE n == deserialize_node(s.h)
<1>1. n = [kind |-> "Branch", children |-> c, value |-> v] /\ s.key = k
  BY AtIs, BranchNode DEF branch
<1>2. n.kind = "Branch" /\ n.children = c
  BY <1>1
<1> HIDE DEF s
<1>3. ASSUME k = <<>> \/ c[k[1]] = Absent PROVE Down(s) = <<>>
  <2>1. n.kind # "Extension" /\ ~(s.key # <<>> /\ n.children[s.key[1]] # Absent)
    BY <1>1, <1>2, <1>3
  <2> QED
    BY <2>1 DEF Down, Absent
<1>4. ASSUME NEW g, k # <<>>, c[k[1]] = Some(g) PROVE Down(s) = <<At(g, Tail(k))>>
  <2>1. n.kind # "Extension" /\ s.key # <<>> /\ n.children[s.key[1]] = <<g>> /\ <<g>> # Absent
    BY <1>1, <1>2, <1>4 DEF Some, Absent
  <2>2. Down(s) = Some([h |-> n.children[s.key[1]][1], key |-> Tail(s.key)])
    BY <1>2, <2>1 DEF Down
  <2> QED
    BY <1>1, <2>1, <2>2 DEF Some, At
<1> QED
  BY <1>3, <1>4 DEF s

\* The subtrie of a nibble.
LEMMA KidsIs ==
  ASSUME NEW C, NEW n \in Nibbles
  PROVE  /\ DOMAIN Under(C, One(n)) = {} => Kids(C)[n] = Absent
         /\ DOMAIN Under(C, One(n)) # {} => Kids(C)[n] = Some(TrieOf(Under(C, One(n))))
  BY DEF Kids, Kid

\* From a branch and from an extension.
LEMMA TrieDownBranch ==
  ASSUME NEW C, IsContent(C), Wide(C), NEW k \in Paths
  PROVE  /\ k = <<>> => Down(At(TrieOf(C), k)) = <<>>
         /\ k # <<>> /\ DOMAIN Under(C, One(k[1])) = {} => Down(At(TrieOf(C), k)) = <<>>
         /\ k # <<>> /\ DOMAIN Under(C, One(k[1])) # {} =>
              Down(At(TrieOf(C), k)) = <<At(TrieOf(Under(C, One(k[1]))), Tail(k))>>
<1>1. TrieOf(C) = BranchHash(Kids(C), Lookup(C, <<>>))
  BY TrieBranch
<1>2. k # <<>> => k[1] \in Nibbles
  BY FirstNibble
<1> QED
  BY <1>1, <1>2, KidsIs, DownBranch

\* From a trie whose paths share a front.
LEMMA TrieDownExt ==
  ASSUME NEW C, IsContent(C), NEW c \in Paths, c # <<>>, Fronts(c, DOMAIN C), Wide(Under(C, c)),
         NEW k \in Paths
  PROVE  /\ \A r \in Paths : k = Cat(c, r) => Down(At(TrieOf(C), k)) = <<At(TrieOf(Under(C, c)), r)>>
         /\ (\A r \in Paths : k # Cat(c, r)) => Down(At(TrieOf(C), k)) = <<>>
<1>1. TrieOf(C) = ExtHash(c, TrieOf(Under(C, c)))
  BY TrieExtension
<1> QED
  BY <1>1, DownExt

\* Every way ends.
LEMMA TrieEnds ==
  ASSUME NEW C, IsContent(C), NEW k \in Paths
  PROVE  Ends(TrieOf(C), k)
<1> DEFINE P == {n \in Nat : \A D, j : IsContent(D) /\ j \in Paths /\ Len(j) < n => Ends(TrieOf(D), j)}
<1>1. 0 \in P
  BY PathIs
<1>2. ASSUME NEW n \in Nat, n \in P PROVE n + 1 \in P
  <2> SUFFICES ASSUME NEW D, NEW j, IsContent(D), j \in Paths, Len(j) < n + 1 PROVE Ends(TrieOf(D), j)
    OBVIOUS
  <2>1. \A E, i : IsContent(E) /\ i \in Paths /\ Len(i) < n => Ends(TrieOf(E), i)
    BY <1>2
  <2> HIDE DEF P
  <2>2. Len(j) \in Nat
    BY PathIs
  <2>3. ASSUME Down(At(TrieOf(D), j)) = <<>> PROVE Ends(TrieOf(D), j)
    BY <2>2, <2>3, UnfoldEnd
  <2>4. ASSUME NEW E, NEW i \in Paths, IsContent(E), Len(i) < Len(j),
               Down(At(TrieOf(D), j)) = <<At(TrieOf(E), i)>>
        PROVE  Ends(TrieOf(D), j)
    <3>1. Len(i) \in Nat
      BY PathIs
    <3>2. Ends(TrieOf(E), i)
      BY <2>1, <2>2, <2>4, <3>1
    <3> QED
      BY <2>2, <2>4, <3>1, <3>2, UnfoldDown
  <2>5. CASE DOMAIN D = {}
    BY <2>3, <2>5, TrieNone, DownEmpty
  <2>6. CASE \E i \in Paths : DOMAIN D = {i}
    <3>1. PICK i \in Paths : DOMAIN D = {i}
      BY <2>6
    <3>2. TrieOf(D) = LeafHash(i, D[i])
      BY <3>1, TrieLeaf
    <3> QED
      BY <2>3, <3>2, DownLeaf
  <2>7. CASE Wide(D)
    <3>1. CASE j # <<>> /\ DOMAIN Under(D, One(j[1])) # {}
      <4>1. j[1] \in Nibbles /\ Tail(j) \in Paths /\ Len(Tail(j)) = Len(j) - 1
        BY <3>1, FirstNibble
      <4>2. IsContent(Under(D, One(j[1])))
        BY <4>1, OnePath, UnderIs
      <4>3. Down(At(TrieOf(D), j)) = <<At(TrieOf(Under(D, One(j[1]))), Tail(j))>>
        BY <2>7, <3>1, TrieDownBranch
      <4>4. Len(Tail(j)) < Len(j)
        BY <2>2, <4>1
      <4> HIDE DEF P
      <4> QED
        BY <2>4, <4>1, <4>2, <4>3, <4>4, Zenon
    <3>2. CASE ~(j # <<>> /\ DOMAIN Under(D, One(j[1])) # {})
      BY <2>3, <2>7, <3>2, TrieDownBranch
    <3> QED
      BY <3>1, <3>2
  <2>8. CASE \E c \in Paths : c # <<>> /\ Fronts(c, DOMAIN D) /\ Wide(Under(D, c))
    <3>1. PICK c \in Paths : c # <<>> /\ Fronts(c, DOMAIN D) /\ Wide(Under(D, c))
      BY <2>8
    <3>2. CASE \E r \in Paths : j = Cat(c, r)
      <4>1. PICK r \in Paths : j = Cat(c, r)
        BY <3>2
      <4>2. Len(j) = Len(c) + Len(r)
        BY <4>1, CatIs, Zenon
      <4>3. Len(c) \in Nat /\ Len(r) \in Nat
        BY PathIs, Zenon
      <4>4. Len(r) < Len(j)
        BY <3>1, <4>2, <4>3, NoPath
      <4>5. IsContent(Under(D, c))
        BY UnderIs
      <4>6. Down(At(TrieOf(D), j)) = <<At(TrieOf(Under(D, c)), r)>>
        BY <3>1, <4>1, TrieDownExt
      <4> QED
        BY <2>4, <4>4, <4>5, <4>6
    <3>3. CASE ~\E r \in Paths : j = Cat(c, r)
      BY <2>3, <3>1, <3>3, TrieDownExt
    <3> QED
      BY <3>2, <3>3
  <2> QED
    BY <2>5, <2>6, <2>7, <2>8, TrieCases
<1>3. \A n \in Nat : n \in P
  <2> HIDE DEF P
  <2> QED
    BY <1>1, <1>2, NumberInduction
<1>4. Len(k) \in Nat /\ Len(k) + 1 \in Nat /\ Len(k) < Len(k) + 1
  BY PathIs
<1>5. Len(k) + 1 \in P
  BY <1>3, <1>4
<1> QED
  BY <1>4, <1>5

\* The operations where the way goes on from a branch, and from an extension.
LEMMA OnBranch ==
  ASSUME NEW C, IsContent(C), Wide(C), NEW k \in Paths, k # <<>>,
         NEW U, U = Under(C, One(k[1])), DOMAIN U # {}
  PROVE  Passes(TrieOf(C), k, TrieOf(U), Tail(k))
<1>1. k[1] \in Nibbles /\ Tail(k) \in Paths /\ Len(Tail(k)) = Len(k) - 1
  BY FirstNibble
<1>2. IsContent(U)
  BY <1>1, OnePath, UnderIs
<1>3. Down(At(TrieOf(C), k)) = <<At(TrieOf(U), Tail(k))>>
  BY TrieDownBranch
<1>4. Len(k) \in Nat /\ Len(Tail(k)) \in Nat
  BY <1>1, PathIs
<1>5. Len(Tail(k)) < Len(k)
  BY <1>1, <1>4
<1>6. Ends(TrieOf(U), Tail(k))
  BY <1>1, <1>2, TrieEnds
<1> QED
  BY <1>3, <1>4, <1>5, <1>6, UnfoldDown

\* The operations go on below the front that all paths share.
LEMMA OnExt ==
  ASSUME NEW C, IsContent(C), NEW c \in Paths, c # <<>>, Fronts(c, DOMAIN C),
         NEW U, U = Under(C, c), Wide(U), NEW r \in Paths, NEW k, k = Cat(c, r)
  PROVE  Len(r) < Len(k) /\ Passes(TrieOf(C), k, TrieOf(U), r)
<1>1. Len(k) = Len(c) + Len(r)
  BY CatIs, Zenon
<1>2. Len(c) \in Nat /\ Len(r) \in Nat
  BY PathIs, Zenon
<1>3. Len(r) < Len(k) /\ Len(k) \in Nat
  BY <1>1, <1>2, NoPath
<1>4. IsContent(U) /\ k \in Paths
  BY UnderIs, CatPath
<1>5. Down(At(TrieOf(C), k)) = <<At(TrieOf(U), r)>>
  BY <1>4, TrieDownExt
<1>6. Ends(TrieOf(U), r)
  BY <1>4, TrieEnds
<1> QED
  BY <1>2, <1>3, <1>5, <1>6, UnfoldDown

\* Where it ends.
LEMMA OnEnd ==
  ASSUME NEW h, NEW k \in Paths, Down(At(h, k)) = <<>>
  PROVE  Stays(h, k)
<1>1. Len(k) \in Nat
  BY PathIs
<1> QED
  BY <1>1, UnfoldEnd

----------------------------------------------------------------------------
(* Lookup.                                                                 *)

\* What is found at the end, by the kind of node.
LEMMA FoundIs ==
  /\ \A k : Found(At(EmptyRoot, k)) = Absent
  /\ \A p \in Paths : \A v, k : Found(At(LeafHash(p, v), k)) = IF p = k THEN Some(v) ELSE Absent
  /\ \A p \in Paths : \A h, k : Found(At(ExtHash(p, h), k)) = Absent
  /\ \A c, v, k : Found(At(BranchHash(c, v), k)) = IF k = <<>> THEN v ELSE Absent
<1>1. ASSUME NEW k PROVE Found(At(EmptyRoot, k)) = Absent
  <2>1. deserialize_node(At(EmptyRoot, k).h) = [kind |-> "Empty"]
    BY AtIs, EmptyNode DEF Empty
  <2> QED
    BY <2>1 DEF Found
<1>2. ASSUME NEW p \in Paths, NEW v, NEW k
      PROVE  Found(At(LeafHash(p, v), k)) = IF p = k THEN Some(v) ELSE Absent
  <2> DEFINE s == At(LeafHash(p, v), k)
  <2>1. deserialize_node(s.h) = [kind |-> "Leaf", path |-> p, value |-> v] /\ s.key = k
    BY AtIs, LeafNode DEF leaf
  <2> HIDE DEF s
  <2>2. Found(s) = IF p = k THEN Some(v) ELSE Absent
    BY <2>1 DEF Found
  <2> QED
    BY <2>2 DEF s
<1>3. ASSUME NEW p \in Paths, NEW h, NEW k PROVE Found(At(ExtHash(p, h), k)) = Absent
  <2>1. deserialize_node(At(ExtHash(p, h), k).h) = [kind |-> "Extension", path |-> p, next |-> h]
    BY AtIs, ExtNode DEF extension
  <2> QED
    BY <2>1 DEF Found
<1>4. ASSUME NEW c, NEW v, NEW k PROVE Found(At(BranchHash(c, v), k)) = IF k = <<>> THEN v ELSE Absent
  <2> DEFINE s == At(BranchHash(c, v), k)
  <2>1. deserialize_node(s.h) = [kind |-> "Branch", children |-> c, value |-> v] /\ s.key = k
    BY AtIs, BranchNode DEF branch
  <2> HIDE DEF s
  <2>2. Found(s) = IF k = <<>> THEN v ELSE Absent
    BY <2>1 DEF Found
  <2> QED
    BY <2>2 DEF s
<1> QED
  BY <1>1, <1>2, <1>3, <1>4

\* What is found under a prefix.
LEMMA LookupUnder ==
  ASSUME NEW C, IsContent(C), NEW q \in Paths, NEW r \in Paths
  PROVE  Lookup(Under(C, q), r) = Lookup(C, Cat(q, r))
<1> DEFINE U == Under(C, q)
<1>1. r \in DOMAIN U <=> Cat(q, r) \in DOMAIN C
  BY UnderIs, Zenon
<1>2. r \in DOMAIN U => U[r] = C[Cat(q, r)]
  BY UnderIs, Zenon
<1> HIDE DEF U
<1>3. Lookup(U, r) = Lookup(C, Cat(q, r))
  BY <1>1, <1>2 DEF Lookup
<1> QED
  BY <1>3 DEF U

\* A lookup finds what the content has under the key.
LEMMA TrieGet ==
  ASSUME NEW C, IsContent(C), NEW k \in Paths
  PROVE  get_at(TrieOf(C), k) = Lookup(C, k)
<1> DEFINE P == {n \in Nat : \A D, j : IsContent(D) /\ j \in Paths /\ Len(j) < n =>
                                         get_at(TrieOf(D), j) = Lookup(D, j)}
<1>1. 0 \in P
  BY PathIs
<1>2. ASSUME NEW n \in Nat, n \in P PROVE n + 1 \in P
  <2> SUFFICES ASSUME NEW D, NEW j, IsContent(D), j \in Paths, Len(j) < n + 1
               PROVE  get_at(TrieOf(D), j) = Lookup(D, j)
    OBVIOUS
  <2>1. \A E, i : IsContent(E) /\ i \in Paths /\ Len(i) < n => get_at(TrieOf(E), i) = Lookup(E, i)
    BY <1>2
  <2> HIDE DEF P
  <2>2. Len(j) \in Nat
    BY PathIs
  <2>3. ASSUME NEW E, NEW i \in Paths, IsContent(E), Len(i) < Len(j)
        PROVE  get_at(TrieOf(E), i) = Lookup(E, i)
    <3>1. Len(i) \in Nat
      BY PathIs
    <3> QED
      BY <2>1, <2>2, <2>3, <3>1
  <2>5. CASE DOMAIN D = {}
    <3>1. TrieOf(D) = EmptyRoot
      BY <2>5, TrieNone
    <3>2. get_at(EmptyRoot, j) = Absent
      BY DownEmpty, OnEnd, FoundIs DEF Stays
    <3> QED
      BY <2>5, <3>1, <3>2 DEF Lookup
  <2>6. CASE \E i \in Paths : DOMAIN D = {i}
    <3>1. PICK i \in Paths : DOMAIN D = {i}
      BY <2>6
    <3>2. TrieOf(D) = LeafHash(i, D[i])
      BY <3>1, TrieLeaf
    <3>3. get_at(TrieOf(D), j) = Found(At(LeafHash(i, D[i]), j))
      BY <3>2, DownLeaf, OnEnd DEF Stays
    <3>4. Found(At(LeafHash(i, D[i]), j)) = IF i = j THEN Some(D[i]) ELSE Absent
      BY FoundIs
    <3> QED
      BY <3>1, <3>3, <3>4 DEF Lookup
  <2>7. CASE Wide(D)
    <3>0. TrieOf(D) = BranchHash(Kids(D), Lookup(D, <<>>))
      BY <2>7, TrieBranch
    <3>1. CASE j # <<>> /\ DOMAIN Under(D, One(j[1])) # {}
      <4> DEFINE U == Under(D, One(j[1]))
      <4>1. /\ j[1] \in Nibbles /\ Tail(j) \in Paths /\ Len(Tail(j)) = Len(j) - 1
            /\ j = Cat(One(j[1]), Tail(j))
        BY <3>1, FirstNibble
      <4>2. IsContent(U)
        BY <4>1, OnePath, UnderIs
      <4>3. get_at(TrieOf(D), j) = get_at(TrieOf(U), Tail(j))
        BY <2>7, <3>1, OnBranch DEF Passes
      <4>4. Len(Tail(j)) < Len(j)
        BY <2>2, <4>1
      <4>5. Lookup(U, Tail(j)) = Lookup(D, j)
        BY <4>1, OnePath, LookupUnder
      <4> HIDE DEF U
      <4>6. get_at(TrieOf(U), Tail(j)) = Lookup(U, Tail(j))
        BY <2>3, <4>1, <4>2, <4>4, Zenon
      <4> QED
        BY <4>3, <4>5, <4>6
    <3>2. CASE j = <<>>
      <4>1. get_at(TrieOf(D), j) = Found(At(TrieOf(D), j))
        BY <2>7, <3>2, TrieDownBranch, OnEnd DEF Stays
      <4> QED
        BY <3>0, <3>2, <4>1, FoundIs
    <3>3. CASE j # <<>> /\ DOMAIN Under(D, One(j[1])) = {}
      <4>1. get_at(TrieOf(D), j) = Found(At(TrieOf(D), j))
        BY <2>7, <3>3, TrieDownBranch, OnEnd DEF Stays
      <4>2. Found(At(TrieOf(D), j)) = Absent
        BY <3>0, <3>3, FoundIs
      <4>3. j[1] \in Nibbles /\ Tail(j) \in Paths /\ j = Cat(One(j[1]), Tail(j))
        BY <3>3, FirstNibble
      <4>4. Lookup(Under(D, One(j[1])), Tail(j)) = Lookup(D, j)
        BY <4>3, OnePath, LookupUnder
      <4>5. Lookup(Under(D, One(j[1])), Tail(j)) = Absent
        BY <3>3 DEF Lookup
      <4> QED
        BY <4>1, <4>2, <4>4, <4>5
    <3> QED
      BY <3>1, <3>2, <3>3
  <2>8. CASE \E c \in Paths : c # <<>> /\ Fronts(c, DOMAIN D) /\ Wide(Under(D, c))
    <3>1. PICK c \in Paths : c # <<>> /\ Fronts(c, DOMAIN D) /\ Wide(Under(D, c))
      BY <2>8
    <3>2. CASE \E r \in Paths : j = Cat(c, r)
      <4>1. PICK r \in Paths : j = Cat(c, r)
        BY <3>2
      <4>5. Len(r) < Len(j) /\ Passes(TrieOf(D), j, TrieOf(Under(D, c)), r)
        BY <3>1, <4>1, OnExt, Zenon
      <4>2. Len(r) < Len(j) /\ get_at(TrieOf(D), j) = get_at(TrieOf(Under(D, c)), r)
        BY <4>5 DEF Passes
      <4>3. IsContent(Under(D, c))
        BY UnderIs
      <4>4. get_at(TrieOf(Under(D, c)), r) = Lookup(Under(D, c), r)
        BY <2>3, <4>2, <4>3
      <4> QED
        BY <4>1, <4>2, <4>4, LookupUnder
    <3>3. CASE ~\E r \in Paths : j = Cat(c, r)
      <4>1. get_at(TrieOf(D), j) = Found(At(TrieOf(D), j))
        BY <3>1, <3>3, TrieDownExt, OnEnd DEF Stays
      <4>2. TrieOf(D) = ExtHash(c, TrieOf(Under(D, c)))
        BY <3>1, TrieExtension
      <4>3. Found(At(TrieOf(D), j)) = Absent
        BY <4>2, FoundIs
      <4>4. j \notin DOMAIN D
        BY <3>1, <3>3 DEF Fronts
      <4> QED
        BY <4>1, <4>3, <4>4 DEF Lookup
    <3> QED
      BY <3>2, <3>3
  <2> QED
    BY <2>5, <2>6, <2>7, <2>8, TrieCases
<1>3. \A n \in Nat : n \in P
  <2> HIDE DEF P
  <2> QED
    BY <1>1, <1>2, NumberInduction
<1>4. Len(k) \in Nat /\ Len(k) + 1 \in Nat /\ Len(k) < Len(k) + 1
  BY PathIs
<1>5. Len(k) + 1 \in P
  BY <1>3, <1>4
<1> QED
  BY <1>4, <1>5

----------------------------------------------------------------------------
(* Insertion.                                                              *)

\* A branch, below what all paths share.
LEMMA TrieFront ==
  ASSUME NEW C, IsContent(C), NEW c \in Paths, Fronts(c, DOMAIN C), NEW U, U = Under(C, c), Wide(U)
  PROVE  TrieOf(C) = Prefixed(c, BranchHash(Kids(U), Lookup(U, <<>>)))
<1>1. IsContent(U)
  BY UnderIs
<1>2. TrieOf(U) = BranchHash(Kids(U), Lookup(U, <<>>))
  BY <1>1, TrieBranch
<1>3. CASE c = <<>>
  <2>1. U = C
    BY <1>3, UnderAll
  <2> QED
    BY <1>2, <1>3, <2>1 DEF Prefixed
<1>4. CASE c # <<>>
  <2>1. TrieOf(C) = ExtHash(c, TrieOf(U))
    BY <1>4, TrieExtension
  <2> QED
    BY <1>2, <1>4, <2>1 DEF Prefixed, ExtHash
<1> QED
  BY <1>3, <1>4

\* A branch stays one when a path is added.
LEMMA WideWith ==
  ASSUME NEW C, IsContent(C), NEW k \in Paths, NEW v, Wide(C)
  PROVE  Wide(With(C, k, v))
<1>1. DOMAIN With(C, k, v) = DOMAIN C \cup {k}
  BY WithIs, Zenon
<1> QED
  BY <1>1 DEF Wide

\* The subtries under a branch after a change under one nibble.
LEMMA KidsWith ==
  ASSUME NEW C, IsContent(C), NEW n \in Nibbles, NEW r \in Paths, NEW k, k = Cat(One(n), r), NEW v
  PROVE  /\ Kids(With(C, k, v))
              = [Kids(C) EXCEPT ![n] = Some(TrieOf(With(Under(C, One(n)), r, v)))]
         /\ Lookup(With(C, k, v), <<>>) = Lookup(C, <<>>)
<1> DEFINE W == With(C, k, v)
<1> DEFINE U == Under(C, One(n))
<1>1. One(n) \in Paths /\ k \in Paths /\ k # <<>> /\ k[1] = n
  BY OnePath, OneCat
<1>2. Under(W, One(n)) = With(U, r, v)
  BY <1>1, UnderWith
<1>3. DOMAIN With(U, r, v) # {}
  BY DEF With
<1>4. Kid(W, One(n)) = Some(TrieOf(With(U, r, v)))
  BY <1>2, <1>3 DEF Kid
<1>5. ASSUME NEW m \in Nibbles, m # n PROVE Kid(W, One(m)) = Kid(C, One(m))
  <2>1. One(m) \in Paths /\ \A s \in Paths : k # Cat(One(m), s)
    BY <1>1, <1>5, OnePath, OneCat
  <2>2. Under(W, One(m)) = Under(C, One(m))
    BY <1>1, <2>1, UnderOther
  <2> QED
    BY <2>2 DEF Kid
<1>6. DOMAIN W = DOMAIN C \cup {k} /\ \A j \in DOMAIN C : j # k => W[j] = C[j]
  BY <1>1, WithIs, Zenon
<1> DEFINE e == <<>>
<1>7. e # k
  BY <1>1
<1> DEFINE h == Some(TrieOf(With(U, r, v)))
<1> HIDE DEF W, U, e, h
<1>8. Lookup(W, e) = Lookup(C, e)
  BY <1>6, <1>7 DEF Lookup
<1>9. Kids(W) = [Kids(C) EXCEPT ![n] = h]
  BY <1>4, <1>5 DEF Kids, h
<1> QED
  BY <1>8, <1>9 DEF W, U, e, h

\* A branch with a path added under a nibble.
LEMMA BranchWith ==
  ASSUME NEW C, IsContent(C), Wide(C), NEW k \in Paths, k # <<>>, NEW v
  PROVE  TrieOf(With(C, k, v))
           = BranchHash([Kids(C) EXCEPT ![k[1]] = Some(TrieOf(With(Under(C, One(k[1])), Tail(k), v)))],
                        Lookup(C, <<>>))
<1> DEFINE W == With(C, k, v)
<1>1. IsContent(W) /\ Wide(W)
  BY WithIs, WideWith
<1>2. TrieOf(W) = BranchHash(Kids(W), Lookup(W, <<>>))
  BY <1>1, TrieBranch
<1>3. k[1] \in Nibbles /\ Tail(k) \in Paths /\ k = Cat(One(k[1]), Tail(k))
  BY FirstNibble
<1> DEFINE n == k[1]
<1> DEFINE r == Tail(k)
<1> HIDE DEF n, r
<1>4. /\ Kids(W) = [Kids(C) EXCEPT ![n] = Some(TrieOf(With(Under(C, One(n)), r, v)))]
      /\ Lookup(W, <<>>) = Lookup(C, <<>>)
  <2>1. n \in Nibbles /\ r \in Paths /\ k = Cat(One(n), r)
    BY <1>3 DEF n, r
  <2> QED
    BY <2>1, KidsWith
<1> QED
  BY <1>2, <1>4 DEF n, r

\* A branch with a value.
LEMMA BranchValued ==
  ASSUME NEW C, IsContent(C), Wide(C), NEW v
  PROVE  TrieOf(With(C, <<>>, v)) = BranchHash(Kids(C), Some(v))
<1> DEFINE e == <<>>
<1> DEFINE W == With(C, e, v)
<1>0. e \in Paths
  BY NoPath
<1>9. ASSUME NEW m \in Nibbles PROVE \A s \in Paths : e # Cat(One(m), s)
  BY OneCat
<1> HIDE DEF e
<1>a. IsContent(W) /\ DOMAIN W = DOMAIN C \cup {e}
  BY <1>0, WithIs, Zenon
<1>b. Wide(W) /\ W[e] = v
  BY <1>0, WideWith, WithAt
<1> HIDE DEF W
<1>1. IsContent(W) /\ Wide(W) /\ e \in DOMAIN W /\ W[e] = v
  BY <1>a, <1>b
<1>2. TrieOf(W) = BranchHash(Kids(W), Lookup(W, e))
  BY <1>1, TrieBranch DEF e
<1>3. Lookup(W, e) = Some(v)
  BY <1>1 DEF Lookup
<1>4. ASSUME NEW m \in Nibbles PROVE Kid(W, One(m)) = Kid(C, One(m))
  <2>1. One(m) \in Paths /\ \A s \in Paths : e # Cat(One(m), s)
    BY <1>9, OnePath
  <2>2. Under(W, One(m)) = Under(C, One(m))
    BY <1>0, <2>1, UnderOther DEF W
  <2> QED
    BY <2>2 DEF Kid
<1>5. Kids(W) = Kids(C)
  BY <1>4 DEF Kids
<1> QED
  BY <1>2, <1>3, <1>5 DEF W, e

\* The node on the way with a new subtrie.
LEMMA LinkedIs ==
  /\ \A p \in Paths : \A g, k, h : Linked(At(ExtHash(p, g), k), h) = ExtHash(p, h)
  /\ \A c, v, k, h : Linked(At(BranchHash(c, v), k), h) = BranchHash([c EXCEPT ![k[1]] = Some(h)], v)
<1>1. ASSUME NEW p \in Paths, NEW g, NEW k, NEW h PROVE Linked(At(ExtHash(p, g), k), h) = ExtHash(p, h)
  <2>1. deserialize_node(At(ExtHash(p, g), k).h) = [kind |-> "Extension", path |-> p, next |-> g]
    BY AtIs, ExtNode DEF extension
  <2> QED
    BY <2>1 DEF Linked, ExtHash
<1>2. ASSUME NEW c, NEW v, NEW k, NEW h
      PROVE  Linked(At(BranchHash(c, v), k), h) = BranchHash([c EXCEPT ![k[1]] = Some(h)], v)
  <2> DEFINE s == At(BranchHash(c, v), k)
  <2>1. deserialize_node(s.h) = [kind |-> "Branch", children |-> c, value |-> v] /\ s.key = k
    BY AtIs, BranchNode DEF branch
  <2> HIDE DEF s
  <2>2. Linked(s, h) = BranchHash([c EXCEPT ![k[1]] = Some(h)], v)
    BY <2>1 DEF Linked, BranchHash
  <2> QED
    BY <2>2 DEF s
<1> QED
  BY <1>1, <1>2

\* insert at a leaf.
LEMMA InsertHereLeaf ==
  ASSUME NEW k \in Paths, NEW v, NEW w
  PROVE  InsertHere(At(LeafHash(k, w), k), v) = LeafHash(k, v)
<1> DEFINE s == At(LeafHash(k, w), k)
<1>1. deserialize_node(s.h) = [kind |-> "Leaf", path |-> k, value |-> w] /\ s.key = k
  BY AtIs, LeafNode DEF leaf
<1> HIDE DEF s
<1>2. InsertHere(s, v) = LeafHash(k, v)
  BY <1>1 DEF InsertHere, LeafHash
<1> QED
  BY <1>2 DEF s

\* The first nibbles of a path and the others.
Upto(p, n) == SubSeq(p, 1, n)

\* The path after its first nibbles.
Past(p, n) == From(p, n + 1)

\* insert splits a leaf where its path and the key part.
LEMMA InsertHereSplit ==
  ASSUME NEW k, NEW v, NEW p \in Paths, NEW w, NEW a, NEW b, NEW q, p # k,
         q = Upto(p, common_prefix_len(p, k)),
         a = Past(p, common_prefix_len(p, k)), b = Past(k, common_prefix_len(p, k))
  PROVE  InsertHere(At(LeafHash(p, w), k), v) = Prefixed(q, split_to_branch(a, w, b, v))
<1> DEFINE s == At(LeafHash(p, w), k)
<1>1. deserialize_node(s.h) = [kind |-> "Leaf", path |-> p, value |-> w] /\ s.key = k
  BY AtIs, LeafNode DEF leaf
<1> HIDE DEF s
<1>2. InsertHere(s, v) = Prefixed(q, split_to_branch(a, w, b, v))
  BY <1>1 DEF InsertHere, Upto, Past
<1> QED
  BY <1>2 DEF s

\* insert at an extension the key leaves.
LEMMA InsertHereExt ==
  ASSUME NEW k, NEW v, NEW p \in Paths, NEW g
  PROVE  InsertHere(At(ExtHash(p, g), k), v) = split_extension(extension(p, g), k, v)
<1> DEFINE s == At(ExtHash(p, g), k)
<1> DEFINE n == deserialize_node(s.h)
<1>1. n = extension(p, g) /\ s.key = k
  BY AtIs, ExtNode
<1>2. n.kind = "Extension"
  BY <1>1 DEF extension
<1> HIDE DEF s
<1>3. InsertHere(s, v) = split_extension(n, k, v)
  BY <1>1, <1>2 DEF InsertHere
<1> QED
  BY <1>1, <1>3 DEF s

\* insert in an empty trie and at a branch.
LEMMA InsertHereIs ==
  ASSUME NEW k, NEW v
  PROVE  /\ InsertHere(At(EmptyRoot, k), v) = LeafHash(k, v)
         /\ \A c, w : k = <<>> => InsertHere(At(BranchHash(c, w), k), v) = BranchHash(c, Some(v))
<1>1. InsertHere(At(EmptyRoot, k), v) = LeafHash(k, v)
  <2> DEFINE s == At(EmptyRoot, k)
  <2>1. deserialize_node(s.h) = [kind |-> "Empty"] /\ s.key = k
    BY AtIs, EmptyNode DEF Empty
  <2> HIDE DEF s
  <2>2. InsertHere(s, v) = LeafHash(k, v)
    BY <2>1 DEF InsertHere, LeafHash
  <2> QED
    BY <2>2 DEF s
<1>2. ASSUME NEW c, NEW w, k = <<>>
      PROVE  InsertHere(At(BranchHash(c, w), k), v) = BranchHash(c, Some(v))
  <2> DEFINE s == At(BranchHash(c, w), k)
  <2>1. deserialize_node(s.h) = [kind |-> "Branch", children |-> c, value |-> w] /\ s.key = k
    BY AtIs, BranchNode DEF branch
  <2> HIDE DEF s
  <2> QED
    BY <1>2, <2>1 DEF InsertHere, BranchHash, s
<1> QED
  BY <1>1, <1>2

\* Subtries with a leaf for the key added.
AndLeaf(kids, y, v) == [kids EXCEPT ![y[1]] = Some(LeafHash(Tail(y), v))]

\* insert below a branch that has no subtrie for the key.
LEMMA InsertHereBelow ==
  ASSUME NEW k, NEW v, NEW c, NEW w, k # <<>>
  PROVE  InsertHere(At(BranchHash(c, w), k), v) = BranchHash(AndLeaf(c, k, v), w)
<1> DEFINE s == At(BranchHash(c, w), k)
<1>1. deserialize_node(s.h) = [kind |-> "Branch", children |-> c, value |-> w] /\ s.key = k
  BY AtIs, BranchNode DEF branch
<1> HIDE DEF s
<1> QED
  BY <1>1 DEF InsertHere, BranchHash, LeafHash, AndLeaf, s

\* The subtrie of a nibble that one path starts with, and of one that none does.
LEMMA KidLeaf ==
  ASSUME NEW U, IsContent(U), NEW z \in DOMAIN U, z # <<>>,
         \A y \in DOMAIN U : y # z => y = <<>> \/ y[1] # z[1]
  PROVE  Kid(U, One(z[1])) = Some(LeafHash(Tail(z), U[z]))
<1> DEFINE m == z[1]
<1> DEFINE r == Tail(z)
<1> DEFINE V == Under(U, One(m))
<1>1. z \in Paths /\ \A y \in DOMAIN U : y \in Paths
  BY DEF IsContent
<1>2. m \in Nibbles /\ r \in Paths /\ z = Cat(One(m), r)
  BY <1>1, FirstNibble
<1> HIDE DEF m, r
<1>3. One(m) \in Paths
  BY <1>2, OnePath
<1>4. /\ IsContent(V) /\ \A s : s \in DOMAIN V <=> s \in Paths /\ Cat(One(m), s) \in DOMAIN U
      /\ \A s \in DOMAIN V : V[s] = U[Cat(One(m), s)]
  BY <1>3, UnderIs, Zenon
<1>5. ASSUME NEW s \in Paths, Cat(One(m), s) \in DOMAIN U PROVE s = r
  <2> DEFINE y == Cat(One(m), s)
  <2>1. y \in Paths /\ y # <<>> /\ y[1] = m /\ Tail(y) = s
    BY <1>2, OneCat
  <2> HIDE DEF y
  <2>2. y = z
    BY <1>5, <2>1 DEF m, y
  <2> QED
    BY <2>1, <2>2 DEF r
<1> HIDE DEF V
<1>6. DOMAIN V = {r}
  BY <1>2, <1>4, <1>5
<1>7. V[r] = U[z]
  BY <1>2, <1>4, <1>6
<1>8. TrieOf(V) = LeafHash(r, U[z])
  BY <1>2, <1>4, <1>6, <1>7, TrieLeaf
<1>9. Kid(U, One(m)) = Some(TrieOf(V))
  BY <1>6 DEF Kid, V
<1> QED
  BY <1>8, <1>9 DEF m, r

\* No path starts with the nibble: no subtrie.
LEMMA KidNone ==
  ASSUME NEW U, IsContent(U), NEW m \in Nibbles, \A y \in DOMAIN U : y = <<>> \/ y[1] # m
  PROVE  Kid(U, One(m)) = Absent
<1>1. One(m) \in Paths
  BY OnePath
<1>2. ASSUME NEW s, s \in DOMAIN Under(U, One(m)) PROVE FALSE
  <2>1. s \in Paths /\ Cat(One(m), s) \in DOMAIN U
    BY <1>1, <1>2, UnderIs, Zenon
  <2>2. Cat(One(m), s) # <<>> /\ Cat(One(m), s)[1] = m
    BY <2>1, OneCat
  <2> QED
    BY <2>1, <2>2
<1>3. DOMAIN Under(U, One(m)) = {}
  BY <1>2
<1> QED
  BY <1>3 DEF Kid

\* split_to_branch makes the branch of two paths.
LEMMA SplitBranch ==
  ASSUME NEW U, IsContent(U), NEW x \in Paths, NEW y \in Paths, x # y, Parted(x, y), DOMAIN U = {x, y}
  PROVE  split_to_branch(x, U[x], y, U[y]) = BranchHash(Kids(U), Lookup(U, <<>>))
<1> DEFINE L(r, v) == Some(LeafHash(Tail(r), v))
<1> DEFINE A == IF x = <<>> THEN NoChildren ELSE [NoChildren EXCEPT ![x[1]] = L(x, U[x])]
<1> DEFINE B == IF y = <<>> THEN A ELSE [A EXCEPT ![y[1]] = L(y, U[y])]
<1> DEFINE V == IF x = <<>> THEN Some(U[x]) ELSE IF y = <<>> THEN Some(U[y]) ELSE Absent
<1>1. split_to_branch(x, U[x], y, U[y]) = BranchHash(B, V)
  BY DEF split_to_branch, BranchHash, LeafHash
<1>2. V = Lookup(U, <<>>)
  BY DEF Lookup
<1>3. (x # <<>> => x[1] \in Nibbles) /\ (y # <<>> => y[1] \in Nibbles)
  BY FirstNibble
<1> DEFINE N(m) == IF y # <<>> /\ m = y[1] THEN L(y, U[y])
                   ELSE IF x # <<>> /\ m = x[1] THEN L(x, U[x]) ELSE Absent
<1>4. B = [m \in Nibbles |-> N(m)]
  <2> HIDE DEF L
  <2>1. A = [m \in Nibbles |-> IF x # <<>> /\ m = x[1] THEN L(x, U[x]) ELSE Absent]
    BY <1>3 DEF NoChildren
  <2> HIDE DEF A
  <2> QED
    BY <1>3, <2>1
<1>5. ASSUME NEW m \in Nibbles PROVE Kid(U, One(m)) = N(m)
  <2> HIDE DEF L
  <2>1. CASE y # <<>> /\ m = y[1]
    <3>1. Kid(U, One(y[1])) = Some(LeafHash(Tail(y), U[y]))
      BY <2>1, KidLeaf DEF Parted
    <3> QED
      BY <2>1, <3>1 DEF L
  <2>2. CASE ~(y # <<>> /\ m = y[1]) /\ x # <<>> /\ m = x[1]
    <3>1. Kid(U, One(x[1])) = Some(LeafHash(Tail(x), U[x]))
      BY <2>2, KidLeaf DEF Parted
    <3> QED
      BY <2>2, <3>1 DEF L
  <2>3. CASE ~(y # <<>> /\ m = y[1]) /\ ~(x # <<>> /\ m = x[1])
    <3>1. Kid(U, One(m)) = Absent
      BY <2>3, KidNone
    <3> QED
      BY <2>3, <3>1
  <2> QED
    BY <2>1, <2>2, <2>3
<1> HIDE DEF N, B, V
<1>6. Kids(U) = B
  BY <1>4, <1>5 DEF Kids
<1> QED
  BY <1>1, <1>2, <1>6

\* A key that leaves a leaf.
LEMMA SplitLeaf ==
  ASSUME NEW C, IsContent(C), NEW j \in Paths, DOMAIN C = {j}, NEW k \in Paths, k # j, NEW v
  PROVE  InsertHere(At(LeafHash(j, C[j]), k), v) = TrieOf(With(C, k, v))
<1>1. PICK c \in Paths, x \in Paths, y \in Paths : PartAt(j, k, c, x, y)
  BY Parting DEF Parts
<1>2. j = Cat(c, x) /\ k = Cat(c, y) /\ Parted(x, y) /\ x # y
  BY <1>1 DEF PartAt
<1>3. common_prefix_len(j, k) = Len(c)
  BY <1>2, CommonPrefixLen
<1>4. Upto(j, Len(c)) = c /\ Past(j, Len(c)) = x /\ Past(k, Len(c)) = y
  BY <1>2, FrontRest DEF Upto, Past
<1>5. InsertHere(At(LeafHash(j, C[j]), k), v) = Prefixed(c, split_to_branch(x, C[j], y, v))
  BY <1>3, <1>4, InsertHereSplit
<1> DEFINE W == With(C, k, v)
<1>6. IsContent(W) /\ DOMAIN W = {j, k} /\ W[j] = C[j] /\ W[k] = v
  <2>1. IsContent(W) /\ DOMAIN W = DOMAIN C \cup {k} /\ \A i \in DOMAIN C : i # k => W[i] = C[i]
    BY WithIs, Zenon
  <2>2. W[k] = v
    BY WithAt
  <2> HIDE DEF W
  <2> QED
    BY <2>1, <2>2
<1> HIDE DEF W
<1> DEFINE U == Under(W, c)
<1>7. /\ IsContent(U) /\ \A r : r \in DOMAIN U <=> r \in Paths /\ Cat(c, r) \in DOMAIN W
      /\ \A r \in DOMAIN U : U[r] = W[Cat(c, r)]
  BY <1>6, UnderIs, Zenon
<1> HIDE DEF U
<1>8. \A r \in Paths : (Cat(c, r) = j => r = x) /\ (Cat(c, r) = k => r = y)
  BY <1>2, CatCancel
<1>9. DOMAIN U = {x, y}
  BY <1>2, <1>6, <1>7, <1>8
<1>10. U[x] = C[j] /\ U[y] = v
  BY <1>2, <1>6, <1>7, <1>9
<1>11. Fronts(c, DOMAIN W)
  BY <1>2, <1>6 DEF Fronts
<1>12. Wide(U)
  BY <1>2, <1>9 DEF Wide
<1>13. TrieOf(W) = Prefixed(c, BranchHash(Kids(U), Lookup(U, <<>>)))
  BY <1>6, <1>11, <1>12, TrieFront DEF U
<1>14. split_to_branch(x, C[j], y, v) = BranchHash(Kids(U), Lookup(U, <<>>))
  BY <1>2, <1>7, <1>9, <1>10, SplitBranch
<1> QED
  BY <1>5, <1>13, <1>14 DEF W

\* The nibble after a front, and what comes after it.
LEMMA PartRest ==
  ASSUME NEW d \in Paths, NEW x \in Paths, x # <<>>, NEW p, p = Cat(d, x), NEW n, n = Len(d)
  PROVE  p[n + 1] = x[1] /\ From(p, n + 2) = Tail(x) /\ Len(p) # n
<1>1. x[1] \in Nibbles /\ Tail(x) \in Paths /\ Len(x) >= 1 /\ x = Cat(One(x[1]), Tail(x))
  BY FirstNibble
<1>2. Len(d) \in Nat /\ Len(x) \in Nat
  BY PathIs
<1>3. Len(p) = Len(d) + Len(x) /\ \A i \in 1 .. Len(x) : p[Len(d) + i] = x[i]
  BY CatIs, Zenon
<1>4. p[n + 1] = x[1] /\ Len(p) # n
  BY <1>1, <1>2, <1>3
<1> DEFINE o == One(x[1])
<1> DEFINE q == Cat(d, o)
<1> DEFINE r == Tail(x)
<1>5. o \in Paths /\ Len(o) = 1
  BY <1>1, OneIs
<1>6. x = Cat(o, r) /\ r \in Paths
  BY <1>1
<1> HIDE DEF o, r
<1>7. q \in Paths /\ Len(q) = Len(d) + Len(o)
  BY <1>5, CatIs, Zenon
<1>8. p = Cat(q, r)
  BY <1>5, <1>6, CatAssoc
<1> HIDE DEF q
<1>9. From(p, Len(q) + 1) = r
  BY <1>6, <1>7, <1>8, FrontRest
<1>10. Len(q) + 1 = n + 2
  BY <1>2, <1>5, <1>7
<1> QED
  BY <1>4, <1>9, <1>10 DEF r

\* The subtries of a branch where an extension was cut.
Hung(x, g) == [NoChildren EXCEPT ![x[1]] = Some(Prefixed(Tail(x), g))]

\* split_extension, where the key and the path of the extension part.
LEMMA SplitExtension ==
  ASSUME NEW p \in Paths, NEW g, NEW k \in Paths, NEW v, NEW d \in Paths, NEW x \in Paths, NEW y \in Paths,
         p = Cat(d, x), k = Cat(d, y), Parted(x, y), x # <<>>,
         NEW kids, kids = Hung(x, g)
  PROVE  /\ y = <<>> => split_extension(extension(p, g), k, v) = Prefixed(d, BranchHash(kids, Some(v)))
         /\ y # <<>> => split_extension(extension(p, g), k, v)
              = Prefixed(d, BranchHash(AndLeaf(kids, y, v), Absent))
<1> DEFINE n == common_prefix_len(p, k)
<1> DEFINE e == extension(p, g)
<1>1. n = Len(d)
  BY CommonPrefixLen
<1>2. e.path = p /\ e.next = g
  BY DEF extension
<1>3. p[n + 1] = x[1] /\ From(p, n + 2) = Tail(x)
  BY <1>1, PartRest
<1>4. SubSeq(p, 1, n) = d
  BY <1>1, FrontRest
<1>5. CASE y = <<>>
  <2>1. k = d /\ Len(k) = n
    BY <1>1, <1>5, NoPath
  <2> HIDE DEF e
  <2>2. split_extension(e, k, v) = Prefixed(k, BranchHash(kids, Some(v)))
    BY <1>2, <1>3, <2>1 DEF split_extension, BranchHash, Hung
  <2> QED
    BY <1>5, <2>1, <2>2 DEF e
<1>6. CASE y # <<>>
  <2>1. k[n + 1] = y[1] /\ From(k, n + 2) = Tail(y) /\ Len(k) # n
    BY <1>1, <1>6, PartRest
  <2> HIDE DEF e
  <2>2. split_extension(e, k, v)
          = Prefixed(d, BranchHash(AndLeaf(kids, y, v), Absent))
    BY <1>2, <1>3, <1>4, <2>1 DEF split_extension, BranchHash, LeafHash, Hung, AndLeaf
  <2> QED
    BY <1>6, <2>2 DEF e
<1> QED
  BY <1>5, <1>6

\* A key that leaves an extension in its middle.
LEMMA SplitExt ==
  ASSUME NEW C, IsContent(C), NEW c \in Paths, c # <<>>, Fronts(c, DOMAIN C),
         NEW U, U = Under(C, c), Wide(U), NEW k \in Paths, \A r \in Paths : k # Cat(c, r), NEW v
  PROVE  InsertHere(At(ExtHash(c, TrieOf(U)), k), v) = TrieOf(With(C, k, v))
<1>1. PICK d \in Paths, x \in Paths, y \in Paths : PartAt(c, k, d, x, y)
  BY Parting DEF Parts
<1>2. c = Cat(d, x) /\ k = Cat(d, y) /\ Parted(x, y)
  BY <1>1 DEF PartAt
<1>3. x # <<>>
  <2> SUFFICES ASSUME x = <<>> PROVE FALSE
    OBVIOUS
  <2>1. c = d
    BY <1>2, NoPath
  <2> QED
    BY <1>2, <2>1
<1> DEFINE a == x[1]
<1> DEFINE t == Tail(x)
<1>4. a \in Nibbles /\ t \in Paths /\ x = Cat(One(a), t)
  BY <1>3, FirstNibble
<1>5. One(a) \in Paths
  BY <1>4, OnePath
<1>6. y = <<>> \/ y[1] # a
  BY <1>2, <1>3 DEF Parted
<1> HIDE DEF a, t
<1> DEFINE D == Under(C, d)
<1>7. IsContent(D) /\ \A r : r \in DOMAIN D <=> r \in Paths /\ Cat(d, r) \in DOMAIN C
  BY UnderIs, Zenon
<1>8. ASSUME NEW r \in DOMAIN D PROVE r # <<>> /\ r[1] = a
  <2>1. r \in Paths /\ Cat(d, r) \in DOMAIN C
    BY <1>7
  <2>2. PICK z \in Paths : Cat(d, r) = Cat(c, z)
    BY <2>1 DEF Fronts
  <2>3. Cat(c, z) = Cat(d, Cat(x, z)) /\ Cat(x, z) \in Paths
    BY <1>2, CatAssoc, CatPath
  <2>4. r = Cat(x, z)
    BY <2>1, <2>2, <2>3, CatCancel
  <2>5. Cat(x, z) = Cat(One(a), Cat(t, z)) /\ Cat(t, z) \in Paths
    BY <1>4, <1>5, CatAssoc, CatPath
  <2> QED
    BY <1>4, <2>4, <2>5, OneCat
<1>9. Under(D, x) = U
  BY <1>2, UnderUnder
<1>10. PICK z : z \in DOMAIN U
  BY DEF Wide
<1>11. IsContent(U) /\ z \in Paths /\ Cat(x, z) \in DOMAIN D
  <2>1. IsContent(Under(D, x)) /\ \A r : r \in DOMAIN Under(D, x) <=> r \in Paths /\ Cat(x, r) \in DOMAIN D
    BY <1>7, UnderIs, Zenon
  <2> QED
    BY <1>9, <1>10, <2>1
<1> HIDE DEF D
<1> DEFINE W == With(C, k, v)
<1> DEFINE V == Under(W, d)
<1>12. IsContent(W) /\ DOMAIN W = DOMAIN C \cup {k}
  BY WithIs, Zenon
<1>13. V = With(D, y, v)
  BY <1>2, UnderWith DEF D
<1>14. IsContent(V) /\ DOMAIN V = DOMAIN D \cup {y} /\ \A j \in DOMAIN D : j # y => V[j] = D[j]
  <2>1. IsContent(With(D, y, v)) /\ DOMAIN With(D, y, v) = DOMAIN D \cup {y}
    BY <1>7, WithIs, Zenon
  <2>2. \A j \in DOMAIN D : j # y => With(D, y, v)[j] = D[j]
    BY <1>7, WithIs, Zenon
  <2> QED
    BY <1>13, <2>1, <2>2
<1>15. V[y] = v
  BY <1>13, WithAt
<1>16. Fronts(d, DOMAIN W)
  <2>1. ASSUME NEW j \in DOMAIN C PROVE \E r \in Paths : j = Cat(d, r)
    <3>1. PICK s \in Paths : j = Cat(c, s)
      BY DEF Fronts
    <3>2. Cat(c, s) = Cat(d, Cat(x, s)) /\ Cat(x, s) \in Paths
      BY <1>2, CatAssoc, CatPath
    <3> QED
      BY <3>1, <3>2
  <2> HIDE DEF W
  <2> QED
    BY <1>2, <1>12, <2>1 DEF Fronts
<1> HIDE DEF W, V
<1>17. Wide(V)
  <2> DEFINE s == Cat(x, z)
  <2>1. s \in DOMAIN V /\ y \in DOMAIN V /\ s # <<>> /\ s[1] = a
    BY <1>8, <1>11, <1>14
  <2> HIDE DEF s
  <2>2. s # y /\ Parted(s, y)
    BY <1>6, <2>1 DEF Parted
  <2> QED
    BY <2>1, <2>2 DEF Wide
<1>18. TrieOf(W) = Prefixed(d, BranchHash(Kids(V), Lookup(V, <<>>)))
  BY <1>12, <1>16, <1>17, TrieFront DEF V
<1> DEFINE below == Some(Prefixed(t, TrieOf(U)))
<1>19. Kid(V, One(a)) = below
  <2> DEFINE E == Under(D, One(a))
  <2>1. Under(V, One(a)) = E
    <3>1. \A r \in Paths : y # Cat(One(a), r)
      BY <1>4, <1>6, OneCat
    <3> QED
      BY <1>5, <1>7, <1>13, <3>1, UnderOther
  <2>2. Under(E, t) = U
    BY <1>4, <1>5, <1>7, <1>9, UnderUnder
  <2>3. /\ IsContent(E) /\ \A r : r \in DOMAIN E <=> r \in Paths /\ Cat(One(a), r) \in DOMAIN D
    BY <1>5, <1>7, UnderIs, Zenon
  <2> HIDE DEF E
  <2>4. Fronts(t, DOMAIN E)
    <3> SUFFICES ASSUME NEW r \in DOMAIN E PROVE \E s \in Paths : r = Cat(t, s)
      BY DEF Fronts
    <3>1. r \in Paths /\ Cat(d, Cat(One(a), r)) \in DOMAIN C /\ Cat(One(a), r) \in Paths
      BY <1>5, <1>7, <2>3
    <3>2. PICK s \in Paths : Cat(d, Cat(One(a), r)) = Cat(c, s)
      BY <3>1 DEF Fronts
    <3>3. Cat(c, s) = Cat(d, Cat(x, s)) /\ Cat(x, s) \in Paths
      BY <1>2, CatAssoc, CatPath
    <3>4. Cat(One(a), r) = Cat(x, s)
      BY <3>1, <3>2, <3>3, CatCancel
    <3>5. Cat(x, s) = Cat(One(a), Cat(t, s)) /\ Cat(t, s) \in Paths
      BY <1>4, <1>5, CatAssoc, CatPath
    <3>6. r = Cat(t, s)
      BY <1>5, <3>1, <3>4, <3>5, CatCancel
    <3> QED
      BY <3>6
  <2>5. TrieOf(E) = Prefixed(t, BranchHash(Kids(U), Lookup(U, <<>>)))
    BY <1>4, <2>2, <2>3, <2>4, TrieFront
  <2>6. TrieOf(U) = BranchHash(Kids(U), Lookup(U, <<>>))
    BY <1>11, TrieBranch
  <2>7. DOMAIN E # {}
    <3>1. Cat(x, z) = Cat(One(a), Cat(t, z)) /\ Cat(t, z) \in Paths
      BY <1>4, <1>5, <1>11, CatAssoc, CatPath
    <3> QED
      BY <1>11, <2>3, <3>1
  <2>8. Kid(V, One(a)) = Some(TrieOf(E))
    BY <2>1, <2>7 DEF Kid
  <2> QED
    BY <2>5, <2>6, <2>8
<1> DEFINE kids == [NoChildren EXCEPT ![a] = below]
<1>20. InsertHere(At(ExtHash(c, TrieOf(U)), k), v) = split_extension(extension(c, TrieOf(U)), k, v)
  BY InsertHereExt
<1>21. kids = Hung(x, TrieOf(U))
  BY DEF a, t, Hung
<1> HIDE DEF below
<1>22. kids = [m \in Nibbles |-> IF m = a THEN below ELSE Absent]
  BY <1>4 DEF NoChildren
<1>23. ASSUME NEW m \in Nibbles, m # a, y = <<>> \/ y[1] # m PROVE Kid(V, One(m)) = Absent
  <2>1. ASSUME NEW s \in DOMAIN V PROVE s = <<>> \/ s[1] # m
    BY <1>8, <1>14, <1>23
  <2> QED
    BY <1>14, <2>1, KidNone
<1> HIDE DEF kids
<1>24. CASE y = <<>>
  <2>1. Lookup(V, <<>>) = Some(v)
    BY <1>14, <1>15, <1>24 DEF Lookup
  <2>2. Kids(V) = kids
    BY <1>19, <1>22, <1>23, <1>24 DEF Kids
  <2>3. split_extension(extension(c, TrieOf(U)), k, v) = Prefixed(d, BranchHash(kids, Some(v)))
    BY <1>2, <1>3, <1>21, <1>24, SplitExtension
  <2> QED
    BY <1>18, <1>20, <2>1, <2>2, <2>3 DEF W
<1>25. CASE y # <<>>
  <2>1. y[1] \in Nibbles /\ Tail(y) \in Paths
    BY <1>25, FirstNibble
  <2>2. <<>> \notin DOMAIN V
    BY <1>8, <1>14, <1>25
  <2>3. Lookup(V, <<>>) = Absent
    BY <2>2 DEF Lookup
  <2>4. Kid(V, One(y[1])) = Some(LeafHash(Tail(y), v))
    <3>1. y \in DOMAIN V /\ \A s \in DOMAIN V : s # y => s = <<>> \/ s[1] # y[1]
      BY <1>6, <1>8, <1>14, <1>25
    <3> QED
      BY <1>14, <1>15, <1>25, <3>1, KidLeaf
  <2> DEFINE tip == Some(LeafHash(Tail(y), v))
  <2> HIDE DEF tip
  <2>5. Kids(V) = [kids EXCEPT ![y[1]] = tip]
    <3>1. ASSUME NEW m \in Nibbles PROVE Kid(V, One(m)) = IF m = y[1] THEN tip ELSE IF m = a THEN below ELSE Absent
      BY <1>6, <1>19, <1>23, <1>25, <2>4 DEF tip
    <3> QED
      BY <1>22, <2>1, <3>1 DEF Kids
  <2>6. split_extension(extension(c, TrieOf(U)), k, v) = Prefixed(d, BranchHash(AndLeaf(kids, y, v), Absent))
    BY <1>2, <1>3, <1>21, <1>25, SplitExtension
  <2>7. AndLeaf(kids, y, v) = Kids(V)
    BY <2>5 DEF AndLeaf, tip
  <2> QED
    BY <1>18, <1>20, <2>3, <2>6, <2>7 DEF W
<1> QED
  BY <1>24, <1>25

\* A new path where the trie is empty or one leaf.
LEMMA InsertBare ==
  ASSUME NEW C, IsContent(C), NEW k \in Paths, NEW v, DOMAIN C = {} \/ \E j \in Paths : DOMAIN C = {j}
  PROVE  insert(TrieOf(C), k, v) = TrieOf(With(C, k, v))
<1> DEFINE W == With(C, k, v)
<1>1. IsContent(W) /\ DOMAIN W = DOMAIN C \cup {k}
  BY WithIs, Zenon
<1>2. W[k] = v
  BY WithAt
<1> HIDE DEF W
<1>3. CASE DOMAIN C = {}
  <2>1. TrieOf(C) = EmptyRoot
    BY <1>3, TrieNone
  <2>2. insert(EmptyRoot, k, v) = LeafHash(k, v)
    BY DownEmpty, OnEnd, InsertHereIs DEF Stays
  <2>3. DOMAIN W = {k}
    BY <1>1, <1>3
  <2>4. TrieOf(W) = LeafHash(k, v)
    BY <1>1, <1>2, <2>3, TrieLeaf
  <2> QED
    BY <2>1, <2>2, <2>4 DEF W
<1>4. ASSUME NEW j \in Paths, DOMAIN C = {j} PROVE insert(TrieOf(C), k, v) = TrieOf(W)
  <2>1. TrieOf(C) = LeafHash(j, C[j])
    BY <1>4, TrieLeaf
  <2>2. insert(TrieOf(C), k, v) = InsertHere(At(LeafHash(j, C[j]), k), v)
    BY <2>1, DownLeaf, OnEnd DEF Stays
  <2>3. CASE k = j
    <3>1. DOMAIN W = {k}
      BY <1>1, <1>4, <2>3
    <3>2. TrieOf(W) = LeafHash(k, v)
      BY <1>1, <1>2, <3>1, TrieLeaf
    <3> QED
      BY <2>2, <2>3, <3>2, InsertHereLeaf
  <2>4. CASE k # j
    BY <1>4, <2>2, <2>4, SplitLeaf DEF W
  <2> QED
    BY <2>3, <2>4
<1> QED
  BY <1>3, <1>4 DEF W

\* Below a branch, given the same for the shorter rest of the key.
LEMMA InsertWide ==
  ASSUME NEW C, IsContent(C), Wide(C), NEW k \in Paths, NEW v,
         k # <<>> => insert(TrieOf(Under(C, One(k[1]))), Tail(k), v)
                       = TrieOf(With(Under(C, One(k[1])), Tail(k), v))
  PROVE  insert(TrieOf(C), k, v) = TrieOf(With(C, k, v))
<1>0. TrieOf(C) = BranchHash(Kids(C), Lookup(C, <<>>))
  BY TrieBranch
<1>1. CASE k = <<>>
  <2>1. Stays(TrieOf(C), k)
    BY <1>1, TrieDownBranch, OnEnd
  <2>2. insert(TrieOf(C), k, v) = InsertHere(At(TrieOf(C), k), v)
    BY <2>1 DEF Stays
  <2>3. insert(TrieOf(C), k, v) = BranchHash(Kids(C), Some(v))
    <3>1. PICK c, w : c = Kids(C) /\ w = Lookup(C, <<>>)
      OBVIOUS
    <3>2. InsertHere(At(BranchHash(c, w), k), v) = BranchHash(c, Some(v))
      BY <1>1, InsertHereIs
    <3> QED
      BY <1>0, <2>2, <3>1, <3>2
  <2> QED
    BY <1>1, <2>3, BranchValued
<1>2. CASE k # <<>>
  <2> DEFINE U == Under(C, One(k[1]))
  <2> DEFINE Q == With(U, Tail(k), v)
  <2>1. k[1] \in Nibbles /\ Tail(k) \in Paths
    BY <1>2, FirstNibble
  <2>2. IsContent(U)
    BY <2>1, OnePath, UnderIs
  <2>3. TrieOf(With(C, k, v)) = BranchHash([Kids(C) EXCEPT ![k[1]] = Some(TrieOf(Q))], Lookup(C, <<>>))
    BY <1>2, BranchWith
  <2>4. CASE DOMAIN U = {}
    <3>1. Stays(TrieOf(C), k)
      BY <1>2, <2>4, TrieDownBranch, OnEnd
    <3>2. insert(TrieOf(C), k, v) = InsertHere(At(TrieOf(C), k), v)
      BY <3>1 DEF Stays
    <3>8. InsertHere(At(BranchHash(Kids(C), Lookup(C, <<>>)), k), v)
            = BranchHash([Kids(C) EXCEPT ![k[1]] = Some(LeafHash(Tail(k), v))], Lookup(C, <<>>))
      <4>1. InsertHere(At(BranchHash(Kids(C), Lookup(C, <<>>)), k), v)
              = BranchHash(AndLeaf(Kids(C), k, v), Lookup(C, <<>>))
        BY <1>2, InsertHereBelow
      <4> QED
        BY <4>1 DEF AndLeaf
    <3>3. insert(TrieOf(C), k, v) = BranchHash([Kids(C) EXCEPT ![k[1]] = Some(LeafHash(Tail(k), v))], Lookup(C, <<>>))
      BY <1>0, <3>2, <3>8
    <3> HIDE DEF U
    <3>4. IsContent(Q) /\ DOMAIN Q = DOMAIN U \cup {Tail(k)}
      BY <2>1, <2>2, WithIs, Zenon
    <3>5. Q[Tail(k)] = v
      BY WithAt
    <3> HIDE DEF Q
    <3>6. DOMAIN Q = {Tail(k)}
      BY <2>4, <3>4
    <3>7. TrieOf(Q) = LeafHash(Tail(k), v)
      BY <2>1, <3>4, <3>5, <3>6, TrieLeaf
    <3> QED
      BY <2>3, <3>3, <3>7
  <2>5. CASE DOMAIN U # {}
    <3>1. Passes(TrieOf(C), k, TrieOf(U), Tail(k))
      BY <1>2, <2>5, OnBranch
    <3>2. insert(TrieOf(C), k, v) = Linked(At(TrieOf(C), k), insert(TrieOf(U), Tail(k), v))
      BY <3>1 DEF Passes
    <3>3. insert(TrieOf(U), Tail(k), v) = TrieOf(Q)
      BY <1>2
    <3> HIDE DEF U, Q
    <3>4. Linked(At(BranchHash(Kids(C), Lookup(C, <<>>)), k), TrieOf(Q))
            = BranchHash([Kids(C) EXCEPT ![k[1]] = Some(TrieOf(Q))], Lookup(C, <<>>))
      BY LinkedIs
    <3> QED
      BY <1>0, <2>3, <3>2, <3>3, <3>4
  <2> QED
    BY <2>4, <2>5
<1> QED
  BY <1>1, <1>2

\* Below an extension.
LEMMA InsertLong ==
  ASSUME NEW C, IsContent(C), NEW c \in Paths, c # <<>>, Fronts(c, DOMAIN C), NEW U, U = Under(C, c), Wide(U),
         NEW k \in Paths, NEW v,
         \A r \in Paths : k = Cat(c, r) => insert(TrieOf(U), r, v) = TrieOf(With(U, r, v))
  PROVE  insert(TrieOf(C), k, v) = TrieOf(With(C, k, v))
<1>0. TrieOf(C) = ExtHash(c, TrieOf(U))
  BY TrieExtension
<1>1. CASE \A r \in Paths : k # Cat(c, r)
  <2>1. Stays(TrieOf(C), k)
    BY <1>1, TrieDownExt, OnEnd
  <2>2. insert(TrieOf(C), k, v) = InsertHere(At(ExtHash(c, TrieOf(U)), k), v)
    BY <1>0, <2>1 DEF Stays
  <2> QED
    BY <1>1, <2>2, SplitExt
<1>2. ASSUME NEW r \in Paths, k = Cat(c, r) PROVE insert(TrieOf(C), k, v) = TrieOf(With(C, k, v))
  <2> DEFINE W == With(C, k, v)
  <2>1. Passes(TrieOf(C), k, TrieOf(U), r)
    BY <1>2, OnExt
  <2>2. insert(TrieOf(C), k, v) = Linked(At(TrieOf(C), k), insert(TrieOf(U), r, v))
    BY <2>1 DEF Passes
  <2>3. insert(TrieOf(C), k, v) = ExtHash(c, TrieOf(With(U, r, v)))
    BY <1>0, <1>2, <2>2, LinkedIs
  <2>4. IsContent(W) /\ DOMAIN W = DOMAIN C \cup {k}
    BY WithIs, Zenon
  <2>5. Under(W, c) = With(U, r, v)
    BY <1>2, UnderWith
  <2>6. Wide(With(U, r, v))
    <3>1. IsContent(U)
      BY UnderIs
    <3> QED
      BY <3>1, WideWith
  <2> HIDE DEF W
  <2>7. Fronts(c, DOMAIN W)
    BY <1>2, <2>4 DEF Fronts
  <2>8. TrieOf(W) = ExtHash(c, TrieOf(Under(W, c)))
    BY <2>4, <2>5, <2>6, <2>7, TrieExtension
  <2> QED
    BY <2>3, <2>5, <2>8 DEF W
<1> QED
  BY <1>1, <1>2

\* An insert makes the trie of the content with the new value.
LEMMA TrieInsert ==
  ASSUME NEW C, IsContent(C), NEW k \in Paths, NEW v
  PROVE  insert(TrieOf(C), k, v) = TrieOf(With(C, k, v))
<1> DEFINE P == {n \in Nat : \A D, j : IsContent(D) /\ j \in Paths /\ Len(j) < n =>
                                         insert(TrieOf(D), j, v) = TrieOf(With(D, j, v))}
<1>1. 0 \in P
  BY PathIs
<1>2. ASSUME NEW n \in Nat, n \in P PROVE n + 1 \in P
  <2> SUFFICES ASSUME NEW D, NEW j, IsContent(D), j \in Paths, Len(j) < n + 1
               PROVE  insert(TrieOf(D), j, v) = TrieOf(With(D, j, v))
    OBVIOUS
  <2>1. \A E, i : IsContent(E) /\ i \in Paths /\ Len(i) < n => insert(TrieOf(E), i, v) = TrieOf(With(E, i, v))
    BY <1>2
  <2> HIDE DEF P
  <2>2. Len(j) \in Nat
    BY PathIs
  <2>3. ASSUME NEW E, NEW i \in Paths, IsContent(E), Len(i) < Len(j)
        PROVE  insert(TrieOf(E), i, v) = TrieOf(With(E, i, v))
    <3>1. Len(i) \in Nat
      BY PathIs
    <3> QED
      BY <2>1, <2>2, <2>3, <3>1
  <2>5. CASE DOMAIN D = {} \/ \E i \in Paths : DOMAIN D = {i}
    BY <2>5, InsertBare
  <2>7. CASE Wide(D)
    <3> DEFINE U == Under(D, One(j[1]))
    <3>1. j # <<>> => j[1] \in Nibbles /\ Tail(j) \in Paths /\ Len(Tail(j)) = Len(j) - 1
      BY FirstNibble
    <3>2. j # <<>> => IsContent(U) /\ Len(Tail(j)) < Len(j)
      <4> SUFFICES ASSUME j # <<>> PROVE IsContent(U) /\ Len(Tail(j)) < Len(j)
        OBVIOUS
      <4>1. One(j[1]) \in Paths
        BY <3>1, OnePath
      <4>2. IsContent(U)
        BY <4>1, UnderIs
      <4> HIDE DEF U
      <4> QED
        BY <2>2, <3>1, <4>2
    <3> HIDE DEF U
    <3>3. j # <<>> => insert(TrieOf(U), Tail(j), v) = TrieOf(With(U, Tail(j), v))
      BY <2>3, <3>1, <3>2, Zenon
    <3> QED
      BY <2>7, <3>3, InsertWide DEF U
  <2>8. CASE \E c \in Paths : c # <<>> /\ Fronts(c, DOMAIN D) /\ Wide(Under(D, c))
    <3>1. PICK c \in Paths : c # <<>> /\ Fronts(c, DOMAIN D) /\ Wide(Under(D, c))
      BY <2>8
    <3> DEFINE U == Under(D, c)
    <3>2. IsContent(U)
      BY UnderIs
    <3>3. ASSUME NEW r \in Paths, j = Cat(c, r) PROVE insert(TrieOf(U), r, v) = TrieOf(With(U, r, v))
      <4>1. Len(r) < Len(j)
        BY <3>1, <3>3, OnExt, Zenon
      <4> HIDE DEF U
      <4> QED
        BY <2>3, <3>2, <4>1, Zenon
    <3> QED
      BY <3>1, <3>3, InsertLong
  <2> QED
    BY <2>5, <2>7, <2>8, TrieCases
<1>3. \A n \in Nat : n \in P
  <2> HIDE DEF P
  <2> QED
    BY <1>1, <1>2, NumberInduction
<1>4. Len(k) \in Nat /\ Len(k) + 1 \in Nat /\ Len(k) < Len(k) + 1
  BY PathIs
<1>5. Len(k) + 1 \in P
  BY <1>3, <1>4
<1> QED
  BY <1>4, <1>5

----------------------------------------------------------------------------
(* Delete.                                                                 *)

\* What is left of a subtrie.
Left(C) == IF DOMAIN C = {} THEN Absent ELSE Some(TrieOf(C))

\* A node put under a path, by its kind.
LEMMA Normal ==
  ASSUME NEW p \in Paths
  PROVE  /\ \A j \in Paths : \A v : normalize_extension(p, LeafHash(j, v)) = LeafHash(Cat(p, j), v)
         /\ \A j \in Paths : \A g : normalize_extension(p, ExtHash(j, g)) = ExtHash(Cat(p, j), g)
         /\ \A c, v : normalize_extension(p, BranchHash(c, v)) = ExtHash(p, BranchHash(c, v))
<1>1. ASSUME NEW j \in Paths, NEW v PROVE normalize_extension(p, LeafHash(j, v)) = LeafHash(Cat(p, j), v)
  <2> DEFINE h == LeafHash(j, v)
  <2>1. deserialize_node(h) = [kind |-> "Leaf", path |-> j, value |-> v]
    BY LeafNode DEF leaf
  <2> HIDE DEF h
  <2>2. normalize_extension(p, h) = LeafHash(Cat(p, j), v)
    BY <2>1 DEF normalize_extension, LeafHash, Cat
  <2> QED
    BY <2>2 DEF h
<1>2. ASSUME NEW j \in Paths, NEW g PROVE normalize_extension(p, ExtHash(j, g)) = ExtHash(Cat(p, j), g)
  <2> DEFINE h == ExtHash(j, g)
  <2>1. deserialize_node(h) = [kind |-> "Extension", path |-> j, next |-> g]
    BY ExtNode DEF extension
  <2> HIDE DEF h
  <2>2. normalize_extension(p, h) = ExtHash(Cat(p, j), g)
    BY <2>1 DEF normalize_extension, ExtHash, Cat
  <2> QED
    BY <2>2 DEF h
<1>3. ASSUME NEW c, NEW v PROVE normalize_extension(p, BranchHash(c, v)) = ExtHash(p, BranchHash(c, v))
  <2> DEFINE h == BranchHash(c, v)
  <2>1. deserialize_node(h) = [kind |-> "Branch", children |-> c, value |-> v]
    BY BranchNode DEF branch
  <2> HIDE DEF h
  <2>2. normalize_extension(p, h) = ExtHash(p, h)
    BY <2>1 DEF normalize_extension, ExtHash
  <2> QED
    BY <2>2 DEF h
<1> QED
  BY <1>1, <1>2, <1>3

\* The trie of what lies under a path, put back under it.
LEMMA Graft ==
  ASSUME NEW D, IsContent(D), DOMAIN D # {}, NEW p \in Paths, p # <<>>, Fronts(p, DOMAIN D),
         NEW U, U = Under(D, p)
  PROVE  normalize_extension(p, TrieOf(U)) = TrieOf(D)
<1>1. /\ IsContent(U) /\ \A r : r \in DOMAIN U <=> r \in Paths /\ Cat(p, r) \in DOMAIN D
  BY UnderIs, Zenon
<1>2. \A r \in DOMAIN U : U[r] = D[Cat(p, r)]
  BY UnderIs, Zenon
<1>3. \A k \in DOMAIN D : \E r \in DOMAIN U : k = Cat(p, r)
  BY <1>1 DEF Fronts
<1>4. CASE DOMAIN U = {}
  BY <1>3, <1>4
<1>5. ASSUME NEW j \in Paths, DOMAIN U = {j} PROVE normalize_extension(p, TrieOf(U)) = TrieOf(D)
  <2>0. j \in DOMAIN U /\ \A r \in DOMAIN U : r = j
    BY <1>5
  <2>1. Cat(p, j) \in Paths /\ DOMAIN D = {Cat(p, j)} /\ U[j] = D[Cat(p, j)]
    <3>1. Cat(p, j) \in DOMAIN D /\ U[j] = D[Cat(p, j)]
      BY <1>1, <1>2, <2>0
    <3>2. \A k \in DOMAIN D : k = Cat(p, j)
      BY <1>3, <2>0
    <3>3. Cat(p, j) \in Paths
      BY CatPath
    <3> QED
      BY <3>1, <3>2, <3>3
  <2>2. TrieOf(D) = LeafHash(Cat(p, j), D[Cat(p, j)])
    BY <2>1, TrieLeaf
  <2>3. TrieOf(U) = LeafHash(j, U[j])
    BY <1>1, <1>5, TrieLeaf
  <2> QED
    BY <2>1, <2>2, <2>3, Normal
<1>6. CASE Wide(U)
  <2>1. TrieOf(D) = ExtHash(p, TrieOf(U))
    BY <1>6, TrieExtension
  <2>2. TrieOf(U) = BranchHash(Kids(U), Lookup(U, <<>>))
    BY <1>1, <1>6, TrieBranch
  <2> QED
    BY <2>1, <2>2, Normal
<1>7. ASSUME NEW c \in Paths, c # <<>>, Fronts(c, DOMAIN U), Wide(Under(U, c))
      PROVE  normalize_extension(p, TrieOf(U)) = TrieOf(D)
  <2> DEFINE x == Cat(p, c)
  <2>1. x \in Paths /\ x # <<>>
    <3>1. Cat(p, c) \in Paths
      BY CatPath
    <3>2. Len(Cat(p, c)) = Len(p) + Len(c)
      BY CatIs, Zenon
    <3>3. Len(p) \in Nat /\ Len(c) \in Nat /\ Len(c) # 0
      BY <1>7, PathIs, NoPath
    <3>4. Len(x) # 0
      BY <3>2, <3>3
    <3> QED
      BY <3>1, <3>4, NoPath
  <2>2. Under(U, c) = Under(D, x)
    BY UnderUnder
  <2>3. Fronts(x, DOMAIN D)
    <3> SUFFICES ASSUME NEW k \in DOMAIN D PROVE \E s \in Paths : k = Cat(x, s)
      BY DEF Fronts
    <3>1. PICK r \in DOMAIN U : k = Cat(p, r)
      BY <1>3
    <3>2. PICK s \in Paths : r = Cat(c, s)
      BY <1>7 DEF Fronts
    <3>3. k = Cat(x, s)
      BY <3>1, <3>2, CatAssoc
    <3> QED
      BY <3>3
  <2> HIDE DEF x
  <2>4. TrieOf(D) = ExtHash(x, TrieOf(Under(D, x)))
    BY <1>7, <2>1, <2>2, <2>3, TrieExtension
  <2>5. TrieOf(U) = ExtHash(c, TrieOf(Under(U, c)))
    BY <1>1, <1>7, TrieExtension
  <2>6. normalize_extension(p, ExtHash(c, TrieOf(Under(U, c)))) = ExtHash(x, TrieOf(Under(U, c)))
    BY Normal DEF x
  <2> QED
    BY <2>2, <2>4, <2>5, <2>6
<1> QED
  BY <1>1, <1>4, <1>5, <1>6, <1>7, TrieCases

\* The nibbles that have a subtrie.
LEMMA KidsPresent ==
  ASSUME NEW D, IsContent(D), NEW n \in Nibbles
  PROVE  Kids(D)[n] # Absent <=> \E k \in DOMAIN D : k # <<>> /\ k[1] = n
<1> DEFINE U == Under(D, One(n))
<1>1. One(n) \in Paths
  BY OnePath
<1>2. \A r : r \in DOMAIN U <=> r \in Paths /\ Cat(One(n), r) \in DOMAIN D
  BY <1>1, UnderIs, Zenon
<1>3. Kids(D)[n] # Absent <=> DOMAIN U # {}
  <2>1. Some(TrieOf(U)) # Absent
    BY DEF Some, Absent
  <2> QED
    BY <2>1, KidsIs
<1> HIDE DEF U
<1>4. ASSUME NEW k \in DOMAIN D, k # <<>>, k[1] = n PROVE DOMAIN U # {}
  <2>1. k \in Paths
    BY DEF IsContent
  <2>2. Tail(k) \in Paths /\ k = Cat(One(n), Tail(k))
    BY <1>4, <2>1, FirstNibble
  <2> QED
    BY <1>2, <2>2
<1>5. ASSUME NEW r \in DOMAIN U PROVE \E k \in DOMAIN D : k # <<>> /\ k[1] = n
  BY <1>2, OneCat
<1> QED
  BY <1>3, <1>4, <1>5

\* A branch collapses to the trie of what is left under it.
LEMMA Collapse ==
  ASSUME NEW D, IsContent(D)
  PROVE  collapse_branch(Kids(D), Lookup(D, <<>>)) = Left(D)
<1> DEFINE kids == Kids(D)
<1> DEFINE value == Lookup(D, <<>>)
<1> DEFINE present == {n \in Nibbles : kids[n] # Absent}
<1>1. \A k \in DOMAIN D : k \in Paths /\ (k # <<>> => k[1] \in Nibbles)
  <2>1. \A k \in DOMAIN D : k \in Paths
    BY DEF IsContent
  <2> QED
    BY <2>1, FirstNibble
<1>2. \A k \in DOMAIN D : k # <<>> => k[1] \in present
  BY <1>1, KidsPresent
<1>3. \A n \in present : \E k \in DOMAIN D : k # <<>> /\ k[1] = n
  BY KidsPresent
<1>4. value = Absent <=> <<>> \notin DOMAIN D
  BY DEF Lookup, Some, Absent
<1>5. value # Absent => value = Some(D[<<>>]) /\ value[1] = D[<<>>]
  BY DEF Lookup, Some
<1>6. IsFiniteSet(present)
  <2>1. present \in SUBSET (0 .. Radix - 1)
    BY DEF Nibbles
  <2>2. IsFiniteSet(0 .. Radix - 1)
    BY FS_Interval, RadixAssumption
  <2> QED
    BY <2>1, <2>2, FS_Subset
<1>7. present \in SUBSET Nibbles
  OBVIOUS
<1>8. collapse_branch(kids, value) =
        CASE present = {} /\ value = Absent -> Absent
          [] present = {} /\ value # Absent -> Some(LeafHash(<<>>, value[1]))
          [] Cardinality(present) = 1 /\ value = Absent ->
                Some(prefix_child(CHOOSE n \in present : TRUE, kids[CHOOSE n \in present : TRUE][1]))
          [] OTHER -> Some(BranchHash(kids, value))
  BY DEF collapse_branch, LeafHash, BranchHash
<1> HIDE DEF present
<1>9. CASE present = {} /\ value = Absent
  <2>1. DOMAIN D = {}
    BY <1>2, <1>4, <1>9
  <2> HIDE DEF kids, value
  <2>2. collapse_branch(kids, value) = Absent
    <3>1. Cardinality(present) # 1
      BY <1>9, FS_EmptySet
    <3> QED
      BY <1>8, <1>9, <3>1
  <2> QED
    BY <2>1, <2>2 DEF Left, kids, value
<1>10. CASE present = {} /\ value # Absent
  <2>1. DOMAIN D = {<<>>}
    BY <1>2, <1>4, <1>10
  <2>2. TrieOf(D) = LeafHash(<<>>, D[<<>>])
    BY <2>1, NoPath, TrieLeaf
  <2> HIDE DEF kids, value
  <2>3. collapse_branch(kids, value) = Some(LeafHash(<<>>, value[1]))
    BY <1>8, <1>10
  <2> QED
    BY <1>5, <1>10, <2>1, <2>2, <2>3 DEF Left, kids, value
<1>11. CASE present # {} /\ Cardinality(present) = 1 /\ value = Absent
  <2>1. PICK n : present = {n}
    BY <1>6, <1>11, FS_Singleton
  <2>2. (CHOOSE m \in present : TRUE) = n /\ n \in Nibbles
    BY <1>7, <2>1
  <2> DEFINE U == Under(D, One(n))
  <2>3. DOMAIN U # {} /\ kids[n] = Some(TrieOf(U))
    <3>1. kids[n] # Absent
      BY <2>1 DEF present
    <3> QED
      BY <2>2, <3>1, KidsIs
  <2>4. Fronts(One(n), DOMAIN D) /\ DOMAIN D # {}
    <3>1. ASSUME NEW k \in DOMAIN D PROVE \E r \in Paths : k = Cat(One(n), r)
      <4>1. k # <<>> /\ k[1] = n /\ k \in Paths
        BY <1>1, <1>2, <1>4, <1>11, <2>1
      <4>2. Tail(k) \in Paths /\ k = Cat(One(n), Tail(k))
        BY <4>1, FirstNibble
      <4> QED
        BY <4>2
    <3>2. DOMAIN D # {}
      BY <1>3, <2>1
    <3> QED
      BY <3>1, <3>2 DEF Fronts
  <2>5. prefix_child(n, TrieOf(U)) = normalize_extension(One(n), TrieOf(U))
    BY DEF prefix_child, normalize_extension, One
  <2>6. One(n) \in Paths /\ One(n) # <<>>
    BY <2>2, OnePath DEF One
  <2>7. normalize_extension(One(n), TrieOf(U)) = TrieOf(D)
    BY <2>4, <2>6, Graft
  <2> HIDE DEF U, kids, value
  <2>8. kids[n][1] = TrieOf(U)
    BY <2>3 DEF Some
  <2>9. collapse_branch(kids, value) = Some(prefix_child(n, kids[n][1]))
    BY <1>8, <1>11, <2>2
  <2> QED
    BY <2>4, <2>5, <2>7, <2>8, <2>9 DEF Left, kids, value
<1>12. CASE present # {} /\ ~(Cardinality(present) = 1 /\ value = Absent)
  <2>1. PICK n \in present : TRUE
    BY <1>12
  <2>2. PICK k \in DOMAIN D : k # <<>> /\ k[1] = n
    BY <1>3
  <2>3. Wide(D)
    <3>1. CASE value # Absent
      BY <1>4, <2>2, <3>1 DEF Wide, Parted
    <3>2. CASE Cardinality(present) # 1
      <4>1. PICK m \in present : m # n
        BY <1>6, <2>1, <3>2, FS_Singleton
      <4>2. PICK j \in DOMAIN D : j # <<>> /\ j[1] = m
        BY <1>3
      <4> QED
        BY <2>2, <4>1, <4>2 DEF Wide, Parted
    <3> QED
      BY <1>12, <3>1, <3>2
  <2>4. TrieOf(D) = BranchHash(kids, value)
    BY <2>3, TrieBranch
  <2> HIDE DEF kids, value
  <2>5. collapse_branch(kids, value) = Some(BranchHash(kids, value))
    BY <1>8, <1>12
  <2> QED
    BY <2>2, <2>4, <2>5 DEF Left, kids, value
<1> QED
  BY <1>9, <1>10, <1>11, <1>12

\* A branch after a removal under one nibble.
LEMMA KidsLess ==
  ASSUME NEW C, IsContent(C), NEW n \in Nibbles, NEW r \in Paths, NEW k, k = Cat(One(n), r)
  PROVE  /\ Kids(Less(C, k)) = [Kids(C) EXCEPT ![n] = Left(Less(Under(C, One(n)), r))]
         /\ Lookup(Less(C, k), <<>>) = Lookup(C, <<>>)
<1> DEFINE W == Less(C, k)
<1> DEFINE U == Under(C, One(n))
<1>1. One(n) \in Paths /\ k \in Paths /\ k # <<>> /\ k[1] = n
  BY OnePath, OneCat
<1>2. Under(W, One(n)) = Less(U, r)
  BY <1>1, UnderLess
<1>4. Kid(W, One(n)) = Left(Less(U, r))
  BY <1>2 DEF Kid, Left
<1>5. ASSUME NEW m \in Nibbles, m # n PROVE Kid(W, One(m)) = Kid(C, One(m))
  <2>1. One(m) \in Paths /\ \A s \in Paths : k # Cat(One(m), s)
    BY <1>1, <1>5, OnePath, OneCat
  <2>2. Under(W, One(m)) = Under(C, One(m))
    BY <1>1, <2>1, UnderOther
  <2> QED
    BY <2>2 DEF Kid
<1>6. DOMAIN W = DOMAIN C \ {k} /\ \A j \in DOMAIN C \ {k} : W[j] = C[j]
  BY <1>1, LessIs, Zenon
<1> DEFINE e == <<>>
<1>7. e # k
  BY <1>1
<1> DEFINE h == Left(Less(U, r))
<1> HIDE DEF W, U, e, h
<1>8. Lookup(W, e) = Lookup(C, e)
  BY <1>6, <1>7 DEF Lookup
<1>9. Kids(W) = [Kids(C) EXCEPT ![n] = h]
  BY <1>4, <1>5 DEF Kids, h
<1> QED
  BY <1>8, <1>9 DEF W, U, e, h

\* The value of a branch taken off.
LEMMA KidsUnvalued ==
  ASSUME NEW C, IsContent(C)
  PROVE  Kids(Less(C, <<>>)) = Kids(C) /\ Lookup(Less(C, <<>>), <<>>) = Absent
<1> DEFINE e == <<>>
<1> DEFINE W == Less(C, e)
<1>1. e \in Paths
  BY NoPath
<1>2. ASSUME NEW m \in Nibbles PROVE Kid(W, One(m)) = Kid(C, One(m))
  <2>1. One(m) \in Paths /\ \A s \in Paths : e # Cat(One(m), s)
    BY OnePath, OneCat
  <2>2. Under(W, One(m)) = Under(C, One(m))
    BY <1>1, <2>1, UnderOther
  <2> QED
    BY <2>2 DEF Kid
<1>3. e \notin DOMAIN W
  BY DEF Less
<1> HIDE DEF W, e
<1>4. Kids(W) = Kids(C) /\ Lookup(W, e) = Absent
  BY <1>2, <1>3 DEF Kids, Lookup
<1> QED
  BY <1>4 DEF W, e

\* remove at each kind of node.
LEMMA RemoveHereIs ==
  /\ \A k \in Paths : \A v : RemoveHere(At(LeafHash(k, v), k)) = Absent
  /\ \A c, v : v # Absent => RemoveHere(At(BranchHash(c, v), <<>>)) = collapse_branch(c, Absent)
<1>1. ASSUME NEW k \in Paths, NEW v PROVE RemoveHere(At(LeafHash(k, v), k)) = Absent
  <2> DEFINE s == At(LeafHash(k, v), k)
  <2>1. deserialize_node(s.h) = [kind |-> "Leaf", path |-> k, value |-> v] /\ s.key = k
    BY AtIs, LeafNode DEF leaf
  <2> HIDE DEF s
  <2>2. RemoveHere(s) = Absent
    BY <2>1 DEF RemoveHere
  <2> QED
    BY <2>2 DEF s
<1>2. ASSUME NEW c, NEW v, v # Absent PROVE RemoveHere(At(BranchHash(c, v), <<>>)) = collapse_branch(c, Absent)
  <2> DEFINE s == At(BranchHash(c, v), <<>>)
  <2>1. deserialize_node(s.h) = [kind |-> "Branch", children |-> c, value |-> v] /\ s.key = <<>>
    BY AtIs, BranchNode DEF branch
  <2> HIDE DEF s
  <2>2. RemoveHere(s) = collapse_branch(c, Absent)
    BY <1>2, <2>1 DEF RemoveHere
  <2> QED
    BY <2>2 DEF s
<1> QED
  BY <1>1, <1>2

\* The node on the way with what is left below it.
LEMMA UnlinkedIs ==
  /\ \A p \in Paths : \A g, k, h : Unlinked(At(ExtHash(p, g), k), Some(h)) = Some(normalize_extension(p, h))
  /\ \A c, v, k : Unlinked(At(BranchHash(c, v), k), Absent) = collapse_branch([c EXCEPT ![k[1]] = Absent], v)
  /\ \A c, v, k, h : Unlinked(At(BranchHash(c, v), k), Some(h)) = Some(BranchHash([c EXCEPT ![k[1]] = Some(h)], v))
<1>0. \A h : Some(h) # Absent /\ Some(h)[1] = h
  BY DEF Some, Absent
<1>1. ASSUME NEW p \in Paths, NEW g, NEW k, NEW h
      PROVE  Unlinked(At(ExtHash(p, g), k), Some(h)) = Some(normalize_extension(p, h))
  <2> DEFINE s == At(ExtHash(p, g), k)
  <2>1. deserialize_node(s.h) = [kind |-> "Extension", path |-> p, next |-> g]
    BY AtIs, ExtNode DEF extension
  <2> HIDE DEF s
  <2>2. Unlinked(s, Some(h)) = Some(normalize_extension(p, h))
    BY <1>0, <2>1 DEF Unlinked
  <2> QED
    BY <2>2 DEF s
<1>2. ASSUME NEW c, NEW v, NEW k, NEW left
      PROVE  Unlinked(At(BranchHash(c, v), k), left) =
               IF left = Absent THEN collapse_branch([c EXCEPT ![k[1]] = left], v)
               ELSE Some(BranchHash([c EXCEPT ![k[1]] = left], v))
  <2> DEFINE s == At(BranchHash(c, v), k)
  <2>1. deserialize_node(s.h) = [kind |-> "Branch", children |-> c, value |-> v] /\ s.key = k
    BY AtIs, BranchNode DEF branch
  <2> HIDE DEF s
  <2>2. Unlinked(s, left) =
               IF left = Absent THEN collapse_branch([c EXCEPT ![k[1]] = left], v)
               ELSE Some(BranchHash([c EXCEPT ![k[1]] = left], v))
    BY <2>1 DEF Unlinked, BranchHash
  <2> QED
    BY <2>2 DEF s
<1> QED
  BY <1>0, <1>1, <1>2

\* A branch stays one while something is left under the nibble.
LEMMA WideLess ==
  ASSUME NEW C, IsContent(C), Wide(C), NEW k \in Paths, k # <<>>,
         NEW r \in DOMAIN Less(Under(C, One(k[1])), Tail(k))
  PROVE  Wide(Less(C, k))
<1> DEFINE U == Under(C, One(k[1]))
<1> DEFINE j == Cat(One(k[1]), r)
<1>1. k[1] \in Nibbles /\ Tail(k) \in Paths /\ k = Cat(One(k[1]), Tail(k)) /\ One(k[1]) \in Paths
  BY FirstNibble, OnePath
<1>2. IsContent(U) /\ \A s : s \in DOMAIN U <=> s \in Paths /\ Cat(One(k[1]), s) \in DOMAIN C
  BY <1>1, UnderIs, Zenon
<1>3. r \in DOMAIN U /\ r # Tail(k)
  BY DEF Less
<1> HIDE DEF U
<1>4. r \in Paths /\ j \in DOMAIN C
  BY <1>2, <1>3
<1>5. j # <<>> /\ j[1] = k[1] /\ j # k
  BY <1>1, <1>3, <1>4, OneCat
<1> HIDE DEF j
<1>6. DOMAIN Less(C, k) = DOMAIN C \ {k}
  BY DEF Less
<1>7. PICK x, y \in DOMAIN C : x # y /\ Parted(x, y)
  BY DEF Wide
<1>8. CASE x # k /\ y # k
  BY <1>6, <1>7, <1>8 DEF Wide
<1>9. CASE x = k
  <2>1. y # k /\ Parted(j, y) /\ j # y
    BY <1>5, <1>7, <1>9 DEF Parted
  <2> QED
    BY <1>4, <1>5, <1>6, <1>7, <2>1 DEF Wide
<1>10. CASE y = k
  <2>1. x # k /\ Parted(x, j) /\ j # x
    BY <1>5, <1>7, <1>10 DEF Parted
  <2> QED
    BY <1>4, <1>5, <1>6, <1>7, <2>1 DEF Wide
<1> QED
  BY <1>8, <1>9, <1>10

\* A path taken off a branch, given the same below it.
LEMMA RemoveWide ==
  ASSUME NEW C, IsContent(C), Wide(C), NEW k \in DOMAIN C, k \in Paths,
         k # <<>> => remove(TrieOf(Under(C, One(k[1]))), Tail(k)) = Left(Less(Under(C, One(k[1])), Tail(k)))
  PROVE  remove(TrieOf(C), k) = Left(Less(C, k))
<1> DEFINE W == Less(C, k)
<1>0. TrieOf(C) = BranchHash(Kids(C), Lookup(C, <<>>))
  BY TrieBranch
<1>1. IsContent(W)
  BY LessIs, Zenon
<1>2. CASE k = <<>>
  <2>1. Stays(TrieOf(C), k)
    BY <1>2, TrieDownBranch, OnEnd
  <2>2. remove(TrieOf(C), k) = RemoveHere(At(TrieOf(C), k))
    BY <2>1 DEF Stays
  <2>3. Lookup(C, <<>>) # Absent
    BY <1>2 DEF Lookup, Some, Absent
  <2>4. remove(TrieOf(C), k) = collapse_branch(Kids(C), Absent)
    BY <1>0, <1>2, <2>2, <2>3, RemoveHereIs
  <2>5. Kids(W) = Kids(C) /\ Lookup(W, <<>>) = Absent
    BY <1>2, KidsUnvalued
  <2> HIDE DEF W
  <2>6. collapse_branch(Kids(W), Lookup(W, <<>>)) = Left(W)
    BY <1>1, Collapse
  <2> QED
    BY <2>4, <2>5, <2>6 DEF W
<1>3. CASE k # <<>>
  <2> DEFINE n == k[1]
  <2> DEFINE t == Tail(k)
  <2> DEFINE U == Under(C, One(n))
  <2> DEFINE V == Less(U, t)
  <2>1. n \in Nibbles /\ t \in Paths /\ k = Cat(One(n), t)
    BY <1>3, FirstNibble
  <2>2. One(n) \in Paths
    BY <2>1, OnePath
  <2>3. IsContent(U) /\ \A s : s \in DOMAIN U <=> s \in Paths /\ Cat(One(n), s) \in DOMAIN C
    BY <2>2, UnderIs, Zenon
  <2>4. DOMAIN U # {}
    BY <2>1, <2>3
  <2>5. Passes(TrieOf(C), k, TrieOf(U), t)
    BY <1>3, <2>4, OnBranch
  <2>6. remove(TrieOf(C), k) = Unlinked(At(TrieOf(C), k), Left(V))
    BY <1>3, <2>5 DEF Passes
  <2>7. Kids(W) = [Kids(C) EXCEPT ![n] = Left(V)] /\ Lookup(W, <<>>) = Lookup(C, <<>>)
    <3> HIDE DEF n, t
    <3> QED
      BY <2>1, KidsLess
  <2>8. CASE DOMAIN V = {}
    <3>1. Left(V) = Absent
      BY <2>8 DEF Left
    <3> HIDE DEF V, U
    <3>2. Unlinked(At(BranchHash(Kids(C), Lookup(C, <<>>)), k), Absent)
            = collapse_branch([Kids(C) EXCEPT ![k[1]] = Absent], Lookup(C, <<>>))
      BY UnlinkedIs
    <3> HIDE DEF W
    <3>3. collapse_branch(Kids(W), Lookup(W, <<>>)) = Left(W)
      BY <1>1, Collapse
    <3> QED
      BY <1>0, <2>6, <2>7, <3>1, <3>2, <3>3 DEF W
  <2>9. CASE DOMAIN V # {}
    <3>1. Left(V) = Some(TrieOf(V))
      BY <2>9 DEF Left
    <3>2. Wide(W)
      BY <1>3, <2>9, WideLess
    <3> HIDE DEF V, U
    <3>3. Unlinked(At(BranchHash(Kids(C), Lookup(C, <<>>)), k), Some(TrieOf(V)))
            = Some(BranchHash([Kids(C) EXCEPT ![k[1]] = Some(TrieOf(V))], Lookup(C, <<>>)))
      BY UnlinkedIs
    <3> HIDE DEF W
    <3>4. TrieOf(W) = BranchHash(Kids(W), Lookup(W, <<>>))
      BY <1>1, <3>2, TrieBranch
    <3>5. DOMAIN W # {}
      BY <3>2 DEF Wide
    <3>6. Left(W) = Some(TrieOf(W))
      BY <3>5 DEF Left
    <3> QED
      BY <1>0, <2>6, <2>7, <3>1, <3>3, <3>4, <3>6 DEF W
  <2> QED
    BY <2>8, <2>9
<1> QED
  BY <1>2, <1>3

\* And under an extension.
LEMMA RemoveLong ==
  ASSUME NEW C, IsContent(C), NEW c \in Paths, c # <<>>, Fronts(c, DOMAIN C), NEW U, U = Under(C, c), Wide(U),
         NEW k \in DOMAIN C, NEW r \in Paths, k = Cat(c, r), remove(TrieOf(U), r) = Left(Less(U, r))
  PROVE  remove(TrieOf(C), k) = Left(Less(C, k))
<1> DEFINE W == Less(C, k)
<1> DEFINE V == Less(U, r)
<1>0. TrieOf(C) = ExtHash(c, TrieOf(U)) /\ k \in Paths
  BY TrieExtension, CatPath
<1>1. IsContent(W) /\ DOMAIN W = DOMAIN C \ {k}
  BY <1>0, LessIs, Zenon
<1>2. Passes(TrieOf(C), k, TrieOf(U), r)
  BY OnExt
<1>3. remove(TrieOf(C), k) = Unlinked(At(TrieOf(C), k), Left(V))
  BY <1>2 DEF Passes
<1>4. Under(W, c) = V
  BY UnderLess
<1>5. DOMAIN V # {}
  BY DEF Wide, Less
<1>6. Left(V) = Some(TrieOf(V))
  BY <1>5 DEF Left
<1>7. Unlinked(At(ExtHash(c, TrieOf(U)), k), Some(TrieOf(V))) = Some(normalize_extension(c, TrieOf(V)))
  BY UnlinkedIs
<1> HIDE DEF W, V
<1>8. Fronts(c, DOMAIN W)
  BY <1>1 DEF Fronts
<1>9. DOMAIN W # {}
  <2>1. \A s : s \in DOMAIN Under(W, c) <=> s \in Paths /\ Cat(c, s) \in DOMAIN W
    BY <1>1, UnderIs, Zenon
  <2> QED
    BY <1>4, <1>5, <2>1
<1>10. normalize_extension(c, TrieOf(V)) = TrieOf(W)
  BY <1>1, <1>4, <1>8, <1>9, Graft
<1>11. Left(W) = Some(TrieOf(W))
  BY <1>9 DEF Left
<1> QED
  BY <1>0, <1>3, <1>6, <1>7, <1>10, <1>11 DEF W

\* A remove leaves the trie of the content without the path.
LEMMA TrieRemove ==
  ASSUME NEW C, IsContent(C), NEW k \in DOMAIN C
  PROVE  remove(TrieOf(C), k) = Left(Less(C, k))
<1> DEFINE P == {n \in Nat : \A D, j : IsContent(D) /\ j \in DOMAIN D /\ j \in Paths /\ Len(j) < n =>
                                         remove(TrieOf(D), j) = Left(Less(D, j))}
<1>1. 0 \in P
  BY PathIs
<1>2. ASSUME NEW n \in Nat, n \in P PROVE n + 1 \in P
  <2> SUFFICES ASSUME NEW D, NEW j, IsContent(D), j \in DOMAIN D, j \in Paths, Len(j) < n + 1
               PROVE  remove(TrieOf(D), j) = Left(Less(D, j))
    OBVIOUS
  <2>1. \A E, i : IsContent(E) /\ i \in DOMAIN E /\ i \in Paths /\ Len(i) < n => remove(TrieOf(E), i) = Left(Less(E, i))
    BY <1>2
  <2> HIDE DEF P
  <2>2. Len(j) \in Nat
    BY PathIs
  <2>3. ASSUME NEW E, NEW i \in Paths, IsContent(E), i \in DOMAIN E, Len(i) < Len(j)
        PROVE  remove(TrieOf(E), i) = Left(Less(E, i))
    <3>1. Len(i) \in Nat
      BY PathIs
    <3> QED
      BY <2>1, <2>2, <2>3, <3>1
  <2>5. CASE \E i \in Paths : DOMAIN D = {i}
    <3>1. DOMAIN D = {j}
      BY <2>5
    <3>2. TrieOf(D) = LeafHash(j, D[j])
      BY <3>1, TrieLeaf
    <3>3. remove(TrieOf(D), j) = RemoveHere(At(LeafHash(j, D[j]), j))
      BY <3>2, DownLeaf, OnEnd DEF Stays
    <3>4. DOMAIN Less(D, j) = {}
      BY <3>1 DEF Less
    <3> QED
      BY <3>3, <3>4, RemoveHereIs DEF Left
  <2>7. CASE Wide(D)
    <3> DEFINE U == Under(D, One(j[1]))
    <3>2. ASSUME j # <<>> PROVE remove(TrieOf(U), Tail(j)) = Left(Less(U, Tail(j)))
      <4>1. j[1] \in Nibbles /\ Tail(j) \in Paths /\ Len(Tail(j)) = Len(j) - 1 /\ j = Cat(One(j[1]), Tail(j))
        BY <3>2, FirstNibble
      <4>2. One(j[1]) \in Paths
        BY <4>1, OnePath
      <4>3. IsContent(U) /\ \A s : s \in DOMAIN U <=> s \in Paths /\ Cat(One(j[1]), s) \in DOMAIN D
        BY <4>2, UnderIs, Zenon
      <4> HIDE DEF U
      <4>4. Tail(j) \in DOMAIN U /\ Len(Tail(j)) < Len(j)
        BY <2>2, <4>1, <4>3
      <4> QED
        BY <2>3, <4>1, <4>3, <4>4, Zenon
    <3> QED
      BY <2>7, <3>2, RemoveWide DEF U
  <2>8. CASE \E c \in Paths : c # <<>> /\ Fronts(c, DOMAIN D) /\ Wide(Under(D, c))
    <3>1. PICK c \in Paths : c # <<>> /\ Fronts(c, DOMAIN D) /\ Wide(Under(D, c))
      BY <2>8
    <3> DEFINE U == Under(D, c)
    <3>2. IsContent(U) /\ \A s : s \in DOMAIN U <=> s \in Paths /\ Cat(c, s) \in DOMAIN D
      BY UnderIs, Zenon
    <3>3. PICK r \in Paths : j = Cat(c, r)
      BY <3>1 DEF Fronts
    <3>4. Len(r) < Len(j) /\ r \in DOMAIN U
      BY <3>1, <3>2, <3>3, OnExt, Zenon
    <3>5. remove(TrieOf(U), r) = Left(Less(U, r))
      <4> HIDE DEF U
      <4> QED
        BY <2>3, <3>2, <3>4, Zenon
    <3> QED
      BY <3>1, <3>3, <3>5, RemoveLong
  <2>9. DOMAIN D # {}
    OBVIOUS
  <2> QED
    BY <2>5, <2>7, <2>8, <2>9, TrieCases
<1>3. \A n \in Nat : n \in P
  <2> HIDE DEF P
  <2> QED
    BY <1>1, <1>2, NumberInduction
<1>0. k \in Paths
  BY DEF IsContent
<1>4. Len(k) \in Nat /\ Len(k) + 1 \in Nat /\ Len(k) < Len(k) + 1
  BY <1>0, PathIs
<1>5. Len(k) + 1 \in P
  BY <1>3, <1>4
<1> QED
  BY <1>0, <1>4, <1>5

----------------------------------------------------------------------------
(* Keys and their paths.                                                   *)

\* The path of a key is a path, and no two keys have the same.
LEMMA KeyPath ==
  ASSUME NEW k \in Bytes
  PROVE  /\ IsSeq(k) /\ Len(k) \in Nat
         /\ bytes_to_nibbles(k) \in Paths /\ Len(bytes_to_nibbles(k)) = 2 * Len(k)
         /\ \A i \in 1 .. Len(k) : /\ k[i] = <<bytes_to_nibbles(k)[2 * i - 1], bytes_to_nibbles(k)[2 * i]>>
<1> DEFINE p == bytes_to_nibbles(k)
<1>1. IsSeq(k) /\ Len(k) \in Nat
  BY SeqIs, LenIs DEF Bytes
<1>2. \A i \in 1 .. Len(k) : k[i] \in Nibbles \X Nibbles
  BY ElementOfSeq DEF Bytes
<1>3. \A i \in 1 .. Len(k) : /\ k[i][1] \in Nibbles /\ k[i][2] \in Nibbles /\ k[i] = <<k[i][1], k[i][2]>>
  BY <1>2
<1> DEFINE m == 2 * Len(k)
<1>4. p = [i \in 1 .. m |-> k[(i + 1) \div 2][2 - (i % 2)]]
  BY DEF bytes_to_nibbles
<1>5. m \in Nat
  BY <1>1
<1>6. ASSUME NEW i \in 1 .. m PROVE k[(i + 1) \div 2][2 - (i % 2)] \in Nibbles
  <2>1. (i + 1) \div 2 \in 1 .. Len(k) /\ (i % 2 = 0 \/ i % 2 = 1)
    BY <1>1
  <2>2. 2 - (i % 2) = 1 \/ 2 - (i % 2) = 2
    BY <2>1
  <2> QED
    BY <1>3, <2>1, <2>2
<1> HIDE DEF m
<1>7. p \in [1 .. m -> Nibbles]
  BY <1>4, <1>6
<1>8. p \in Paths /\ Len(p) = m
  <2>1. p \in Seq(Nibbles)
    BY <1>5, <1>7
  <2>2. DOMAIN p = 1 .. m
    BY <1>7
  <2> HIDE DEF p
  <2>3. Len(p) \in Nat /\ DOMAIN p = 1 .. Len(p)
    BY <2>1
  <2>4. Len(p) = m
    BY <1>5, <2>2, <2>3
  <2> QED
    BY <2>1, <2>4 DEF Paths
<1>9. ASSUME NEW i \in 1 .. Len(k) PROVE k[i] = <<p[2 * i - 1], p[2 * i]>>
  <2>1. 2 * i - 1 \in 1 .. m /\ 2 * i \in 1 .. m
    BY <1>1 DEF m
  <2>2. ((2 * i - 1) + 1) \div 2 = i /\ (2 * i - 1) % 2 = 1 /\ (2 * i + 1) \div 2 = i /\ (2 * i) % 2 = 0
    BY <1>1
  <2>3. p[2 * i - 1] = k[((2 * i - 1) + 1) \div 2][2 - ((2 * i - 1) % 2)]
    BY <1>4, <2>1
  <2>4. p[2 * i] = k[(2 * i + 1) \div 2][2 - ((2 * i) % 2)]
    BY <1>4, <2>1
  <2>5. p[2 * i - 1] = k[i][1] /\ p[2 * i] = k[i][2]
    BY <2>2, <2>3, <2>4
  <2> QED
    BY <1>3, <2>5
<1> QED
  BY <1>1, <1>8, <1>9 DEF m

\* Different keys have different paths.
LEMMA KeyOfPath ==
  ASSUME NEW k \in Bytes, NEW j \in Bytes, bytes_to_nibbles(k) = bytes_to_nibbles(j)
  PROVE  k = j
<1>1. IsSeq(k) /\ Len(k) \in Nat /\ Len(bytes_to_nibbles(k)) = 2 * Len(k)
  BY KeyPath, Zenon
<1>2. IsSeq(j) /\ Len(j) \in Nat /\ Len(bytes_to_nibbles(j)) = 2 * Len(j)
  BY KeyPath, Zenon
<1>3. Len(k) = Len(j)
  BY <1>1, <1>2
<1>4. \A i \in 1 .. Len(k) : k[i] = <<bytes_to_nibbles(k)[2 * i - 1], bytes_to_nibbles(k)[2 * i]>>
  BY KeyPath, Zenon
<1>5. \A i \in 1 .. Len(j) : j[i] = <<bytes_to_nibbles(j)[2 * i - 1], bytes_to_nibbles(j)[2 * i]>>
  BY KeyPath, Zenon
<1>6. \A i \in 1 .. Len(k) : k[i] = j[i]
  BY <1>3, <1>4, <1>5
<1> QED
  BY <1>1, <1>2, <1>3, <1>6, SeqExt

\* Values by key, of a finite set of keys, some of them absent.
Store(f) ==
    /\ f = [k \in DOMAIN f |-> f[k]] /\ DOMAIN f \in SUBSET Bytes /\ IsFiniteSet(DOMAIN f)
    /\ \A k \in DOMAIN f : f[k] = Absent \/ \E v : f[k] = Some(v)

\* By path they are a content.
LEMMA ByPathIs ==
  ASSUME NEW f, Store(f)
  PROVE  /\ IsContent(ByPath(f))
         /\ \A p : p \in DOMAIN ByPath(f) <=> \E k \in DOMAIN f : f[k] # Absent /\ p = bytes_to_nibbles(k)
         /\ \A k \in DOMAIN f : f[k] # Absent => ByPath(f)[bytes_to_nibbles(k)] = f[k][1]
<1> DEFINE C == ByPath(f)
<1> DEFINE K == {j \in DOMAIN f : f[j] # Absent}
<1> DEFINE D == {bytes_to_nibbles(k) : k \in K}
<1>1. C = [p \in D |-> f[CHOOSE k \in DOMAIN f : bytes_to_nibbles(k) = p][1]]
  BY DEF ByPath
<1>2. \A k \in DOMAIN f : k \in Bytes
  BY DEF Store
<1>3. D \in SUBSET Paths
  BY <1>2, KeyPath
<1>4. IsFiniteSet(D)
  <2> DEFINE g == [k \in K |-> bytes_to_nibbles(k)]
  <2>1. IsFiniteSet(K)
    <3>1. IsFiniteSet(DOMAIN f)
      BY DEF Store
    <3> QED
      BY <3>1, FS_Subset
  <2>2. g \in Surjection(K, D)
    BY DEF Surjection
  <2> HIDE DEF g, K, D
  <2> QED
    BY <2>1, <2>2, FS_Surjection
<1>5. DOMAIN C = D /\ C = [p \in DOMAIN C |-> C[p]]
  BY <1>1
<1>6. IsContent(C)
  BY <1>3, <1>4, <1>5 DEF IsContent
<1>7. ASSUME NEW k \in DOMAIN f, f[k] # Absent PROVE C[bytes_to_nibbles(k)] = f[k][1]
  <2>1. bytes_to_nibbles(k) \in D
    BY <1>7
  <2> DEFINE j == CHOOSE j \in DOMAIN f : bytes_to_nibbles(j) = bytes_to_nibbles(k)
  <2>2. j \in DOMAIN f /\ bytes_to_nibbles(j) = bytes_to_nibbles(k)
    OBVIOUS
  <2>3. C[bytes_to_nibbles(k)] = f[j][1]
    BY <1>1, <2>1
  <2> HIDE DEF j
  <2>4. j = k
    BY <1>2, <2>2, KeyOfPath
  <2> QED
    BY <2>3, <2>4
<1> QED
  BY <1>5, <1>6, <1>7

\* What the content has under the path of a key.
LEMMA ByPathAt ==
  ASSUME NEW f, Store(f), NEW k \in DOMAIN f
  PROVE  Lookup(ByPath(f), bytes_to_nibbles(k)) = f[k]
<1> DEFINE C == ByPath(f)
<1> DEFINE p == bytes_to_nibbles(k)
<1>1. p \in DOMAIN C <=> \E j \in DOMAIN f : f[j] # Absent /\ p = bytes_to_nibbles(j)
  BY ByPathIs, Zenon
<1>2. p \in DOMAIN C <=> f[k] # Absent
  <2>1. \A j \in DOMAIN f : j \in Bytes
    BY DEF Store
  <2>2. \A j \in DOMAIN f : p = bytes_to_nibbles(j) => j = k
    BY <2>1, KeyOfPath
  <2> HIDE DEF C, p
  <2> QED
    BY <1>1, <2>2 DEF p
<1>3. f[k] # Absent => C[p] = f[k][1]
  BY ByPathIs, Zenon
<1>4. f[k] # Absent => f[k] = Some(f[k][1])
  BY DEF Store, Some
<1> HIDE DEF C, p
<1>5. Lookup(C, p) = f[k]
  BY <1>2, <1>3, <1>4 DEF Lookup
<1> QED
  BY <1>5 DEF C, p

\* A value put under a key.
Placed(f, k, v, g) == g = [f EXCEPT ![k] = Some(v)]

\* By path, it is put under the key's path.
LEMMA ByPathPut ==
  ASSUME NEW f, Store(f), NEW k \in DOMAIN f, NEW v, NEW g, Placed(f, k, v, g)
  PROVE  Store(g) /\ ByPath(g) = With(ByPath(f), bytes_to_nibbles(k), v)
<1> DEFINE p == bytes_to_nibbles(k)
<1> DEFINE C == ByPath(f)
<1> DEFINE G == ByPath(g)
<1> DEFINE W == With(C, p, v)
<1>0. Some(v) # Absent /\ Some(v)[1] = v
  BY DEF Some, Absent
<1>1. DOMAIN g = DOMAIN f /\ g[k] = Some(v) /\ \A j \in DOMAIN f : j # k => g[j] = f[j]
  BY DEF Store, Placed
<1>3. Store(g)
  <2>1. g = [j \in DOMAIN g |-> g[j]]
    BY DEF Store, Placed
  <2>2. DOMAIN g \in SUBSET Bytes /\ IsFiniteSet(DOMAIN g)
    BY <1>1 DEF Store
  <2>3. \A j \in DOMAIN g : g[j] = Absent \/ \E w : g[j] = Some(w)
    BY <1>1 DEF Store
  <2> QED
    BY <2>1, <2>2, <2>3 DEF Store
<1>4. k \in Bytes /\ p \in Paths
  <2>1. k \in Bytes
    BY DEF Store
  <2> QED
    BY <2>1, KeyPath, Zenon
<1>5. IsContent(C) /\ \A q : q \in DOMAIN C <=> \E j \in DOMAIN f : f[j] # Absent /\ q = bytes_to_nibbles(j)
  BY ByPathIs, Zenon
<1>6. \A j \in DOMAIN f : f[j] # Absent => C[bytes_to_nibbles(j)] = f[j][1]
  BY ByPathIs, Zenon
<1>7. IsContent(G) /\ \A q : q \in DOMAIN G <=> \E j \in DOMAIN g : g[j] # Absent /\ q = bytes_to_nibbles(j)
  <2>1. ASSUME NEW h, Store(h)
        PROVE  /\ IsContent(ByPath(h))
               /\ \A q : q \in DOMAIN ByPath(h) <=> \E j \in DOMAIN h : h[j] # Absent /\ q = bytes_to_nibbles(j)
    BY <2>1, ByPathIs, Zenon
  <2> QED
    BY <1>3, <2>1, Zenon
<1>8. \A j \in DOMAIN g : g[j] # Absent => G[bytes_to_nibbles(j)] = g[j][1]
  BY <1>3, ByPathIs, Zenon
<1> HIDE DEF C, G
<1>9. IsContent(W) /\ DOMAIN W = DOMAIN C \cup {p} /\ \A q \in DOMAIN C : q # p => W[q] = C[q]
  BY <1>4, <1>5, WithIs, Zenon
<1>10. W[p] = v
  BY WithAt
<1> HIDE DEF W
<1>11. ASSUME NEW q PROVE q \in DOMAIN G <=> q \in DOMAIN W
  BY <1>0, <1>1, <1>5, <1>7, <1>9
<1>12. ASSUME NEW q \in DOMAIN G PROVE G[q] = W[q]
  <2>1. PICK j \in DOMAIN f : g[j] # Absent /\ q = bytes_to_nibbles(j)
    BY <1>1, <1>7
  <2>2. CASE j = k
    BY <1>0, <1>1, <1>8, <1>10, <2>1, <2>2
  <2>3. CASE j # k
    <3>1. j \in Bytes
      BY DEF Store
    <3>2. q # p
      BY <1>4, <2>1, <2>3, <3>1, KeyOfPath
    <3>3. f[j] # Absent /\ g[j] = f[j]
      BY <1>1, <2>1, <2>3
    <3>4. q \in DOMAIN C
      BY <1>5, <2>1, <3>3
    <3>5. G[q] = g[j][1] /\ C[q] = f[j][1]
      BY <1>1, <1>6, <1>8, <2>1, <3>3
    <3> QED
      BY <1>9, <3>2, <3>3, <3>4, <3>5
  <2> QED
    BY <2>2, <2>3
<1>13. G = W
  BY <1>7, <1>9, <1>11, <1>12, ContentExt
<1> QED
  BY <1>3, <1>13 DEF G, W, C

\* A key taken off.
Dropped(f, k, g) == g = [f EXCEPT ![k] = Absent]

\* By path, the key's path is taken off.
LEMMA ByPathDrop ==
  ASSUME NEW f, Store(f), NEW k \in DOMAIN f, NEW g, Dropped(f, k, g)
  PROVE  Store(g) /\ ByPath(g) = Less(ByPath(f), bytes_to_nibbles(k))
<1> DEFINE p == bytes_to_nibbles(k)
<1> DEFINE C == ByPath(f)
<1> DEFINE G == ByPath(g)
<1> DEFINE W == Less(C, p)
<1>1. DOMAIN g = DOMAIN f /\ g[k] = Absent /\ \A j \in DOMAIN f : j # k => g[j] = f[j]
  BY DEF Store, Dropped
<1>3. Store(g)
  <2>1. g = [j \in DOMAIN g |-> g[j]]
    BY DEF Store, Dropped
  <2>2. DOMAIN g \in SUBSET Bytes /\ IsFiniteSet(DOMAIN g)
    BY <1>1 DEF Store
  <2>3. \A j \in DOMAIN g : g[j] = Absent \/ \E w : g[j] = Some(w)
    BY <1>1 DEF Store
  <2> QED
    BY <2>1, <2>2, <2>3 DEF Store
<1>4. k \in Bytes /\ p \in Paths
  <2>1. k \in Bytes
    BY DEF Store
  <2> QED
    BY <2>1, KeyPath, Zenon
<1>5. IsContent(C) /\ \A q : q \in DOMAIN C <=> \E j \in DOMAIN f : f[j] # Absent /\ q = bytes_to_nibbles(j)
  BY ByPathIs, Zenon
<1>6. \A j \in DOMAIN f : f[j] # Absent => C[bytes_to_nibbles(j)] = f[j][1]
  BY ByPathIs, Zenon
<1>7. IsContent(G) /\ \A q : q \in DOMAIN G <=> \E j \in DOMAIN g : g[j] # Absent /\ q = bytes_to_nibbles(j)
  <2>1. ASSUME NEW h, Store(h)
        PROVE  /\ IsContent(ByPath(h))
               /\ \A q : q \in DOMAIN ByPath(h) <=> \E j \in DOMAIN h : h[j] # Absent /\ q = bytes_to_nibbles(j)
    BY <2>1, ByPathIs, Zenon
  <2> QED
    BY <1>3, <2>1, Zenon
<1>8. \A j \in DOMAIN g : g[j] # Absent => G[bytes_to_nibbles(j)] = g[j][1]
  BY <1>3, ByPathIs, Zenon
<1>14. \A j \in DOMAIN f : j # k => bytes_to_nibbles(j) # p
  <2>1. \A j \in DOMAIN f : j \in Bytes
    BY DEF Store
  <2> QED
    BY <1>4, <2>1, KeyOfPath
<1> HIDE DEF C, G
<1>9. IsContent(W) /\ DOMAIN W = DOMAIN C \ {p} /\ \A q \in DOMAIN C \ {p} : W[q] = C[q]
  BY <1>4, <1>5, LessIs, Zenon
<1> HIDE DEF W
<1>11. ASSUME NEW q PROVE q \in DOMAIN G <=> q \in DOMAIN W
  BY <1>1, <1>5, <1>7, <1>9, <1>14
<1>12. ASSUME NEW q \in DOMAIN G PROVE G[q] = W[q]
  <2>1. PICK j \in DOMAIN f : g[j] # Absent /\ q = bytes_to_nibbles(j)
    BY <1>1, <1>7
  <2>2. j # k /\ f[j] # Absent /\ g[j] = f[j] /\ q # p
    BY <1>1, <1>14, <2>1
  <2>3. q \in DOMAIN C
    BY <1>5, <2>1, <2>2
  <2>4. G[q] = g[j][1] /\ C[q] = f[j][1]
    BY <1>1, <1>6, <1>8, <2>1, <2>2
  <2> QED
    BY <1>9, <2>2, <2>3, <2>4
<1>13. G = W
  BY <1>7, <1>9, <1>11, <1>12, ContentExt
<1> QED
  BY <1>3, <1>13 DEF G, W, C

----------------------------------------------------------------------------
(* The trie of a store.                                                    *)

\* The root over some values by key.
RootOf(f) == TrieOf(ByPath(f))

\* A get, a put and a delete by key.
LEMMA StoreGet ==
  ASSUME NEW f, Store(f), NEW k \in DOMAIN f
  PROVE  trie_get(RootOf(f), k) = f[k]
<1>1. k \in Bytes
  BY DEF Store
<1>2. bytes_to_nibbles(k) \in Paths
  BY <1>1, KeyPath, Zenon
<1>3. IsContent(ByPath(f))
  BY ByPathIs, Zenon
<1>4. trie_get(RootOf(f), k) = Lookup(ByPath(f), bytes_to_nibbles(k))
  BY <1>2, <1>3, TrieGet DEF trie_get, RootOf
<1> QED
  BY <1>4, ByPathAt

\* A put gives the root of what is held with the new value.
LEMMA StorePut ==
  ASSUME NEW f, Store(f), NEW k \in DOMAIN f, NEW v
  PROVE  /\ Store([f EXCEPT ![k] = Some(v)])
         /\ trie_put(RootOf(f), k, v) = RootOf([f EXCEPT ![k] = Some(v)])
<1>1. k \in Bytes
  BY DEF Store
<1>2. bytes_to_nibbles(k) \in Paths
  BY <1>1, KeyPath, Zenon
<1>3. IsContent(ByPath(f))
  BY ByPathIs, Zenon
<1>4. trie_put(RootOf(f), k, v) = TrieOf(With(ByPath(f), bytes_to_nibbles(k), v))
  BY <1>2, <1>3, TrieInsert DEF trie_put, RootOf
<1> DEFINE g == [f EXCEPT ![k] = Some(v)]
<1>5. Store(g) /\ ByPath(g) = With(ByPath(f), bytes_to_nibbles(k), v)
  <2>1. Placed(f, k, v, g)
    BY DEF Placed
  <2> HIDE DEF g
  <2> QED
    BY <2>1, ByPathPut
<1> QED
  BY <1>4, <1>5 DEF RootOf

\* A delete gives the root of what is held without the key.
LEMMA StoreDrop ==
  ASSUME NEW f, Store(f), NEW k \in DOMAIN f
  PROVE  /\ Store([f EXCEPT ![k] = Absent])
         /\ trie_delete(RootOf(f), k) = RootOf([f EXCEPT ![k] = Absent])
<1> DEFINE p == bytes_to_nibbles(k)
<1> DEFINE C == ByPath(f)
<1>1. k \in Bytes
  BY DEF Store
<1>2. p \in Paths
  BY <1>1, KeyPath, Zenon
<1>3. IsContent(C)
  BY ByPathIs, Zenon
<1> DEFINE g == [f EXCEPT ![k] = Absent]
<1>5. Store(g) /\ ByPath(g) = Less(C, p)
  <2>1. Dropped(f, k, g)
    BY DEF Dropped
  <2> HIDE DEF g
  <2> QED
    BY <2>1, ByPathDrop
<1>6. trie_get(RootOf(f), k) = f[k]
  BY StoreGet
<1>7. CASE f[k] = Absent
  <2>1. g = f
    BY <1>7 DEF Store
  <2>2. trie_delete(RootOf(f), k) = RootOf(f)
    BY <1>6, <1>7 DEF trie_delete
  <2> QED
    BY <1>5, <2>1, <2>2
<1>8. CASE f[k] # Absent
  <2>1. p \in DOMAIN C
    BY <1>8, ByPathIs, Zenon
  <2>2. trie_delete(RootOf(f), k) = LET left == remove(TrieOf(C), p) IN IF left = Absent THEN EmptyRoot ELSE left[1]
    BY <1>6, <1>8 DEF trie_delete, RootOf
  <2> HIDE DEF C, p, g
  <2>3. remove(TrieOf(C), p) = Left(Less(C, p))
    BY <1>3, <2>1, TrieRemove
  <2>4. trie_delete(RootOf(f), k) = TrieOf(Less(C, p))
    <3>1. CASE DOMAIN Less(C, p) = {}
      <4>1. Left(Less(C, p)) = Absent
        BY <3>1 DEF Left
      <4> QED
        BY <2>2, <2>3, <3>1, <4>1, TrieNone
    <3>2. CASE DOMAIN Less(C, p) # {}
      <4>1. Left(Less(C, p)) = Some(TrieOf(Less(C, p)))
        BY <3>2 DEF Left
      <4>2. Some(TrieOf(Less(C, p))) # Absent /\ Some(TrieOf(Less(C, p)))[1] = TrieOf(Less(C, p))
        BY DEF Some, Absent
      <4> QED
        BY <2>2, <2>3, <4>1, <4>2
    <3> QED
      BY <3>1, <3>2
  <2>5. Store(g) /\ trie_delete(RootOf(f), k) = RootOf(g)
    BY <1>5, <2>4 DEF RootOf
  <2> QED
    BY <2>5 DEF g
<1> QED
  BY <1>7, <1>8

\* With nothing in it.
LEMMA StoreNone ==
  ASSUME NEW f, Store(f), \A k \in DOMAIN f : f[k] = Absent
  PROVE  RootOf(f) = EmptyRoot
<1>1. \A p : p \in DOMAIN ByPath(f) <=> \E k \in DOMAIN f : f[k] # Absent /\ p = bytes_to_nibbles(k)
  BY ByPathIs, Zenon
<1>2. DOMAIN ByPath(f) = {}
  BY <1>1
<1> QED
  BY <1>2, TrieNone DEF RootOf

----------------------------------------------------------------------------
(* Many puts.                                                              *)

\* Puts one after the other.
Puts(f, root, entries, n) ==
    f = [k \in 0 .. n |-> IF k = 0 THEN root ELSE trie_put(f[k - 1], entries[k][1], entries[k][2])]

\* The root after them.
PutTo(root, entries, n) == (CHOOSE f : Puts(f, root, entries, n))[n]

\* PutAll makes all its puts.
LEMMA PutAllIs ==
  ASSUME NEW root, NEW entries
  PROVE  PutAll(root, entries) = PutTo(root, entries, Len(entries))
  BY DEF PutAll, PutTo, Puts

\* The recursion has a solution.
LEMMA PutsExist ==
  ASSUME NEW root, NEW entries
  PROVE  \A n \in Nat : \E f : Puts(f, root, entries, n)
<1> DEFINE P == {n \in Nat : \E f : Puts(f, root, entries, n)}
<1>1. 0 \in P
  <2> DEFINE f == [k \in 0 .. 0 |-> root]
  <2>1. Puts(f, root, entries, 0)
    BY DEF Puts
  <2> QED
    BY <2>1
<1>2. ASSUME NEW n \in Nat, n \in P PROVE n + 1 \in P
  <2>1. PICK f : Puts(f, root, entries, n)
    BY <1>2
  <2> DEFINE Value(h, k) == IF k = 0 THEN root ELSE trie_put(h[k - 1], entries[k][1], entries[k][2])
  <2>2. \A k \in 0 .. n : f[k] = Value(f, k)
    BY <2>1 DEF Puts
  <2> DEFINE g == [k \in 0 .. n + 1 |-> IF k = n + 1 THEN Value(f, n + 1) ELSE f[k]]
  <2>3. ASSUME NEW k \in 0 .. n + 1 PROVE g[k] = Value(g, k)
    <3>1. k # 0 => k - 1 \in 0 .. n + 1 /\ k - 1 # n + 1
      OBVIOUS
    <3>2. k # 0 => g[k - 1] = f[k - 1]
      BY <3>1
    <3>3. g[k] = IF k = n + 1 THEN Value(f, n + 1) ELSE f[k]
      OBVIOUS
    <3>a. k # n + 1 => k \in 0 .. n
      OBVIOUS
    <3>4. k # n + 1 => f[k] = Value(f, k)
      BY <2>2, <3>a
    <3> HIDE DEF g
    <3>6. Value(g, k) = Value(f, k)
      BY <3>2
    <3> HIDE DEF Value
    <3>5. g[k] = Value(f, k)
      BY <3>3, <3>4
    <3> QED
      BY <3>5, <3>6
  <2>4. g = [k \in 0 .. n + 1 |-> g[k]]
    OBVIOUS
  <2> HIDE DEF g
  <2>5. g = [k \in 0 .. n + 1 |-> Value(g, k)]
    BY <2>3, <2>4
  <2>6. Puts(g, root, entries, n + 1)
    BY <2>5 DEF Puts
  <2> QED
    BY <2>6
<1> HIDE DEF P
<1>3. \A n \in Nat : n \in P
  BY <1>1, <1>2, NumberInduction
<1> QED
  BY <1>3 DEF P

\* Putting every value of a store, in any order, makes its trie.
LEMMA PutsRoot ==
  ASSUME NEW f, Store(f), NEW entries, Len(entries) \in Nat,
         \A i \in 1 .. Len(entries) : entries[i][1] \in DOMAIN f /\ f[entries[i][1]] = Some(entries[i][2]),
         \A k \in DOMAIN f : f[k] # Absent => \E i \in 1 .. Len(entries) : entries[i][1] = k
  PROVE  PutAll(EmptyRoot, entries) = RootOf(f)
<1> DEFINE N == Len(entries)
<1>1. PICK g : Puts(g, EmptyRoot, entries, N) /\ PutAll(EmptyRoot, entries) = g[N]
  <2>1. \E g : Puts(g, EmptyRoot, entries, N)
    BY PutsExist
  <2>2. PutAll(EmptyRoot, entries) = (CHOOSE g : Puts(g, EmptyRoot, entries, N))[N]
    BY PutAllIs DEF PutTo
  <2> HIDE DEF N
  <2> QED
    BY <2>1, <2>2
<1>2. \A k \in 0 .. N : g[k] = IF k = 0 THEN EmptyRoot ELSE trie_put(g[k - 1], entries[k][1], entries[k][2])
  BY <1>1 DEF Puts
<1> HIDE DEF N
<1> DEFINE First(n) == [k \in DOMAIN f |-> IF \E i \in 1 .. n : entries[i][1] = k THEN f[k] ELSE Absent]
<1> DEFINE P == {n \in Nat : n <= N => Store(First(n)) /\ g[n] = RootOf(First(n))}
<1>3. N \in Nat
  BY DEF N
<1>4. 0 \in P
  <2>1. First(0) = [k \in DOMAIN f |-> Absent]
    OBVIOUS
  <2> DEFINE e == [k \in DOMAIN f |-> Absent]
  <2>2. Store(e)
    BY DEF Store
  <2>3. \A k \in DOMAIN e : e[k] = Absent
    OBVIOUS
  <2> HIDE DEF e
  <2>6. RootOf(e) = EmptyRoot
    BY <2>2, <2>3, StoreNone
  <2>7. g[0] = EmptyRoot
    BY <1>2, <1>3
  <2> QED
    BY <2>1, <2>2, <2>6, <2>7 DEF e
<1>5. ASSUME NEW n \in Nat, n \in P PROVE n + 1 \in P
  <2> SUFFICES ASSUME n + 1 <= N PROVE Store(First(n + 1)) /\ g[n + 1] = RootOf(First(n + 1))
    <3> HIDE DEF First, N
    <3> QED
      OBVIOUS
  <2>1. Store(First(n)) /\ g[n] = RootOf(First(n))
    BY <1>3, <1>5
  <2> DEFINE key == entries[n + 1][1]
  <2> DEFINE v == entries[n + 1][2]
  <2>2. n + 1 \in 0 .. N /\ n + 1 # 0 /\ (n + 1) - 1 = n /\ n + 1 \in 1 .. N
    BY <1>3
  <2>3. key \in DOMAIN f /\ f[key] = Some(v)
    BY <2>2 DEF N
  <2>4. g[n + 1] = trie_put(g[n], key, v)
    BY <1>2, <2>2
  <2> HIDE DEF key, v
  <2>5. First(n + 1) = [First(n) EXCEPT ![key] = Some(v)]
    <3>1. ASSUME NEW k \in DOMAIN f
          PROVE  (\E i \in 1 .. n + 1 : entries[i][1] = k) <=> k = key \/ \E i \in 1 .. n : entries[i][1] = k
      <4>1. \A i : i \in 1 .. n + 1 <=> i = n + 1 \/ i \in 1 .. n
        OBVIOUS
      <4> QED
        BY <4>1 DEF key
    <3>2. ASSUME NEW k \in DOMAIN f PROVE First(n + 1)[k] = IF k = key THEN Some(v) ELSE First(n)[k]
      BY <2>3, <3>1
    <3>3. DOMAIN First(n) = DOMAIN f /\ DOMAIN First(n + 1) = DOMAIN f
      OBVIOUS
    <3>4. First(n + 1) = [k \in DOMAIN f |-> First(n + 1)[k]]
      OBVIOUS
    <3>5. [First(n) EXCEPT ![key] = Some(v)] = [k \in DOMAIN f |-> IF k = key THEN Some(v) ELSE First(n)[k]]
      BY <2>3
    <3> HIDE DEF First
    <3> QED
      BY <3>2, <3>4, <3>5
  <2>6. DOMAIN First(n) = DOMAIN f
    OBVIOUS
  <2> HIDE DEF First
  <2>7. Store([First(n) EXCEPT ![key] = Some(v)]) /\ trie_put(RootOf(First(n)), key, v) = RootOf([First(n) EXCEPT ![key] = Some(v)])
    <3>1. PICK h : h = First(n)
      OBVIOUS
    <3>2. Store(h) /\ key \in DOMAIN h
      BY <2>1, <2>3, <2>6, <3>1
    <3>3. Store([h EXCEPT ![key] = Some(v)]) /\ trie_put(RootOf(h), key, v) = RootOf([h EXCEPT ![key] = Some(v)])
      BY <3>2, StorePut
    <3> QED
      BY <3>1, <3>3
  <2> QED
    BY <2>1, <2>4, <2>5, <2>7
<1>6. N \in P
  <2> HIDE DEF P
  <2> QED
    BY <1>3, <1>4, <1>5, NumberInduction
<1>7. First(N) = f
  <2>1. \A k \in DOMAIN f : First(N)[k] = f[k]
    BY DEF N
  <2>2. First(N) = [k \in DOMAIN f |-> First(N)[k]] /\ f = [k \in DOMAIN f |-> f[k]]
    BY DEF Store
  <2> HIDE DEF First
  <2> QED
    BY <2>1, <2>2
<1> QED
  BY <1>1, <1>3, <1>6, <1>7

----------------------------------------------------------------------------
(* Address order.                                                          *)

\* Bytes of one length are in a total order.
LEMMA BeforeNot ==
  ASSUME NEW a \in Bytes
  PROVE  ~Before(a, a)
<1> DEFINE x == bytes_to_nibbles(a)
<1>1. x \in Paths
  BY KeyPath, Zenon
<1> HIDE DEF x
<1>2. \A i \in 1 .. Len(x) : x[i] \in Nat
  BY <1>1, PathIs, RadixAssumption DEF Nibbles
<1> QED
  BY <1>2 DEF Before, x

\* The order of addresses is transitive.
LEMMA BeforeMore ==
  ASSUME NEW a \in Bytes, NEW b \in Bytes, NEW c \in Bytes, Len(a) = Len(b), Len(b) = Len(c),
         Before(a, b), Before(b, c)
  PROVE  Before(a, c)
<1> DEFINE x == bytes_to_nibbles(a)
<1> DEFINE y == bytes_to_nibbles(b)
<1> DEFINE z == bytes_to_nibbles(c)
<1>1. x \in Paths /\ Len(x) = 2 * Len(a)
  BY KeyPath, Zenon
<1>2. y \in Paths /\ Len(y) = 2 * Len(b)
  BY KeyPath, Zenon
<1>3. z \in Paths /\ Len(z) = 2 * Len(c)
  BY KeyPath, Zenon
<1>4. Len(x) \in Nat /\ Len(y) = Len(x) /\ Len(z) = Len(x)
  BY <1>1, <1>2, <1>3, PathIs
<1>5. PICK i \in 1 .. Len(x) : x[i] < y[i] /\ \A j \in 1 .. (i - 1) : x[j] = y[j]
  BY DEF Before
<1>6. PICK m \in 1 .. Len(y) : y[m] < z[m] /\ \A j \in 1 .. (m - 1) : y[j] = z[j]
  BY DEF Before
<1> HIDE DEF x, y, z
<1>7. \A j \in 1 .. Len(x) : x[j] \in Nat /\ y[j] \in Nat /\ z[j] \in Nat
  <2>1. \A n \in Nibbles : n \in Nat
    BY RadixAssumption DEF Nibbles
  <2>2. \A j \in 1 .. Len(x) : x[j] \in Nibbles
    BY <1>1, PathIs
  <2>3. \A j \in 1 .. Len(y) : y[j] \in Nibbles
    BY <1>2, PathIs
  <2>4. \A j \in 1 .. Len(z) : z[j] \in Nibbles
    BY <1>3, PathIs
  <2> QED
    BY <1>4, <2>1, <2>2, <2>3, <2>4
<1>8. i \in Nat /\ m \in Nat /\ i \in 1 .. Len(x) /\ m \in 1 .. Len(x)
  BY <1>4
<1>9. CASE i < m
  <2>1. i \in 1 .. (m - 1) /\ \A j \in 1 .. (i - 1) : j \in 1 .. (m - 1)
    BY <1>8, <1>9
  <2>2. x[i] < z[i] /\ \A j \in 1 .. (i - 1) : x[j] = z[j]
    BY <1>5, <1>6, <2>1
  <2> QED
    BY <2>2 DEF Before, x, z
<1>10. CASE i >= m
  <2>1. (i = m \/ m \in 1 .. (i - 1)) /\ \A j \in 1 .. (m - 1) : j \in 1 .. (i - 1)
    BY <1>8, <1>10
  <2>2. x[m] < z[m] /\ \A j \in 1 .. (m - 1) : x[j] = z[j]
    BY <1>5, <1>6, <1>7, <1>8, <2>1
  <2> QED
    BY <1>8, <2>2 DEF Before, x, z
<1> QED
  BY <1>8, <1>9, <1>10

\* Of two addresses one comes first.
LEMMA BeforeOr ==
  ASSUME NEW a \in Bytes, NEW b \in Bytes, Len(a) = Len(b), a # b
  PROVE  Before(a, b) \/ Before(b, a)
<1> DEFINE x == bytes_to_nibbles(a)
<1> DEFINE y == bytes_to_nibbles(b)
<1>1. x \in Paths /\ Len(x) = 2 * Len(a)
  BY KeyPath, Zenon
<1>2. y \in Paths /\ Len(y) = 2 * Len(b)
  BY KeyPath, Zenon
<1>3. x # y
  BY KeyOfPath
<1> HIDE DEF x, y
<1>4. Len(x) \in Nat /\ Len(y) = Len(x)
  BY <1>1, <1>2, PathIs
<1> DEFINE D == {j \in 1 .. Len(x) : x[j] # y[j]}
<1>5. D # {} /\ D \in SUBSET Nat
  BY <1>1, <1>2, <1>3, <1>4, PathExt
<1> HIDE DEF D
<1>6. PICK i \in D : \A j \in D : i <= j
  BY <1>5, LeastNumber
<1>7. i \in 1 .. Len(x) /\ x[i] # y[i] /\ \A j \in 1 .. (i - 1) : x[j] = y[j]
  BY <1>4, <1>6 DEF D
<1>8. x[i] \in Nat /\ y[i] \in Nat
  BY <1>1, <1>2, <1>4, <1>7, PathIs, RadixAssumption DEF Nibbles
<1>9. x[i] < y[i] \/ y[i] < x[i]
  BY <1>7, <1>8
<1>10. CASE x[i] < y[i]
  BY <1>7, <1>10 DEF Before, x, y
<1>11. CASE y[i] < x[i]
  <2>1. i \in 1 .. Len(y) /\ \A j \in 1 .. (i - 1) : y[j] = x[j]
    BY <1>4, <1>7
  <2> QED
    BY <1>11, <2>1 DEF Before, x, y
<1> QED
  BY <1>9, <1>10, <1>11

\* The place of an address among others.
Lower(T, s) == {r \in T : Before(r, s)}

\* A set of addresses in their order.
InAddressOrder(T) == [i \in 1 .. Cardinality(T) |-> CHOOSE s \in T : Cardinality(Lower(T, s)) = i - 1]

\* Every address of a set has one place.
LEMMA Ordered ==
  ASSUME NEW T \in SUBSET Addresses
  PROVE  /\ Cardinality(T) \in Nat
         /\ \A i \in 1 .. Cardinality(T) : InAddressOrder(T)[i] \in T
         /\ \A s \in T : \E i \in 1 .. Cardinality(T) : InAddressOrder(T)[i] = s
<1> DEFINE c == Cardinality(T)
           rank == [s \in T |-> Cardinality(Lower(T, s))]
<1>0. /\ IsFiniteSet(T) /\ \A s \in T : s \in Bytes /\ ~Before(s, s)
      /\ \A s, r \in T : Len(s) = Len(r)
  <2>1. IsFiniteSet(Addresses)
    BY LightAssumption
  <2>2. IsFiniteSet(T)
    BY <2>1, FS_Subset
  <2>3. \A s \in T : s \in Bytes
    BY LightAssumption
  <2>4. \A s, r \in T : Len(s) = Len(r)
    BY LightAssumption
  <2> QED
    BY <2>2, <2>3, <2>4, BeforeNot
<1>1. c \in Nat
  BY <1>0, FS_CardinalityType
<1>2. \A s \in T : IsFiniteSet(Lower(T, s)) /\ Cardinality(Lower(T, s)) \in Nat
  BY <1>0, FS_Subset, FS_CardinalityType DEF Lower
<1>3. ASSUME NEW s \in T PROVE Cardinality(Lower(T, s)) \in 0 .. c - 1
  <2>1. Lower(T, s) \subseteq T \ {s}
    BY <1>0 DEF Lower
  <2>2. IsFiniteSet(T \ {s}) /\ Cardinality(T \ {s}) = c - 1
    BY <1>0, FS_RemoveElement
  <2>3. Cardinality(Lower(T, s)) <= c - 1
    BY <2>1, <2>2, FS_Subset
  <2> QED
    BY <1>1, <1>2, <2>3
<1>4. ASSUME NEW s \in T, NEW r \in T, Before(r, s)
      PROVE  Cardinality(Lower(T, r)) < Cardinality(Lower(T, s))
  <2>0. \A q \in T : Before(q, r) => Before(q, s)
    BY <1>0, <1>4, BeforeMore
  <2>1. Lower(T, r) \subseteq Lower(T, s) \ {r}
    BY <1>0, <2>0 DEF Lower
  <2>2. r \in Lower(T, s)
    BY <1>4 DEF Lower
  <2>3. /\ IsFiniteSet(Lower(T, s) \ {r})
        /\ Cardinality(Lower(T, s) \ {r}) = Cardinality(Lower(T, s)) - 1
    BY <1>2, <2>2, FS_RemoveElement
  <2>4. Cardinality(Lower(T, r)) <= Cardinality(Lower(T, s)) - 1
    BY <2>1, <2>3, FS_Subset
  <2> QED
    BY <1>2, <2>4
<1>5. ASSUME NEW s \in T, NEW r \in T, s # r
      PROVE  Cardinality(Lower(T, r)) # Cardinality(Lower(T, s))
  <2>1. Before(s, r) \/ Before(r, s)
    BY <1>0, <1>5, BeforeOr
  <2> QED
    BY <1>2, <1>4, <2>1
<1>6. rank \in [T -> 0 .. c - 1]
  BY <1>3
<1>7. \A s \in T : rank[s] = Cardinality(Lower(T, s))
  OBVIOUS
<1> HIDE DEF rank
<1>8. rank \in Injection(T, 0 .. c - 1)
  BY <1>5, <1>6, <1>7 DEF Injection, IsInjective
<1>9. IsFiniteSet(0 .. c - 1) /\ Cardinality(0 .. c - 1) = c
  <2>1. c - 1 \in Int /\ 0 \in Int
    BY <1>1
  <2> HIDE DEF c
  <2>2. /\ IsFiniteSet(0 .. c - 1)
        /\ Cardinality(0 .. c - 1) = IF 0 > c - 1 THEN 0 ELSE (c - 1) - 0 + 1
    BY <2>1, FS_Interval
  <2> QED
    BY <1>1, <2>2
<1>10. rank \in Surjection(T, 0 .. c - 1)
  BY <1>0, <1>8, <1>9, FS_Injection
<1>11. \A j \in 0 .. c - 1 : \E s \in T : rank[s] = j
  BY <1>10 DEF Surjection
<1>12. ASSUME NEW i \in 1 .. c PROVE \E s \in T : Cardinality(Lower(T, s)) = i - 1
  <2>1. i - 1 \in 0 .. c - 1
    BY <1>1
  <2> QED
    BY <1>7, <1>11, <2>1
<1>13. \A i \in 1 .. c : InAddressOrder(T)[i] = CHOOSE s \in T : Cardinality(Lower(T, s)) = i - 1
  BY DEF InAddressOrder
<1> HIDE DEF c
<1>14. ASSUME NEW i \in 1 .. c
       PROVE  InAddressOrder(T)[i] \in T /\ Cardinality(Lower(T, InAddressOrder(T)[i])) = i - 1
  BY <1>12, <1>13
<1>15. ASSUME NEW s \in T PROVE \E i \in 1 .. c : InAddressOrder(T)[i] = s
  <2> DEFINE i == Cardinality(Lower(T, s)) + 1
  <2>1. i \in 1 .. c /\ i - 1 = Cardinality(Lower(T, s))
    BY <1>1, <1>3
  <2> HIDE DEF i
  <2>2. InAddressOrder(T)[i] \in T /\ Cardinality(Lower(T, InAddressOrder(T)[i])) = i - 1
    BY <1>14, <2>1
  <2>3. InAddressOrder(T)[i] = s
    BY <1>5, <2>1, <2>2
  <2> QED
    BY <2>1, <2>3
<1> QED
  BY <1>1, <1>14, <1>15 DEF c

\* What a store of accounts is.
AccountsOf == [Addresses -> {Absent} \cup {Some(b) : b \in Balances}]

\* Accounts as the trie holds them, by address.
LEMMA EncodedIs ==
  ASSUME NEW f \in AccountsOf
  PROVE  /\ Store(Encoded(f)) /\ DOMAIN Encoded(f) = Addresses
         /\ \A a \in Addresses : f[a] = Absent => Encoded(f)[a] = Absent
         /\ \A a \in Addresses : f[a] # Absent => /\ f[a] = Some(f[a][1]) /\ f[a][1] \in Balances
                                                  /\ Encoded(f)[a] = Some(encode(f[a][1]))
<1> DEFINE e == Encoded(f)
<1>1. e = [a \in Addresses |-> IF f[a] = Absent THEN Absent ELSE Some(encode(f[a][1]))]
  BY DEF Encoded
<1>2. \A a \in Addresses : f[a] # Absent => f[a] = Some(f[a][1]) /\ f[a][1] \in Balances
  BY DEF AccountsOf, Some
<1>3. Addresses \in SUBSET Bytes /\ IsFiniteSet(Addresses)
  BY LightAssumption
<1> HIDE DEF e
<1>4. Store(e) /\ DOMAIN e = Addresses
  BY <1>1, <1>3 DEF Store
<1> QED
  BY <1>1, <1>2, <1>4 DEF e

\* The restored accounts make the trie of the accounts.
LEMMA Restored ==
  ASSUME NEW f \in AccountsOf
  PROVE  PutAll(EmptyRoot, Encodings(f)) = RootOf(Encoded(f))
<1> DEFINE T == {a \in Addresses : f[a] # Absent}
<1> DEFINE order == InAddressOrder(T)
<1> DEFINE n == Cardinality(T)
<1> DEFINE entries == Encodings(f)
<1>1. n \in Nat /\ (\A i \in 1 .. n : order[i] \in T) /\ \A s \in T : \E i \in 1 .. n : order[i] = s
  <2>1. T \in SUBSET Addresses
    OBVIOUS
  <2> HIDE DEF T
  <2> QED
    BY <2>1, Ordered
<1>2. Len(order) = n
  <2>1. order = [i \in 1 .. n |-> CHOOSE s \in T : Cardinality(Lower(T, s)) = i - 1]
    BY DEF InAddressOrder
  <2> HIDE DEF order, n, T
  <2>2. IsSeq(order) /\ Len(order) = n
    BY <1>1, <2>1, MadeSeq
  <2> QED
    BY <2>1, <2>2
<1>3. entries = [i \in 1 .. Len(order) |-> <<order[i], encode(f[order[i]][1])>>]
  BY DEF Encodings, InAddressOrder, Lower
<1> HIDE DEF entries, order, n
<1>4. Len(entries) = n /\ \A i \in 1 .. n : entries[i] = <<order[i], encode(f[order[i]][1])>>
  <2>1. IsSeq(entries) /\ Len(entries) = n
    BY <1>1, <1>2, <1>3, MadeSeq
  <2> QED
    BY <1>2, <1>3, <2>1
<1> DEFINE e == Encoded(f)
<1>5. /\ Store(e) /\ DOMAIN e = Addresses
      /\ \A a \in Addresses : f[a] = Absent => e[a] = Absent
      /\ \A a \in Addresses : f[a] # Absent => e[a] = Some(encode(f[a][1]))
  BY EncodedIs
<1> HIDE DEF e
<1>6. ASSUME NEW i \in 1 .. Len(entries) PROVE entries[i][1] \in DOMAIN e /\ e[entries[i][1]] = Some(entries[i][2])
  <2>1. i \in 1 .. n /\ order[i] \in Addresses /\ f[order[i]] # Absent
    BY <1>1, <1>4
  <2>2. entries[i][1] = order[i] /\ entries[i][2] = encode(f[order[i]][1])
    BY <1>4, <2>1
  <2> QED
    BY <1>5, <2>1, <2>2
<1>7. ASSUME NEW a \in DOMAIN e, e[a] # Absent PROVE \E i \in 1 .. Len(entries) : entries[i][1] = a
  <2>1. a \in T
    BY <1>5, <1>7
  <2>2. PICK i \in 1 .. n : order[i] = a
    BY <1>1, <2>1
  <2>3. entries[i][1] = a
    BY <1>4, <2>2
  <2> QED
    BY <1>4, <2>3
<1>8. PutAll(EmptyRoot, entries) = RootOf(e)
  BY <1>1, <1>4, <1>5, <1>6, <1>7, PutsRoot
<1> QED
  BY <1>8 DEF entries, e

----------------------------------------------------------------------------
(* The tries over every behaviour.                                         *)

\* An account put.
LEMMA EncodedPut ==
  ASSUME NEW f \in AccountsOf, NEW a \in Addresses, NEW b \in Balances
  PROVE  /\ [f EXCEPT ![a] = Some(b)] \in AccountsOf
         /\ Encoded([f EXCEPT ![a] = Some(b)]) = [Encoded(f) EXCEPT ![a] = Some(encode(b))]
<1> DEFINE g == [f EXCEPT ![a] = Some(b)]
<1>1. g \in AccountsOf
  BY DEF AccountsOf
<1>2. g[a] # Absent /\ g[a][1] = b /\ \A k \in Addresses : k # a => g[k] = f[k]
  BY DEF AccountsOf, Some, Absent
<1> HIDE DEF g
<1>3. Encoded(g) = [Encoded(f) EXCEPT ![a] = Some(encode(b))]
  BY <1>2 DEF Encoded
<1> QED
  BY <1>1, <1>3 DEF g

\* An account deleted.
LEMMA EncodedDrop ==
  ASSUME NEW f \in AccountsOf, NEW a \in Addresses
  PROVE  /\ [f EXCEPT ![a] = Absent] \in AccountsOf
         /\ Encoded([f EXCEPT ![a] = Absent]) = [Encoded(f) EXCEPT ![a] = Absent]
<1> DEFINE g == [f EXCEPT ![a] = Absent]
<1>1. g \in AccountsOf
  BY DEF AccountsOf
<1>2. g[a] = Absent /\ \A k \in Addresses : k # a => g[k] = f[k]
  BY DEF AccountsOf
<1> HIDE DEF g
<1>3. Encoded(g) = [Encoded(f) EXCEPT ![a] = Absent]
  BY <1>2 DEF Encoded
<1> QED
  BY <1>1, <1>3 DEF g

\* What contract storage can hold.
SlotsOf == [Slots -> {Absent} \cup {Some(w) : w \in Words}]

\* Storage keys are held as they are.
LEMMA SlotsIs ==
  ASSUME NEW f \in SlotsOf
  PROVE  Store(f) /\ DOMAIN f = Slots
<1>1. Slots \in SUBSET Bytes /\ IsFiniteSet(Slots)
  BY LightAssumption
<1>2. \A k \in Slots : f[k] = Absent \/ \E v : f[k] = Some(v)
  BY DEF SlotsOf
<1>3. f = [k \in Slots |-> f[k]] /\ DOMAIN f = Slots
  BY DEF SlotsOf
<1> QED
  BY <1>1, <1>2, <1>3 DEF Store

\* The roots are those of what was put and not deleted.
TriesInv ==
    /\ live \in AccountsOf /\ accounts = RootOf(Encoded(live))
    /\ slots \in SlotsOf /\ storage = RootOf(slots)

\* A record holds an account that its own proof shows under its own root.
RecordInv(r) ==
    /\ r.address \in Addresses /\ \E b \in Balances : r.encoded = encode(b)
    /\ r.inclusion.value = Some(r.encoded)
    /\ verify(r.address, r.inclusion, r.root)

\* There is a record of every account as it last expired.
RecordsInv ==
    /\ last \in AccountsOf
    /\ \A r \in records : RecordInv(r)
    /\ \A a \in Addresses : last[a] # Absent =>
          \E r \in records : r.address = a /\ r.encoded = encode(last[a][1])

\* An entry of the chain: the header commits to the accounts of its height.
Committed(c, i) ==
    /\ c.live \in AccountsOf /\ c.accounts = RootOf(Encoded(c.live))
    /\ c.header = HeaderAt(i - 1, state_root(c.accounts, c.storage))

\* All of them do.
ChainInv == IsSeq(chain) /\ \A i \in 1 .. Len(chain) : Committed(chain[i], i)

\* The inductive invariant.
LightInv == TriesInv /\ RecordsInv /\ ChainInv

\* encode and decode.
LEMMA Decoded == ASSUME NEW b PROVE decode(encode(b)) = b
  BY DEF encode, decode

\* It holds at first.
LEMMA LightStarts == LightInit => LightInv
<1> SUFFICES ASSUME LightInit PROVE LightInv
  OBVIOUS
<1>1. live \in AccountsOf
  BY LightAssumption DEF LightInit, AccountsOf
<1>2. accounts = RootOf(Encoded(live))
  BY <1>1, Restored DEF LightInit
<1>3. slots \in SlotsOf
  BY DEF LightInit, SlotsOf
<1>4. Store(slots) /\ DOMAIN slots = Slots
  BY <1>3, SlotsIs
<1>5. storage = RootOf(slots)
  <2>1. \A k \in DOMAIN slots : slots[k] = Absent
    BY <1>4 DEF LightInit
  <2> QED
    BY <1>4, <2>1, StoreNone DEF LightInit
<1>6. RecordsInv
  BY DEF LightInit, RecordsInv, AccountsOf
<1>7. ChainInv
  BY DEF LightInit, ChainInv, IsSeq
<1> QED
  BY <1>1, <1>2, <1>3, <1>5, <1>6, <1>7 DEF LightInv, TriesInv

\* A put of an account.
LEMMA PutKept ==
  ASSUME TriesInv, NEW a \in Addresses, NEW b \in Balances,
         accounts' = trie_put(accounts, a, encode(b)), live' = [live EXCEPT ![a] = Some(b)],
         UNCHANGED <<storage, slots>>
  PROVE  TriesInv'
<1>1. live \in AccountsOf /\ accounts = RootOf(Encoded(live))
  BY DEF TriesInv
<1>2. Store(Encoded(live)) /\ DOMAIN Encoded(live) = Addresses
  BY <1>1, EncodedIs
<1>3. accounts' = RootOf([Encoded(live) EXCEPT ![a] = Some(encode(b))])
  BY <1>1, <1>2, StorePut
<1>4. live' \in AccountsOf /\ Encoded(live') = [Encoded(live) EXCEPT ![a] = Some(encode(b))]
  BY <1>1, EncodedPut
<1>5. accounts' = RootOf(Encoded(live'))
  BY <1>3, <1>4
<1>6. slots' \in SlotsOf /\ storage' = RootOf(slots')
  BY DEF TriesInv
<1> QED
  BY <1>4, <1>5, <1>6 DEF TriesInv

\* Every step keeps it.
LEMMA LightStep == LightInv /\ [LightNext]_light_vars => LightInv'
<1> SUFFICES ASSUME LightInv, [LightNext]_light_vars PROVE LightInv'
  OBVIOUS
<1>0. TriesInv /\ RecordsInv /\ ChainInv
  BY DEF LightInv
<1>a. /\ live \in AccountsOf /\ accounts = RootOf(Encoded(live))
      /\ slots \in SlotsOf /\ storage = RootOf(slots)
  BY <1>0 DEF TriesInv
<1>b. /\ Store(Encoded(live)) /\ DOMAIN Encoded(live) = Addresses
      /\ \A a \in Addresses : live[a] # Absent =>
            live[a] = Some(live[a][1]) /\ live[a][1] \in Balances /\ Encoded(live)[a] = Some(encode(live[a][1]))
  BY <1>a, EncodedIs
<1>1. ASSUME NEW a \in Addresses, NEW b \in Balances, PutAccount(a, b) PROVE LightInv'
  <2>1. TriesInv'
    BY <1>0, <1>1, PutKept DEF PutAccount
  <2>2. RecordsInv' /\ ChainInv'
    BY <1>0, <1>1 DEF PutAccount, RecordsInv, ChainInv
  <2> QED
    BY <2>1, <2>2 DEF LightInv
<1>2. ASSUME NEW k \in Slots, NEW w \in Words, PutSlot(k, w) PROVE LightInv'
  <2>1. storage' = trie_put(storage, k, w) /\ slots' = [slots EXCEPT ![k] = Some(w)]
    BY <1>2 DEF PutSlot
  <2>2. Store(slots) /\ DOMAIN slots = Slots
    BY <1>a, SlotsIs
  <2>3. storage' = RootOf(slots')
    BY <1>a, <2>1, <2>2, StorePut
  <2>4. slots' \in SlotsOf
    BY <1>a, <2>1 DEF SlotsOf
  <2>5. TriesInv'
    BY <1>2, <1>a, <2>3, <2>4 DEF TriesInv, PutSlot
  <2>6. RecordsInv' /\ ChainInv'
    BY <1>0, <1>2 DEF PutSlot, RecordsInv, ChainInv
  <2> QED
    BY <2>5, <2>6 DEF LightInv
<1>3. ASSUME NEW a \in Addresses, Expire(a) PROVE LightInv'
  <2> DEFINE r == [address |-> a, encoded |-> trie_get(accounts, a)[1],
                   inclusion |-> prove(accounts, a), root |-> accounts]
  <2>1. live[a] # Absent /\ expire(a) # Absent /\ UNCHANGED <<storage, slots, chain>>
    BY <1>3 DEF Expire
  <2>2. expire(a) = Some(r) /\ verify(a, prove(accounts, a), accounts)
    BY <2>1 DEF expire
  <2>3. records' = records \cup {r}
    BY <1>3, <2>2 DEF Expire, Some
  <2>4. accounts' = trie_delete(accounts, a) /\ live' = [live EXCEPT ![a] = Absent]
    BY <1>3 DEF Expire
  <2>5. TriesInv'
    <3>1. accounts' = RootOf([Encoded(live) EXCEPT ![a] = Absent])
      BY <1>a, <1>b, <2>4, StoreDrop
    <3>2. live' \in AccountsOf /\ Encoded(live') = [Encoded(live) EXCEPT ![a] = Absent]
      BY <1>a, <2>4, EncodedDrop
    <3> QED
      BY <1>a, <2>1, <3>1, <3>2 DEF TriesInv
  <2>6. trie_get(accounts, a) = Some(encode(live[a][1])) /\ live[a][1] \in Balances /\ live[a] = Some(live[a][1])
    <3>1. trie_get(accounts, a) = Encoded(live)[a]
      BY <1>a, <1>b, StoreGet
    <3> QED
      BY <1>b, <2>1, <3>1
  <2>7. r.address = a /\ r.encoded = encode(live[a][1]) /\ r.inclusion = prove(accounts, a) /\ r.root = accounts
    BY <2>6 DEF Some
  <2>8. prove(accounts, a).value = trie_get(accounts, a)
    BY DEF prove, Bound
  <2> HIDE DEF r
  <2>9. RecordInv(r)
    BY <2>2, <2>6, <2>7, <2>8 DEF RecordInv
  <2>10. last' = [last EXCEPT ![a] = live[a]]
    BY <1>3 DEF Expire
  <2>11. RecordsInv'
    <3>1. last' \in AccountsOf
      BY <1>0, <1>a, <2>10 DEF RecordsInv, AccountsOf
    <3>2. \A x \in records' : RecordInv(x)
      BY <1>0, <2>3, <2>9 DEF RecordsInv
    <3>3. ASSUME NEW k \in Addresses, last'[k] # Absent
          PROVE  \E x \in records' : x.address = k /\ x.encoded = encode(last'[k][1])
      <4>1. CASE k = a
        <5>1. last'[k] = live[a]
          BY <1>0, <2>10, <4>1 DEF RecordsInv, AccountsOf
        <5> QED
          BY <2>3, <2>7, <4>1, <5>1
      <4>2. CASE k # a
        <5>1. last'[k] = last[k]
          BY <1>0, <2>10, <4>2 DEF RecordsInv, AccountsOf
        <5> QED
          BY <1>0, <2>3, <3>3, <5>1 DEF RecordsInv
      <4> QED
        BY <4>1, <4>2
    <3>4. ASSUME NEW x, RecordInv(x) PROVE RecordInv(x)'
      BY <3>4 DEF RecordInv
    <3> QED
      BY <3>1, <3>2, <3>3, <3>4 DEF RecordsInv
  <2>12. ChainInv'
    BY <1>0, <2>1 DEF ChainInv
  <2> QED
    BY <2>5, <2>11, <2>12 DEF LightInv
<1>4. ASSUME NEW r \in records, Reactivate(r) PROVE LightInv'
  <2>1. PICK b \in Balances : r.encoded = encode(b)
    BY <1>0 DEF RecordsInv, RecordInv
  <2>2. r.address \in Addresses
    BY <1>0 DEF RecordsInv, RecordInv
  <2>3. accounts' = trie_put(accounts, r.address, encode(b)) /\ live' = [live EXCEPT ![r.address] = Some(b)]
    BY <1>4, <2>1, Decoded DEF Reactivate
  <2>4. UNCHANGED <<storage, slots, records, last, chain>>
    BY <1>4 DEF Reactivate
  <2>5. TriesInv'
    BY <1>0, <2>2, <2>3, <2>4, PutKept
  <2>6. RecordsInv' /\ ChainInv'
    BY <1>0, <2>4 DEF RecordsInv, ChainInv
  <2> QED
    BY <2>5, <2>6 DEF LightInv
<1>5. ASSUME CommitHeader PROVE LightInv'
  <2> DEFINE c == [header |-> HeaderAt(Len(chain), state_root(accounts, storage)),
                   live |-> live, accounts |-> accounts, storage |-> storage]
  <2>1. chain' = Append(chain, c) /\ UNCHANGED <<accounts, storage, live, slots, records, last, writes>>
    BY <1>5 DEF CommitHeader
  <2>2. TriesInv' /\ RecordsInv'
    BY <1>0, <2>1 DEF TriesInv, RecordsInv
  <2>3. c.live = live /\ c.accounts = accounts /\ c.storage = storage
          /\ c.header = HeaderAt(Len(chain), state_root(accounts, storage))
    OBVIOUS
  <2> HIDE DEF c
  <2>4. Len(chain) \in Nat /\ (Len(chain) + 1) - 1 = Len(chain)
    BY <1>0, LenIs DEF ChainInv
  <2>5. Committed(c, Len(chain) + 1)
    BY <1>a, <2>3, <2>4 DEF Committed
  <2>6. /\ IsSeq(chain') /\ Len(chain') = Len(chain) + 1 /\ chain'[Len(chain) + 1] = c
        /\ \A i \in 1 .. Len(chain) : chain'[i] = chain[i]
    BY <1>0, <2>1 DEF ChainInv, IsSeq
  <2>7. ASSUME NEW i \in 1 .. Len(chain') PROVE Committed(chain'[i], i)
    <3>1. i \in 1 .. Len(chain) \/ i = Len(chain) + 1
      BY <2>4, <2>6
    <3> QED
      BY <1>0, <2>5, <2>6, <3>1 DEF ChainInv
  <2>8. ChainInv'
    BY <2>6, <2>7 DEF ChainInv
  <2> QED
    BY <2>2, <2>8 DEF LightInv
<1>6. CASE UNCHANGED light_vars
  BY <1>0, <1>6 DEF light_vars, LightInv, TriesInv, RecordsInv, ChainInv
<1> QED
  BY <1>1, <1>2, <1>3, <1>4, <1>5, <1>6 DEF LightNext

\* It always holds.
LEMMA LightInvariant == LightSpec => []LightInv
  BY LightStarts, LightStep, PTL DEF LightSpec

\* A root depends on what the trie holds and on nothing else, whatever the puts and deletes
\* that led there, and restoring the accounts of a snapshot gives it again.
THEOREM RootsAreCanonical == LightSpec => []CanonicalRoot
<1>1. LightInv => CanonicalRoot
  <2> SUFFICES ASSUME LightInv PROVE CanonicalRoot
    OBVIOUS
  <2>1. live \in AccountsOf /\ accounts = RootOf(Encoded(live)) /\ storage = RootOf(slots)
    BY DEF LightInv, TriesInv
  <2>2. PutAll(EmptyRoot, Encodings(live)) = accounts
    BY <2>1, Restored
  <2>3. take_snapshot.accounts = Encodings(live) /\ take_snapshot.commit_root = state_root(accounts, storage)
    BY DEF take_snapshot
  <2>4. restore_account_encodings(take_snapshot) = accounts
    BY <2>2, <2>3 DEF restore_account_encodings
  <2> QED
    BY <2>1, <2>3, <2>4 DEF CanonicalRoot, RootOf
<1> QED
  BY <1>1, LightInvariant, PTL

----------------------------------------------------------------------------
(* Trie proofs.                                                            *)

\* Following a chain of payloads.
Onward(S, h) == {s \in UNION {Range(Down(r)) : r \in S} : s.h = h}

\* The positions after each payload of a chain.
Follows(f, nodes, key, n) ==
    f = [k \in 1 .. n |-> IF k = 1 THEN {At(nodes[1], key)} ELSE Onward(f[k - 1], nodes[k])]

\* Follow is the last of them.
LEMMA FollowIs ==
  ASSUME NEW nodes, NEW key, NEW n
  PROVE  Follow(nodes, key, n) = (CHOOSE f : Follows(f, nodes, key, n))[n]
  BY DEF Follow, Follows, Onward, At

\* The recursion has a solution.
LEMMA FollowsExist ==
  ASSUME NEW nodes, NEW key
  PROVE  \A n \in Nat : \E f : Follows(f, nodes, key, n)
<1> DEFINE P == {n \in Nat : \E f : Follows(f, nodes, key, n)}
<1>1. 0 \in P
  <2> DEFINE f == [k \in 1 .. 0 |-> {At(nodes[1], key)}]
  <2>1. Follows(f, nodes, key, 0)
    BY DEF Follows
  <2> QED
    BY <2>1
<1>2. ASSUME NEW n \in Nat, n \in P PROVE n + 1 \in P
  <2>1. PICK f : Follows(f, nodes, key, n)
    BY <1>2
  <2> DEFINE Value(h, k) == IF k = 1 THEN {At(nodes[1], key)} ELSE Onward(h[k - 1], nodes[k])
  <2>2. \A k \in 1 .. n : f[k] = Value(f, k)
    BY <2>1 DEF Follows
  <2> DEFINE g == [k \in 1 .. n + 1 |-> IF k = n + 1 THEN Value(f, n + 1) ELSE f[k]]
  <2>3. ASSUME NEW k \in 1 .. n + 1 PROVE g[k] = Value(g, k)
    <3>1. k # 1 => k - 1 \in 1 .. n + 1 /\ k - 1 # n + 1
      OBVIOUS
    <3>2. k # 1 => g[k - 1] = f[k - 1]
      BY <3>1
    <3>3. g[k] = IF k = n + 1 THEN Value(f, n + 1) ELSE f[k]
      OBVIOUS
    <3>a. k # n + 1 => k \in 1 .. n
      OBVIOUS
    <3>4. k # n + 1 => f[k] = Value(f, k)
      BY <2>2, <3>a
    <3> HIDE DEF g
    <3>6. Value(g, k) = Value(f, k)
      BY <3>2
    <3> HIDE DEF Value
    <3>5. g[k] = Value(f, k)
      BY <3>3, <3>4
    <3> QED
      BY <3>5, <3>6
  <2>4. g = [k \in 1 .. n + 1 |-> g[k]]
    OBVIOUS
  <2> HIDE DEF g
  <2>5. g = [k \in 1 .. n + 1 |-> Value(g, k)]
    BY <2>3, <2>4
  <2>6. Follows(g, nodes, key, n + 1)
    BY <2>5 DEF Follows
  <2> QED
    BY <2>6
<1> HIDE DEF P
<1>3. \A n \in Nat : n \in P
  BY <1>1, <1>2, NumberInduction
<1> QED
  BY <1>3 DEF P

\* They start at the first payload, and each leads to the next.
FollowedBy(f, nodes, key, n) ==
    /\ Follow(nodes, key, n) = f[n]
    /\ n >= 1 => f[1] = {At(nodes[1], key)}
    /\ \A k \in 1 .. n : k # 1 => f[k] = Onward(f[k - 1], nodes[k])

\* There are such positions.
LEMMA FollowSteps ==
  ASSUME NEW nodes, NEW key, NEW n \in Nat
  PROVE  \E f : FollowedBy(f, nodes, key, n)
<1>1. PICK f : Follows(f, nodes, key, n) /\ Follow(nodes, key, n) = f[n]
  <2>1. \E f : Follows(f, nodes, key, n)
    BY FollowsExist
  <2> QED
    BY <2>1, FollowIs
<1>2. \A k \in 1 .. n : f[k] = IF k = 1 THEN {At(nodes[1], key)} ELSE Onward(f[k - 1], nodes[k])
  BY <1>1 DEF Follows
<1>3. n >= 1 => f[1] = {At(nodes[1], key)}
  BY <1>2
<1>4. \A k \in 1 .. n : k # 1 => f[k] = Onward(f[k - 1], nodes[k])
  BY <1>2
<1> QED
  BY <1>1, <1>3, <1>4 DEF FollowedBy

\* A position that leads to one other, or to none.
LEMMA OnwardIs ==
  ASSUME NEW S, NEW h, NEW s \in Onward(S, h)
  PROVE  s.h = h /\ \E r \in S : Down(r) = <<s>>
<1>1. s.h = h /\ \E r \in S : s \in Range(Down(r))
  BY DEF Onward
<1>2. PICK r \in S : s \in Range(Down(r))
  BY <1>1
<1>3. Down(r) = <<>> \/ \E t : Down(r) = <<t>>
  BY DownIs
<1>4. Range(<<>>) = {} /\ \A t : Range(<<t>>) = {t}
  BY DEF Range
<1>5. Down(r) = <<s>>
  BY <1>2, <1>3, <1>4
<1> QED
  BY <1>1, <1>5

\* One position leads to one.
LEMMA OnwardOne ==
  ASSUME NEW r, NEW t, Down(r) = <<t>>
  PROVE  Onward({r}, t.h) = {t}
<1>1. Range(<<t>>) = {t}
  BY DEF Range
<1>2. UNION {Range(Down(x)) : x \in {r}} = {t}
  BY <1>1
<1> QED
  BY <1>2 DEF Onward

\* From a trie a lookup goes on in the trie of what is under the part of the key it took off.
Leads(D, j, E, i) ==
    /\ IsContent(E) /\ i \in Paths /\ Lookup(E, i) = Lookup(D, j)
    /\ Down(At(TrieOf(D), j)) = <<At(TrieOf(E), i)>>

\* A trie leads nowhere, or to a smaller one with the same answer.
LEMMA DownTrie ==
  ASSUME NEW D, IsContent(D), NEW j \in Paths
  PROVE  Down(At(TrieOf(D), j)) = <<>> \/ \E E, i : Leads(D, j, E, i)
<1>1. CASE DOMAIN D = {}
  BY <1>1, TrieNone, DownEmpty
<1>2. CASE \E i \in Paths : DOMAIN D = {i}
  BY <1>2, TrieLeaf, DownLeaf
<1>3. CASE Wide(D)
  <2>1. CASE j = <<>> \/ DOMAIN Under(D, One(j[1])) = {}
    BY <1>3, <2>1, TrieDownBranch
  <2>2. CASE j # <<>> /\ DOMAIN Under(D, One(j[1])) # {}
    <3> DEFINE U == Under(D, One(j[1]))
    <3>1. j[1] \in Nibbles /\ Tail(j) \in Paths /\ j = Cat(One(j[1]), Tail(j))
      BY <2>2, FirstNibble
    <3>2. One(j[1]) \in Paths
      BY <3>1, OnePath
    <3>3. IsContent(U)
      BY <3>2, UnderIs
    <3>4. Lookup(U, Tail(j)) = Lookup(D, j)
      BY <3>1, <3>2, LookupUnder
    <3>5. Down(At(TrieOf(D), j)) = <<At(TrieOf(U), Tail(j))>>
      BY <1>3, <2>2, TrieDownBranch
    <3> HIDE DEF U
    <3>6. Leads(D, j, U, Tail(j))
      BY <3>1, <3>3, <3>4, <3>5 DEF Leads
    <3> QED
      BY <3>6
  <2> QED
    BY <2>1, <2>2
<1>4. ASSUME NEW c \in Paths, c # <<>>, Fronts(c, DOMAIN D), Wide(Under(D, c))
      PROVE  Down(At(TrieOf(D), j)) = <<>> \/ \E E, i : Leads(D, j, E, i)
  <2>1. CASE \A r \in Paths : j # Cat(c, r)
    BY <1>4, <2>1, TrieDownExt
  <2>2. ASSUME NEW r \in Paths, j = Cat(c, r) PROVE Leads(D, j, Under(D, c), r)
    <3>1. Down(At(TrieOf(D), j)) = <<At(TrieOf(Under(D, c)), r)>>
      BY <1>4, <2>2, TrieDownExt
    <3>2. IsContent(Under(D, c))
      BY UnderIs
    <3>3. Lookup(Under(D, c), r) = Lookup(D, j)
      BY <2>2, LookupUnder
    <3> QED
      BY <3>1, <3>2, <3>3 DEF Leads
  <2> QED
    BY <2>1, <2>2
<1> QED
  BY <1>1, <1>2, <1>3, <1>4, TrieCases

\* Where it does not go on it has the answer.
LEMMA FoundTrie ==
  ASSUME NEW D, IsContent(D), NEW j \in Paths, Down(At(TrieOf(D), j)) = <<>>
  PROVE  Found(At(TrieOf(D), j)) = Lookup(D, j)
<1>1. get_at(TrieOf(D), j) = Found(At(TrieOf(D), j))
  BY OnEnd DEF Stays
<1> QED
  BY <1>1, TrieGet

\* Whatever chain of payloads is followed from the root of a trie: what it settles is true.
LEMMA WalkSound ==
  ASSUME NEW C, IsContent(C), NEW key \in Paths, NEW nodes, Len(nodes) \in Nat, Len(nodes) >= 1,
         nodes[1] = TrieOf(C), NEW v, walk_verify(nodes, key, v)
  PROVE  v = Lookup(C, key)
<1> DEFINE n == Len(nodes)
<1>0. PICK f : FollowedBy(f, nodes, key, n)
  BY FollowSteps
<1>1. /\ Follow(nodes, key, n) = f[n]
      /\ n >= 1 => f[1] = {At(nodes[1], key)}
      /\ \A k \in 1 .. n : k # 1 => f[k] = Onward(f[k - 1], nodes[k])
  BY <1>0 DEF FollowedBy
<1>2. PICK s \in Follow(nodes, key, n) : Down(s) = Absent /\ v = Found(s)
  BY DEF walk_verify
<1>3. n \in Nat /\ n >= 1 /\ f[1] = {At(nodes[1], key)}
  BY <1>1
<1> HIDE DEF n
<1> DEFINE Right(t) == \E D, j : IsContent(D) /\ j \in Paths /\ t = At(TrieOf(D), j) /\ Lookup(D, j) = Lookup(C, key)
<1> DEFINE P == {k \in Nat : k + 1 \in 1 .. n => \A t \in f[k + 1] : Right(t)}
<1>4. 0 \in P
  <2>1. Right(At(nodes[1], key))
    OBVIOUS
  <2> HIDE DEF Right
  <2>2. \A t \in f[0 + 1] : Right(t)
    BY <1>3, <2>1
  <2> QED
    BY <2>2
<1>5. ASSUME NEW k \in Nat, k \in P PROVE k + 1 \in P
  <2> SUFFICES ASSUME (k + 1) + 1 \in 1 .. n, NEW t \in f[(k + 1) + 1] PROVE Right(t)
    OBVIOUS
  <2>1. k + 1 \in 1 .. n /\ ((k + 1) + 1) - 1 = k + 1 /\ (k + 1) + 1 # 1
    BY <1>3
  <2>2. \A r \in f[k + 1] : Right(r)
    BY <1>5, <2>1
  <2>3. t \in Onward(f[k + 1], nodes[(k + 1) + 1])
    BY <1>1, <2>1
  <2>4. PICK r \in f[k + 1] : Down(r) = <<t>>
    BY <2>3, OnwardIs
  <2>5. Right(r)
    BY <2>2, <2>4
  <2>6. PICK D, j : IsContent(D) /\ j \in Paths /\ r = At(TrieOf(D), j) /\ Lookup(D, j) = Lookup(C, key)
    BY <2>5
  <2>7. Down(At(TrieOf(D), j)) = <<>> \/ \E E, i : Leads(D, j, E, i)
    BY <2>6, DownTrie
  <2>10. Down(At(TrieOf(D), j)) # <<>>
    BY <2>4, <2>6
  <2>8. PICK E, i : Leads(D, j, E, i)
    BY <2>7, <2>10, Zenon
  <2>9. t = At(TrieOf(E), i)
    BY <2>4, <2>6, <2>8 DEF Leads
  <2> QED
    BY <2>6, <2>8, <2>9 DEF Leads
<1>6. n - 1 \in P
  <2> HIDE DEF P
  <2> QED
    BY <1>3, <1>4, <1>5, NumberInduction
<1>7. Right(s)
  <2>1. (n - 1) + 1 = n /\ n \in 1 .. n
    BY <1>3
  <2> HIDE DEF Right
  <2> QED
    BY <1>1, <1>2, <1>6, <2>1 DEF n
<1>8. PICK D, j : IsContent(D) /\ j \in Paths /\ s = At(TrieOf(D), j) /\ Lookup(D, j) = Lookup(C, key)
  BY <1>7
<1>9. Found(s) = Lookup(D, j)
  BY <1>2, <1>8, FoundTrie DEF Absent
<1> QED
  BY <1>2, <1>8, <1>9

\* Each position of a way leads to the next.
LEMMA WaySteps ==
  ASSUME NEW s
  PROVE  \A n \in Nat : \A i \in 1 .. Len(WayTo(s, n)) - 1 : Down(WayTo(s, n)[i]) = <<WayTo(s, n)[i + 1]>>
<1> DEFINE P == {n \in Nat : \A i \in 1 .. Len(WayTo(s, n)) - 1 : Down(WayTo(s, n)[i]) = <<WayTo(s, n)[i + 1]>>}
<1>1. 0 \in P
  <2>1. WayTo(s, 0) = <<s>>
    BY WayToNone
  <2>2. Len(<<s>>) - 1 = 0
    OBVIOUS
  <2> QED
    BY <2>1, <2>2
<1>2. ASSUME NEW n \in Nat, n \in P PROVE n + 1 \in P
  <2> DEFINE w == WayTo(s, n)
  <2> DEFINE d == Down(Last(w))
  <2> DEFINE v == WayTo(s, n + 1)
  <2>1. v = w \o d
    BY WayToMore
  <2>2. IsSeq(w) /\ Len(w) # 0
    BY WayToSeq
  <2>3. d = <<>> \/ \E t : d = <<t>>
    BY DownIs
  <2>4. \A i \in 1 .. Len(w) - 1 : Down(w[i]) = <<w[i + 1]>>
    BY <1>2
  <2>5. Len(w) \in Nat /\ Last(w) = w[Len(w)]
    BY <2>2, LenIs DEF Last
  <2>6. d = Down(w[Len(w)])
    BY <2>5
  <2>8. IsSeq(d)
    BY DownIs, TupleIs
  <2> HIDE DEF w, d, v
  <2>10. Len(w \o d) = Len(w) + Len(d)
    BY <2>2, <2>8, Concat, Zenon
  <2>11. \A i \in 1 .. Len(w) : (w \o d)[i] = w[i]
    BY <2>2, <2>8, Concat, Zenon
  <2>9. \A i \in 1 .. Len(d) : (w \o d)[Len(w) + i] = d[i]
    <3>1. \A x, y : IsSeq(x) /\ IsSeq(y) => \A i \in 1 .. Len(y) : (x \o y)[Len(x) + i] = y[i]
      BY Concat
    <3> QED
      BY <2>2, <2>8, <3>1
  <2>7. \A i \in 1 .. Len(v) - 1 : Down(v[i]) = <<v[i + 1]>>
    <3>1. CASE d = <<>>
      <4>1. v = w
        BY <2>1, <2>2, <3>1, JoinNone
      <4> QED
        BY <2>4, <4>1
    <3>2. ASSUME NEW t, d = <<t>> PROVE \A i \in 1 .. Len(v) - 1 : Down(v[i]) = <<v[i + 1]>>
      <4>1. Len(d) = 1 /\ d[1] = t
        BY <3>2
      <4>3. Len(v) = Len(w) + 1 /\ (\A i \in 1 .. Len(w) : v[i] = w[i]) /\ v[Len(w) + 1] = t
        BY <2>1, <2>9, <2>10, <2>11, <4>1
      <4> SUFFICES ASSUME NEW i \in 1 .. Len(v) - 1 PROVE Down(v[i]) = <<v[i + 1]>>
        OBVIOUS
      <4>4. i \in 1 .. Len(w) /\ v[i] = w[i]
        BY <2>5, <4>3
      <4>5. CASE i = Len(w)
        BY <2>6, <3>2, <4>3, <4>4, <4>5
      <4>6. CASE i # Len(w)
        <5>1. i \in 1 .. Len(w) - 1 /\ i + 1 \in 1 .. Len(w)
          BY <2>5, <4>4, <4>6
        <5> QED
          BY <2>4, <4>3, <4>4, <5>1
      <4> QED
        BY <4>5, <4>6
    <3> QED
      BY <2>3, <3>1, <3>2
  <2> QED
    BY <2>7 DEF v
<1> HIDE DEF P
<1>3. \A n \in Nat : n \in P
  BY <1>1, <1>2, NumberInduction
<1> QED
  BY <1>3 DEF P

\* The chain of a key: the payloads along the way, from the root.
LEMMA ChainIs ==
  ASSUME NEW h, NEW key, Len(key) \in Nat
  PROVE  /\ IsSeq(ChainOf(h, key)) /\ Len(ChainOf(h, key)) = Len(Way(h, key))
         /\ Len(ChainOf(h, key)) \in Nat /\ Len(ChainOf(h, key)) >= 1
         /\ ChainOf(h, key)[1] = h
         /\ \A i \in 1 .. Len(Way(h, key)) : ChainOf(h, key)[i] = Way(h, key)[i].h
<1> DEFINE w == Way(h, key)
<1> DEFINE c == ChainOf(h, key)
<1>1. IsSeq(w) /\ Len(w) # 0 /\ w[1] = At(h, key)
  <2>1. w = WayTo(At(h, key), Len(key))
    BY WayIs DEF At
  <2> QED
    BY <2>1, WayToSeq
<1>2. Len(w) \in Nat
  BY <1>1, LenIs
<1>3. c = [i \in 1 .. Len(w) |-> w[i].h]
  BY DEF ChainOf
<1> HIDE DEF w, c
<1>4. IsSeq(c) /\ Len(c) = Len(w)
  BY <1>2, <1>3, MadeSeq
<1>5. 1 \in 1 .. Len(w)
  BY <1>1, <1>2
<1>6. c[1] = h
  BY <1>1, <1>3, <1>5, AtIs
<1>7. \A i \in 1 .. Len(w) : c[i] = w[i].h
  BY <1>3
<1> QED
  BY <1>1, <1>2, <1>4, <1>6, <1>7 DEF w, c

\* The chain made for a key settles it.
LEMMA WalkComplete ==
  ASSUME NEW C, IsContent(C), NEW key \in Paths
  PROVE  walk_verify(ChainOf(TrieOf(C), key), key, get_at(TrieOf(C), key))
<1> DEFINE h == TrieOf(C)
<1> DEFINE w == Way(h, key)
<1> DEFINE nodes == ChainOf(h, key)
<1> DEFINE n == Len(nodes)
<1>0. Len(key) \in Nat
  BY PathIs
<1>1. /\ n = Len(w) /\ n \in Nat /\ n >= 1 /\ nodes[1] = h
      /\ \A i \in 1 .. Len(w) : nodes[i] = w[i].h
  BY <1>0, ChainIs
<1>2. w = WayTo(At(h, key), Len(key))
  BY WayIs DEF At
<1>3. IsSeq(w) /\ w[1] = At(h, key) /\ \A i \in 1 .. Len(w) - 1 : Down(w[i]) = <<w[i + 1]>>
  BY <1>0, <1>2, WayToSeq, WaySteps
<1>4. Down(Last(w)) = <<>> /\ get_at(h, key) = Found(Last(w))
  BY TrieEnds DEF Ends, get_at
<1>5. Last(w) = w[Len(w)]
  BY DEF Last
<1>6. PICK f : FollowedBy(f, nodes, key, n)
  <2> HIDE DEF n, nodes
  <2> QED
    BY <1>1, FollowSteps
<1>7. /\ Follow(nodes, key, n) = f[n] /\ (n >= 1 => f[1] = {At(nodes[1], key)})
      /\ \A k \in 1 .. n : k # 1 => f[k] = Onward(f[k - 1], nodes[k])
  BY <1>6 DEF FollowedBy
<1> HIDE DEF h, w, nodes
<1>8. n = Len(w) /\ n \in Nat /\ n >= 1 /\ f[1] = {w[1]}
  BY <1>1, <1>3, <1>7
<1>13. n = Len(nodes)
  OBVIOUS
<1> HIDE DEF n
<1> DEFINE P == {k \in Nat : k + 1 \in 1 .. n => f[k + 1] = {w[k + 1]}}
<1>9. 0 \in P
  BY <1>8
<1>10. ASSUME NEW k \in Nat, k \in P PROVE k + 1 \in P
  <2> SUFFICES ASSUME (k + 1) + 1 \in 1 .. n PROVE f[(k + 1) + 1] = {w[(k + 1) + 1]}
    OBVIOUS
  <2> DEFINE m == k + 1
  <2>1. m \in 1 .. n /\ (m + 1) - 1 = m /\ m + 1 # 1 /\ m + 1 \in 1 .. n /\ m \in 1 .. n - 1 /\ m \in Nat
    BY <1>8
  <2>2. f[m] = {w[m]}
    BY <1>10, <2>1
  <2> HIDE DEF m
  <2>3. f[m + 1] = Onward({w[m]}, nodes[m + 1])
    BY <1>7, <2>1, <2>2
  <2>4. Down(w[m]) = <<w[m + 1]>>
    BY <1>3, <1>8, <2>1
  <2>5. nodes[m + 1] = w[m + 1].h
    BY <1>1, <1>8, <2>1
  <2>6. Onward({w[m]}, w[m + 1].h) = {w[m + 1]}
    BY <2>4, OnwardOne
  <2>7. f[m + 1] = {w[m + 1]}
    BY <2>3, <2>5, <2>6
  <2> QED
    BY <2>7 DEF m
<1>11. n - 1 \in P
  <2> HIDE DEF P
  <2> QED
    BY <1>8, <1>9, <1>10, NumberInduction
<1>12. Follow(nodes, key, n) = {w[n]}
  <2>1. (n - 1) + 1 = n /\ n \in 1 .. n
    BY <1>8
  <2> QED
    BY <1>7, <1>11, <2>1
<1>14. w[n] \in Follow(nodes, key, Len(nodes)) /\ Down(w[n]) = Absent /\ get_at(h, key) = Found(w[n])
  BY <1>4, <1>5, <1>8, <1>12, <1>13 DEF Absent
<1>15. walk_verify(nodes, key, get_at(h, key))
  BY <1>14 DEF walk_verify
<1> QED
  BY <1>15 DEF nodes, h

\* The proof made for a key verifies.
LEMMA ProofVerifies ==
  ASSUME NEW f, Store(f), NEW k \in DOMAIN f
  PROVE  verify(k, prove(RootOf(f), k), RootOf(f)) /\ prove(RootOf(f), k).value = f[k]
<1> DEFINE root == RootOf(f)
<1> DEFINE key == bytes_to_nibbles(k)
<1> DEFINE nodes == ChainOf(root, key)
<1> DEFINE proof == prove(root, k)
<1>1. k \in Bytes
  BY DEF Store
<1>2. key \in Paths
  BY <1>1, KeyPath, Zenon
<1>3. IsContent(ByPath(f))
  BY ByPathIs, Zenon
<1>4. walk_verify(nodes, key, get_at(root, key))
  BY <1>2, <1>3, WalkComplete DEF RootOf
<1>5. /\ proof.nodes = nodes /\ proof.value = trie_get(root, k)
      /\ proof.chain_merkle = merkle_prove(nodes, 0) /\ proof.chain_merkle_root = compute_root(nodes)
  BY DEF prove, Bound
<1>6. IsSeq(nodes) /\ Len(nodes) \in Nat /\ Len(nodes) >= 1 /\ nodes[1] = root
  <2>1. Len(key) \in Nat
    BY <1>2, PathIs
  <2> QED
    BY <2>1, ChainIs
<1>7. trie_get(root, k) = get_at(root, key) /\ trie_get(root, k) = f[k]
  BY StoreGet DEF trie_get
<1> HIDE DEF root, key, nodes, proof
<1>8. nodes # <<>>
  BY <1>6, TupleIs
<1>9. merkle_verify(nodes[1], merkle_prove(nodes, 0), compute_root(nodes))
  <2> DEFINE mp == merkle_prove(nodes, 0)
  <2>1. 0 \in 0 .. Len(nodes) - 1
    BY <1>6
  <2>2. mp = merkle_prove(nodes, 0)
    OBVIOUS
  <2> HIDE DEF mp
  <2>3. \A x : merkle_verify(x, mp, compute_root(nodes)) <=> x = nodes[0 + 1]
    BY <1>6, <2>1, <2>2, MerkleComplete
  <2> QED
    BY <2>2, <2>3
<1>10. verify(k, proof, root)
  BY <1>4, <1>5, <1>6, <1>7, <1>8, <1>9 DEF verify, key
<1> QED
  BY <1>5, <1>7, <1>10 DEF proof, root

\* A proof that verifies says the truth, whatever chain of payloads it shows.
LEMMA ProofTrue ==
  ASSUME NEW f, Store(f), NEW k \in DOMAIN f, NEW proof, IsSeq(proof.nodes), verify(k, proof, RootOf(f))
  PROVE  proof.value = f[k]
<1> DEFINE key == bytes_to_nibbles(k)
<1> DEFINE nodes == proof.nodes
<1>1. k \in Bytes
  BY DEF Store
<1>2. key \in Paths
  BY <1>1, KeyPath, Zenon
<1>3. IsContent(ByPath(f))
  BY ByPathIs, Zenon
<1>4. nodes # <<>> /\ nodes[1] = TrieOf(ByPath(f)) /\ walk_verify(nodes, key, proof.value)
  BY DEF verify, RootOf
<1> HIDE DEF nodes, key
<1>5. Len(nodes) \in Nat /\ Len(nodes) >= 1
  <2>1. IsSeq(nodes)
    BY DEF nodes
  <2>2. Len(nodes) \in Nat
    BY <2>1, LenIs
  <2>3. Len(nodes) # 0
    BY <1>4, <2>1 DEF IsSeq
  <2> QED
    BY <2>2, <2>3
<1>6. proof.value = Lookup(ByPath(f), key)
  BY <1>2, <1>3, <1>4, <1>5, WalkSound
<1> QED
  BY <1>6, ByPathAt DEF key

\* What a source puts together out of a chain is a proof over a sequence of payloads.
LEMMA CutChain ==
  ASSUME NEW h, NEW k \in Bytes, NEW n \in 1 .. Len(ChainOf(h, bytes_to_nibbles(k))), NEW v
  PROVE  /\ IsSeq(Bound(SubSeq(ChainOf(h, bytes_to_nibbles(k)), 1, n), v).nodes)
         /\ Bound(SubSeq(ChainOf(h, bytes_to_nibbles(k)), 1, n), v).value = v
<1> DEFINE c == ChainOf(h, bytes_to_nibbles(k))
<1>1. Len(bytes_to_nibbles(k)) \in Nat
  BY KeyPath, PathIs
<1>2. IsSeq(c) /\ Len(c) \in Nat
  BY <1>1, ChainIs
<1> HIDE DEF c
<1>3. n \in 1 .. Len(c)
  BY DEF c
<1>4. 1 \in Nat \ {0} /\ n \in Nat /\ 1 <= n + 1 /\ n <= Len(c)
  BY <1>2, <1>3
<1>5. IsSeq(SubSeq(c, 1, n))
  BY <1>2, <1>4, Sub
<1>6. Bound(SubSeq(c, 1, n), v).nodes = SubSeq(c, 1, n) /\ Bound(SubSeq(c, 1, n), v).value = v
  BY DEF Bound
<1> QED
  BY <1>5, <1>6 DEF c

\* Whatever a source offers of a trie for some of its keys, what verifies is the truth.
LEMMA OffersTrue ==
  ASSUME NEW f, Store(f), NEW j \in DOMAIN f, NEW n \in 1 .. Len(ChainOf(RootOf(f), bytes_to_nibbles(j))),
         NEW v, NEW k \in DOMAIN f,
         verify(k, Bound(SubSeq(ChainOf(RootOf(f), bytes_to_nibbles(j)), 1, n), v), RootOf(f))
  PROVE  v = f[k]
<1> DEFINE p == Bound(SubSeq(ChainOf(RootOf(f), bytes_to_nibbles(j)), 1, n), v)
<1>1. j \in Bytes
  BY DEF Store
<1>2. IsSeq(p.nodes) /\ p.value = v
  BY <1>1, CutChain
<1>3. verify(k, p, RootOf(f))
  OBVIOUS
<1> HIDE DEF p
<1> QED
  BY <1>2, <1>3, ProofTrue

\* proof::verify accepts exactly the truth about the two tries, whatever chain of their
\* nodes a source shows.
THEOREM ProofsAreSound == LightSpec => []ProofsSound
<1>1. LightInv => ProofsSound
  <2> SUFFICES ASSUME LightInv PROVE ProofsSound
    OBVIOUS
  <2> DEFINE e == Encoded(live)
  <2>1. live \in AccountsOf /\ accounts = RootOf(e) /\ slots \in SlotsOf /\ storage = RootOf(slots)
    BY DEF LightInv, TriesInv
  <2>2. Store(e) /\ DOMAIN e = Addresses
    BY <2>1, EncodedIs
  <2>3. Store(slots) /\ DOMAIN slots = Slots
    BY <2>1, SlotsIs
  <2> HIDE DEF e
  <2>4. \A a \in Addresses : verify(a, prove(accounts, a), accounts)
    BY <2>1, <2>2, ProofVerifies
  <2>5. \A k \in Slots : verify(k, prove(storage, k), storage)
    BY <2>1, <2>3, ProofVerifies
  <2>6. ASSUME NEW j \in Addresses, NEW n \in 1 .. Len(ChainOf(accounts, bytes_to_nibbles(j))), NEW v,
               NEW a \in Addresses, verify(a, Bound(SubSeq(ChainOf(accounts, bytes_to_nibbles(j)), 1, n), v), accounts)
        PROVE  Bound(SubSeq(ChainOf(accounts, bytes_to_nibbles(j)), 1, n), v).value = e[a]
    <3>1. v = e[a]
      BY <2>1, <2>2, <2>6, OffersTrue
    <3> QED
      BY <3>1 DEF Bound
  <2>7. ASSUME NEW j \in Slots, NEW n \in 1 .. Len(ChainOf(storage, bytes_to_nibbles(j))), NEW v,
               NEW k \in Slots, verify(k, Bound(SubSeq(ChainOf(storage, bytes_to_nibbles(j)), 1, n), v), storage)
        PROVE  Bound(SubSeq(ChainOf(storage, bytes_to_nibbles(j)), 1, n), v).value = slots[k]
    <3>1. v = slots[k]
      BY <2>1, <2>3, <2>7, OffersTrue
    <3> QED
      BY <3>1 DEF Bound
  <2>8. Offers(accounts, Addresses, AccountValues, LAMBDA p : \A a \in Addresses :
            verify(a, p, accounts) => p.value = Encoded(live)[a])
    BY <2>6 DEF Offers, e
  <2>9. Offers(storage, Slots, {Some(w) : w \in Words}, LAMBDA p : \A k \in Slots :
            verify(k, p, storage) => p.value = slots[k])
    BY <2>7 DEF Offers
  <2> QED
    BY <2>4, <2>5, <2>8, <2>9 DEF ProofsSound
<1> QED
  BY <1>1, LightInvariant, PTL

\* An expired account can be brought back exactly as it was, however the trie has changed.
THEOREM ExpiryLosesNothing == LightSpec => []ExpiredRecoverable
<1>1. LightInv => ExpiredRecoverable
  <2> SUFFICES ASSUME LightInv, NEW a \in Addresses, live[a] = Absent, last[a] # Absent
               PROVE  \E r \in records : /\ r.address = a /\ decode(r.encoded) = last[a][1]
                                         /\ reactivate(r, prove(accounts, a))
    BY DEF ExpiredRecoverable
  <2> DEFINE e == Encoded(live)
  <2>1. live \in AccountsOf /\ accounts = RootOf(e)
    BY DEF LightInv, TriesInv
  <2>2. Store(e) /\ DOMAIN e = Addresses /\ e[a] = Absent
    BY <2>1, EncodedIs
  <2> HIDE DEF e
  <2>3. PICK r \in records : r.address = a /\ r.encoded = encode(last[a][1])
    BY DEF LightInv, RecordsInv
  <2>4. r.inclusion.value = Some(r.encoded) /\ verify(r.address, r.inclusion, r.root)
    BY DEF LightInv, RecordsInv, RecordInv
  <2>5. decode(r.encoded) = last[a][1]
    BY <2>3, Decoded
  <2>6. trie_get(accounts, a) = Absent
    BY <2>1, <2>2, StoreGet
  <2>7. verify(a, prove(accounts, a), accounts) /\ prove(accounts, a).value = Absent
    BY <2>1, <2>2, ProofVerifies
  <2>8. Some(prove(accounts, a)) = prove_exclusion(accounts, a)
    BY <2>7 DEF prove_exclusion
  <2>9. reactivate(r, prove(accounts, a))
    BY <2>3, <2>4, <2>6, <2>7, <2>8 DEF reactivate
  <2> QED
    BY <2>3, <2>5, <2>9
<1> QED
  BY <1>1, LightInvariant, PTL

\* The root of two leaves.
LEMMA StateRootIs ==
  ASSUME NEW x, NEW y
  PROVE  state_root(x, y) = <<1, <<0, x>>, <<0, y>>>>
<1>1. PICK s : s = <<x, y>>
  OBVIOUS
<1>2. IsSeq(s) /\ Len(s) = 2 /\ s # <<>> /\ s[1] = x /\ s[2] = y
  BY <1>1, TupleIs
<1>3. PICK f : Rises(f, s, Len(s)) /\ compute_root(s) = f[Len(s)][1]
  BY <1>2, ComputeRootIs
<1>4. /\ f[0] = LeafLayer(s) /\ f[1] = Rise(f[0]) /\ f[2] = Rise(f[1])
  BY <1>2, <1>3 DEF Rises
<1>5. LeafLayer(s) = <<<<0, x>>, <<0, y>>>>
  BY <1>2 DEF LeafLayer, hash_leaf
<1>6. Rise(LeafLayer(s)) = <<<<1, <<0, x>>, <<0, y>>>>>>
  <2>1. PICK l : l = LeafLayer(s)
    OBVIOUS
  <2>2. IsSeq(l) /\ Len(l) = 2 /\ l[1] = <<0, x>> /\ l[2] = <<0, y>>
    BY <1>5, <2>1, TupleIs
  <2>3. Evened(l) = l
    BY <2>2 DEF Evened
  <2>4. Rise(l) = [i \in 1 .. (Len(l) \div 2) |-> hash_branch(l[2 * i - 1], l[2 * i])]
    <3>1. Rise(l) = NextLayer(l)
      BY <2>2 DEF Rise
    <3>2. NextLayer(l) = [i \in 1 .. (Len(Evened(l)) \div 2) |-> hash_branch(Evened(l)[2 * i - 1], Evened(l)[2 * i])]
      BY DEF NextLayer
    <3> QED
      BY <2>3, <3>1, <3>2
  <2>5. Rise(l) = [i \in 1 .. 1 |-> hash_branch(l[2 * i - 1], l[2 * i])]
    BY <2>2, <2>4
  <2>6. Rise(l) = [i \in 1 .. 1 |-> <<1, <<0, x>>, <<0, y>>>>]
    BY <2>2, <2>5 DEF hash_branch
  <2> QED
    BY <2>1, <2>6
<1>7. \A z : Rise(<<z>>) = <<z>>
  BY TupleIs DEF Rise
<1>8. f[2] = <<<<1, <<0, x>>, <<0, y>>>>>>
  BY <1>4, <1>6, <1>7
<1> QED
  BY <1>1, <1>2, <1>3, <1>8 DEF state_root

\* The state root determines the root of the accounts.
LEMMA StateRootOne ==
  ASSUME NEW x, NEW y, NEW v, NEW w, state_root(x, y) = state_root(v, w)
  PROVE  x = v
<1>1. <<1, <<0, x>>, <<0, y>>>> = <<1, <<0, v>>, <<0, w>>>>
  BY StateRootIs
<1>2. <<0, x>> = <<0, v>>
  BY <1>1
<1> QED
  BY <1>2

\* It is never the root of a forged header.
LEMMA StateRootTrue ==
  ASSUME NEW x, NEW y
  PROVE  state_root(x, y) # <<"another history">>
<1>1. PICK r : r = state_root(x, y)
  OBVIOUS
<1>2. PICK q : q = <<"another history">>
  OBVIOUS
<1>3. Len(r) = 3
  BY <1>1, StateRootIs, TupleIs
<1>4. Len(q) = 1
  BY <1>2, TupleIs
<1>5. r # q
  BY <1>3, <1>4
<1> QED
  BY <1>1, <1>2, <1>5

\* A response to a request for an account: two roots and a proof.
Response(resp, root, other, p) == resp = [accountRoot |-> root, storageRoot |-> other, proof |-> p]

\* An account accepted under a header is the one of its state.
SeenTrue(c, qc, resp, a) ==
    verify_account(c.header, qc, resp, a) # Absent => verify_account(c.header, qc, resp, a) = c.live[a]

\* The account a light client accepts under a header is the one of that header's state,
\* whatever payloads and roots it was shown.
LEMMA AccountSeen ==
  ASSUME NEW c, NEW i, Committed(c, i), NEW qc, NEW root, NEW other, NEW p, IsSeq(p.nodes), NEW a \in Addresses,
         NEW resp, Response(resp, root, other, p)
  PROVE  SeenTrue(c, qc, resp, a)
<1> SUFFICES ASSUME verify_account(c.header, qc, resp, a) # Absent
             PROVE  verify_account(c.header, qc, resp, a) = c.live[a]
  BY DEF SeenTrue
<1>1. resp.accountRoot = root /\ resp.storageRoot = other /\ resp.proof = p
  BY DEF Response
<1>2. /\ state_root(root, other) = c.header.state_root /\ verify(a, p, root) /\ p.value # Absent
      /\ verify_account(c.header, qc, resp, a) = Some(decode(p.value[1]))
  BY <1>1 DEF verify_account
<1>3. c.header.state_root = state_root(c.accounts, c.storage) /\ c.live \in AccountsOf /\ c.accounts = RootOf(Encoded(c.live))
  BY DEF Committed, HeaderAt
<1> DEFINE e == Encoded(c.live)
<1>4. root = RootOf(e)
  <2>1. state_root(root, other) = state_root(c.accounts, c.storage)
    BY <1>2, <1>3
  <2>2. root = c.accounts
    BY <2>1, StateRootOne, Zenon
  <2> QED
    BY <1>3, <2>2
<1>5. /\ Store(e) /\ DOMAIN e = Addresses
      /\ c.live[a] = Absent => e[a] = Absent
      /\ c.live[a] # Absent => c.live[a] = Some(c.live[a][1]) /\ e[a] = Some(encode(c.live[a][1]))
  BY <1>3, EncodedIs
<1> HIDE DEF e
<1>6. p.value = e[a]
  BY <1>2, <1>4, <1>5, ProofTrue
<1>7. p.value[1] = encode(c.live[a][1])
  BY <1>2, <1>5, <1>6 DEF Some
<1> QED
  BY <1>2, <1>5, <1>6, <1>7, Decoded

\* A certificate that has quorum and does not overstate its power has a signer
\* outside the minority.
LEMMA HonestSigner ==
  ASSUME NEW qc, qc.power \in Nat, has_quorum(qc.power, total_power), ~Overstates(qc)
  PROVE  \E key \in Range(qc.signers) : key \in Validators \ Minority
<1> DEFINE S == Range(qc.signers) \cap Validators
<1>1. PowerOf(S) \in Nat
  BY PowerAdditive
<1>2. qc.power <= Saturated(PowerOf(S))
  <2>1. ~(qc.power > Saturated(PowerOf(S)))
    BY DEF Overstates
  <2>2. Saturated(PowerOf(S)) \in Nat
    BY <1>1, PowerAssumption DEF Saturated
  <2> QED
    BY <2>1, <2>2
<1>3. total_power \in Nat
  <2>1. PowerOf(Validators) \in Nat
    BY PowerAdditive
  <2> QED
    BY <2>1, PowerAssumption DEF total_power, Saturated
<1> HIDE DEF S
<1>4. has_quorum(PowerOf(S), total_power)
  <2>1. PICK p, q, t : p = qc.power /\ q = PowerOf(S) /\ t = total_power
    OBVIOUS
  <2>2. p \in Nat /\ q \in Nat /\ t \in Nat /\ p <= Saturated(q)
    BY <1>1, <1>2, <1>3, <2>1
  <2>3. has_quorum(p, t) => has_quorum(q, t)
    BY <2>2, PowerAssumption DEF has_quorum, Saturated
  <2> QED
    BY <2>1, <2>3
<1>5. ~(S \subseteq Minority)
  BY <1>4, LightAssumption
<1> QED
  BY <1>5 DEF S

\* Committed headers have their place in the chain for their height.
LEMMA HeaderIs ==
  ASSUME ChainInv, NEW h \in Headers
  PROVE  h.height \in Nat /\ h.state_root # <<"another history">> /\ Forged(h).height = h.height
         /\ Forged(h).state_root = <<"another history">>
<1>1. PICK i \in 1 .. Len(chain) : h = chain[i].header
  BY DEF Headers
<1>2. IsSeq(chain) /\ Committed(chain[i], i)
  BY DEF ChainInv
<1>3. Len(chain) \in Nat
  BY <1>2, LenIs
<1>4. PICK n, r : n = i - 1 /\ r = state_root(chain[i].accounts, chain[i].storage)
  OBVIOUS
<1>5. h = [height |-> n, round |-> 0, state_root |-> r]
  BY <1>1, <1>2, <1>4 DEF Committed, HeaderAt
<1>6. PICK q : q = <<"another history">>
  OBVIOUS
<1>7. r # q
  BY <1>4, <1>6, StateRootTrue
<1>8. n \in Nat
  BY <1>3, <1>4
<1>9. Forged(h) = [h EXCEPT !.state_root = q]
  BY <1>6 DEF Forged
<1>10. Forged(h) = [height |-> n, round |-> 0, state_root |-> q]
  BY <1>5, <1>9
<1>11. h.height = n /\ h.state_root = r /\ Forged(h).height = n /\ Forged(h).state_root = q
  BY <1>5, <1>10
<1> QED
  BY <1>6, <1>7, <1>8, <1>11

\* Candidates have heights.
LEMMA CandidateIs ==
  ASSUME ChainInv, NEW h \in Candidates
  PROVE  h.height \in Nat
<1>1. PICK g \in Headers : h = g \/ h = Forged(g)
  BY DEF Candidates
<1> QED
  BY <1>1, HeaderIs

\* What an announcement is made of.
LEMMA AnnouncedIs ==
  ASSUME ChainInv, NEW x \in Announced
  PROVE  /\ x.header.height \in Nat
         /\ \E b, m \in Candidates, c \in Claims :
              /\ x.qc = Certificate(b, c.signers, c.power, m)
              /\ \A key \in Range(c.signers) : Signed(key, m)
<1>1. PICK h \in Candidates : x \in [header : {h}, qc : UNION {Certificates(h.height, c) : c \in Claims}]
  BY DEF Announced
<1>2. x.header = h /\ x.qc \in UNION {Certificates(h.height, c) : c \in Claims}
  BY <1>1
<1>3. PICK c \in Claims : x.qc \in Certificates(h.height, c)
  BY <1>2
<1>4. PICK b \in AtHeight(h.height), m \in Signable(h.height, c.signers) :
             x.qc = Certificate(b, c.signers, c.power, m)
  BY <1>3 DEF Certificates
<1>5. b \in Candidates /\ m \in Candidates /\ \A key \in Range(c.signers) : Signed(key, m)
  BY DEF AtHeight, Signable
<1> QED
  BY <1>2, <1>4, <1>5, CandidateIs

\* A certified header that was announced without more power than there is, is a
\* committed one, or not above the last checkpoint.
LEMMA CertifiedIs ==
  ASSUME ChainInv, NEW x \in Announced, ~Overstates(x.qc), verify_qc(x.header, x.qc)
  PROVE  x.header \in Headers \/ x.header.height =< chain[LastCheckpoint].header.height
<1>1. PICK b, m \in Candidates, c \in Claims :
             /\ x.qc = Certificate(b, c.signers, c.power, m)
             /\ \A key \in Range(c.signers) : Signed(key, m)
  BY AnnouncedIs
<1>2. PICK qc, h : qc = x.qc /\ h = x.header
  OBVIOUS
<1>3. /\ qc.height = b.height /\ qc.round = b.round /\ qc.block = b
      /\ qc.signers = c.signers /\ qc.power = c.power
      /\ qc.agg_sig = agg_sig(c.signers, signed_message(m.height, m.round, m))
  BY <1>1, <1>2 DEF Certificate
<1>4. /\ qc.block = h /\ has_quorum(qc.power, total_power)
      /\ qc.agg_sig = agg_sig(qc.signers, signed_message(qc.height, qc.round, qc.block))
  BY <1>2 DEF verify_qc, qc_verify
<1>5. m = h
  <2>1. signed_message(m.height, m.round, m) = signed_message(qc.height, qc.round, qc.block)
    BY <1>3, <1>4 DEF agg_sig
  <2>2. PICK u, v, w, z : u = m.height /\ v = m.round /\ w = qc.height /\ z = qc.round
    OBVIOUS
  <2>3. <<u, v, m>> = <<w, z, h>>
    BY <1>4, <2>1, <2>2 DEF signed_message
  <2> QED
    BY <2>3
<1>6. qc.power \in Nat
  BY <1>3, LightAssumption
<1>7. PICK key \in Range(qc.signers) : key \in Validators \ Minority
  BY <1>2, <1>4, <1>6, HonestSigner
<1>8. Signed(key, h)
  BY <1>1, <1>3, <1>5, <1>7
<1> QED
  BY <1>2, <1>7, <1>8 DEF Signed

\* Where there is a checkpoint, the last one is that of a committed header.
LEMMA CheckpointIs ==
  ASSUME ChainInv, chain # <<>>, NEW c \in Range(CheckpointOf(LastCheckpoint))
  PROVE  /\ LastCheckpoint \in 1 .. Len(chain)
         /\ c.height = chain[LastCheckpoint].header.height /\ c.header_hash = chain[LastCheckpoint].header
<1> DEFINE m == LastCheckpoint
<1> DEFINE T == {i \in 1 .. Len(chain) : CheckpointOf(i) # Absent}
<1>1. IsSeq(chain) /\ Len(chain) \in Nat
  BY LenIs DEF ChainInv
<1>2. Len(chain) # 0
  BY <1>1, LenIs DEF IsSeq
<1>3. CheckpointOf(m) # Absent
  BY DEF Range, Absent
<1>4. CHECKPOINT_INTERVAL # 0 /\ CheckpointOf(m) = Some([height |-> chain[m].header.height, header_hash |-> chain[m].header])
  BY <1>3 DEF CheckpointOf, record_checkpoint
<1>5. c = [height |-> chain[m].header.height, header_hash |-> chain[m].header]
  BY <1>4 DEF Range, Some
<1>6. 1 \in T
  <2>1. 1 \in 1 .. Len(chain)
    BY <1>1, <1>2
  <2>2. chain[1].header.height = 0
    <3>1. Committed(chain[1], 1)
      BY <2>1 DEF ChainInv
    <3>2. chain[1].header = HeaderAt(1 - 1, state_root(chain[1].accounts, chain[1].storage))
      BY <3>1 DEF Committed
    <3> QED
      BY <3>2 DEF HeaderAt
  <2>3. 0 % CHECKPOINT_INTERVAL = 0
    BY <1>4, LightAssumption
  <2>4. CheckpointOf(1) = Some([height |-> chain[1].header.height, header_hash |-> chain[1].header])
    BY <1>4, <2>2, <2>3 DEF CheckpointOf, record_checkpoint
  <2> QED
    BY <2>1, <2>4 DEF Some, Absent
<1>7. m \in 1 .. Len(chain)
  <2> DEFINE D == {Len(chain) - i : i \in T}
  <2>1. D \in SUBSET Nat /\ D # {}
    BY <1>1, <1>6
  <2>2. PICK d \in D : \A e \in D : d <= e
    BY <2>1, LeastNumber
  <2>3. PICK i \in T : d = Len(chain) - i
    BY <2>2
  <2>4. \A j \in T : j <= i
    <3> SUFFICES ASSUME NEW j \in T PROVE j <= i
      OBVIOUS
    <3>1. Len(chain) - j \in D
      OBVIOUS
    <3>2. d <= Len(chain) - j
      BY <2>2, <3>1
    <3>3. i \in Nat /\ j \in Nat
      BY <1>1
    <3> QED
      BY <1>1, <2>3, <3>2, <3>3
  <2>5. i \in 1 .. Len(chain) /\ CheckpointOf(i) # Absent /\ \A j \in (i + 1) .. Len(chain) : CheckpointOf(j) = Absent
    BY <1>1, <2>4
  <2> QED
    BY <2>5 DEF LastCheckpoint
<1> QED
  BY <1>5, <1>7

\* From a checkpoint a light client reaches only committed headers, however many are
\* announced, if no certificate overstates its power.
LEMMA SyncReaches ==
  ASSUME ChainInv, chain # <<>>, NEW c \in Range(CheckpointOf(LastCheckpoint)),
         NEW s, IsSeq(s), \A i \in 1 .. Len(s) : s[i] \in Announced /\ ~Overstates(s[i].qc)
  PROVE  Range(sync_checkpoints(c, s)) \subseteq Headers
<1> DEFINE I == {i \in 1 .. Len(s) : s[i].header.height = c.height}
<1> DEFINE at == SelectInSeq(s, LAMBDA a : a.header.height = c.height)
<1> DEFINE tail == From(s, at)
<1> DEFINE n == Len(tail)
<1>1. /\ LastCheckpoint \in 1 .. Len(chain)
      /\ c.height = chain[LastCheckpoint].header.height /\ c.header_hash = chain[LastCheckpoint].header
  BY CheckpointIs
<1>2. Len(s) \in Nat
  BY LenIs
<1>3. at = IF I # {} THEN Min(I) ELSE 0
  BY DEF SelectInSeq
<1>4. at # 0 => at \in 1 .. Len(s)
  <2> SUFFICES ASSUME at # 0 PROVE at \in I
    OBVIOUS
  <2> HIDE DEF at
  <2>1. I # {} /\ at = Min(I)
    BY <1>3
  <2>2. I \in SUBSET Nat
    BY <1>2
  <2> HIDE DEF I
  <2>3. \E x \in I : \A y \in I : x <= y
    BY <2>1, <2>2, LeastNumber
  <2> QED
    BY <2>1, <2>3 DEF Min
<1> DEFINE Good == /\ at # 0 /\ s[at].header = c.header_hash
                   /\ \A i \in 1 .. Len(tail) : verify_qc(tail[i].header, tail[i].qc)
                   /\ \A i \in 2 .. Len(tail) : tail[i].header.height = tail[i - 1].header.height + 1
<1>5. sync_checkpoints(c, s) = IF Good THEN Some(Last(tail).header) ELSE Absent
  BY DEF sync_checkpoints
<1>6. CASE ~Good
  <2> HIDE DEF Good
  <2>1. sync_checkpoints(c, s) = Absent
    BY <1>5, <1>6
  <2> QED
    BY <2>1 DEF Range, Absent
<1>7. CASE Good
  <2>1. sync_checkpoints(c, s) = Some(Last(tail).header)
    <3> HIDE DEF Good
    <3> QED
      BY <1>5, <1>7
  <2>2. Range(sync_checkpoints(c, s)) = {Last(tail).header}
    <3> HIDE DEF tail
    <3> QED
      BY <2>1 DEF Range, Some
  <2> HIDE DEF at
  <2>3. at \in 1 .. Len(s)
    BY <1>4, <1>7
  <2>4. IsSeq(tail) /\ n = Len(s) + 1 - at /\ \A i \in 1 .. Len(s) + 1 - at : tail[i] = s[at + i - 1]
    <3>1. at \in Nat \ {0} /\ Len(s) \in Nat /\ at <= Len(s) + 1 /\ Len(s) <= Len(s)
      BY <1>2, <2>3
    <3> QED
      BY <3>1, Sub DEF From
  <2>5. n \in Nat /\ n >= 1
    BY <1>2, <2>3, <2>4
  <2>6. \A i \in 1 .. n : tail[i] \in Announced /\ ~Overstates(tail[i].qc)
    <3> SUFFICES ASSUME NEW i \in 1 .. n PROVE tail[i] \in Announced /\ ~Overstates(tail[i].qc)
      OBVIOUS
    <3>1. at + i - 1 \in 1 .. Len(s) /\ tail[i] = s[at + i - 1]
      BY <1>2, <2>3, <2>4
    <3> QED
      BY <3>1
  <2>7. tail[1].header = chain[LastCheckpoint].header
    <3>1. at + 1 - 1 = at /\ 1 \in 1 .. Len(s) + 1 - at
      BY <1>2, <2>3
    <3> QED
      BY <1>1, <1>7, <2>4, <3>1
  <2>8. /\ \A i \in 1 .. n : verify_qc(tail[i].header, tail[i].qc)
        /\ \A i \in 2 .. n : tail[i].header.height = tail[i - 1].header.height + 1
    BY <1>7
  <2>9. Last(tail) = tail[n]
    BY DEF Last
  <2> HIDE DEF Good, tail, n
  <2>10. CASE n = 1
    <3>1. chain[LastCheckpoint].header \in Headers
      BY <1>1 DEF Headers
    <3> QED
      BY <2>2, <2>7, <2>9, <2>10, <3>1
  <2>11. CASE n # 1
    <3> DEFINE H == chain[LastCheckpoint].header.height
    <3> DEFINE P == {k \in Nat : k + 2 <= n => tail[k + 2].header.height > H}
    <3>1. H \in Nat
      <4>1. tail[1] \in Announced /\ tail[1].header.height = H
        BY <2>5, <2>6, <2>7
      <4> QED
        BY <4>1, AnnouncedIs
    <3>2. \A i \in 1 .. n : tail[i].header.height \in Nat
      BY <2>6, AnnouncedIs
    <3>3. 0 \in P
      <4> SUFFICES ASSUME 2 <= n PROVE tail[2].header.height > H
        OBVIOUS
      <4>1. 2 \in 2 .. n /\ 2 - 1 = 1
        BY <2>5
      <4>2. tail[2].header.height = tail[1].header.height + 1
        BY <2>8, <4>1
      <4> QED
        BY <2>7, <3>1, <4>2
    <3>4. ASSUME NEW k \in Nat, k \in P PROVE k + 1 \in P
      <4> SUFFICES ASSUME (k + 1) + 2 <= n PROVE tail[(k + 1) + 2].header.height > H
        OBVIOUS
      <4> DEFINE m == k + 2
      <4>1. (k + 1) + 2 = m + 1 /\ m + 1 \in 2 .. n /\ (m + 1) - 1 = m /\ m \in 1 .. n
        BY <2>5
      <4>2. tail[m].header.height > H
        BY <2>5, <3>4, <4>1
      <4> HIDE DEF m
      <4>3. tail[m + 1].header.height = tail[m].header.height + 1
        BY <2>8, <4>1
      <4>4. tail[m].header.height \in Nat
        BY <3>2, <4>1
      <4>5. tail[m + 1].header.height > H
        BY <3>1, <4>2, <4>3, <4>4
      <4> QED
        BY <4>1, <4>5
    <3> HIDE DEF H
    <3>5. n - 2 \in P
      <4> HIDE DEF P
      <4>1. n - 2 \in Nat
        BY <2>5, <2>11
      <4> QED
        BY <3>3, <3>4, <4>1, NumberInduction
    <3>6. tail[n].header.height > H /\ n \in 1 .. n
      <4>1. (n - 2) + 2 = n /\ n <= n /\ n \in 1 .. n
        BY <2>5
      <4> QED
        BY <3>5, <4>1
    <3>7. ~(tail[n].header.height =< H)
      BY <3>1, <3>2, <3>6
    <3>8. tail[n].header \in Headers
      BY <2>6, <2>8, <3>6, <3>7, CertifiedIs DEF H
    <3> QED
      BY <2>2, <2>9, <3>8
  <2> QED
    BY <2>10, <2>11
<1> QED
  BY <1>6, <1>7

\* The keys of packets: bytes, one for each index.
LEMMA PacketKeyIs ==
  ASSUME NEW i \in Nat, i < Radix * Radix
  PROVE  packet_key(i) \in Bytes
<1>1. i \div Radix \in 0 .. Radix - 1 /\ i % Radix \in 0 .. Radix - 1
  BY RadixAssumption
<1>2. PICK q, r : q = i \div Radix /\ r = i % Radix
  OBVIOUS
<1>3. q \in Nibbles /\ r \in Nibbles /\ 0 \in Nibbles
  BY <1>1, <1>2, RadixAssumption DEF Nibbles
<1>4. <<0, 0>> \in Nibbles \X Nibbles /\ <<q, r>> \in Nibbles \X Nibbles
  BY <1>3
<1>5. <<<<0, 0>>, <<q, r>>>> \in Seq(Nibbles \X Nibbles)
  BY <1>4
<1> QED
  BY <1>2, <1>5 DEF packet_key, Bytes

\* Two packets never share a key.
LEMMA PacketKeyOne ==
  ASSUME NEW i \in Nat, NEW j \in Nat, packet_key(i) = packet_key(j)
  PROVE  i = j
<1>1. i \div Radix = j \div Radix /\ i % Radix = j % Radix
  <2>1. PICK q, r, u, w : q = i \div Radix /\ r = i % Radix /\ u = j \div Radix /\ w = j % Radix
    OBVIOUS
  <2>2. <<<<0, 0>>, <<q, r>>>> = <<<<0, 0>>, <<u, w>>>>
    BY <2>1 DEF packet_key
  <2>3. <<q, r>> = <<u, w>>
    BY <2>2
  <2>4. q = u /\ r = w
    BY <2>3
  <2> QED
    BY <2>1, <2>4
<1>2. i = Radix * (i \div Radix) + (i % Radix) /\ j = Radix * (j \div Radix) + (j % Radix)
  BY RadixAssumption
<1> QED
  BY <1>1, <1>2

\* What a trie of packets holds, and one key beyond.
PacketIndex(packets, k) == CHOOSE i \in 0 .. Len(packets) : packet_key(i) = k

\* The packets by key, with nothing under the key after the last.
PacketsByKey(packets) ==
    [k \in {packet_key(i) : i \in 0 .. Len(packets)} |->
        IF PacketIndex(packets, k) < Len(packets) THEN Some(packets[PacketIndex(packets, k) + 1]) ELSE Absent]

\* They are stored each under its own key.
LEMMA PacketsStored ==
  ASSUME NEW packets \in Packets
  PROVE  /\ Store(PacketsByKey(packets)) /\ Len(packets) \in Nat
         /\ \A i \in 0 .. Len(packets) : packet_key(i) \in DOMAIN PacketsByKey(packets)
         /\ \A i \in 0 .. Len(packets) :
              PacketsByKey(packets)[packet_key(i)] = IF i < Len(packets) THEN Some(packets[i + 1]) ELSE Absent
<1> DEFINE N == Len(packets)
<1> DEFINE K == {packet_key(i) : i \in 0 .. N}
<1> DEFINE f == PacketsByKey(packets)
<1>1. N \in Nat /\ N < Radix * Radix
  BY LightAssumption, LenIs
<1>2. f = [k \in K |-> IF PacketIndex(packets, k) < N THEN Some(packets[PacketIndex(packets, k) + 1]) ELSE Absent]
  BY DEF PacketsByKey
<1>3. \A i \in 0 .. N : i \in Nat /\ i < Radix * Radix
  BY <1>1, RadixAssumption
<1>4. ASSUME NEW i \in 0 .. N PROVE PacketIndex(packets, packet_key(i)) = i
  <2> DEFINE j == PacketIndex(packets, packet_key(i))
  <2>1. j \in 0 .. N /\ packet_key(j) = packet_key(i)
    BY DEF PacketIndex
  <2> HIDE DEF j
  <2>2. i \in Nat /\ j \in Nat
    BY <1>1, <2>1
  <2>3. i = j
    BY <2>1, <2>2, PacketKeyOne
  <2> QED
    BY <2>3 DEF j
<1>5. IsFiniteSet(K)
  <2> DEFINE g == [i \in 0 .. N |-> packet_key(i)]
  <2>1. IsFiniteSet(0 .. N)
    BY <1>1, FS_Interval
  <2>2. g \in Surjection(0 .. N, K)
    BY DEF Surjection
  <2> HIDE DEF g, K, N
  <2> QED
    BY <2>1, <2>2, FS_Surjection
<1>6. K \in SUBSET Bytes
  BY <1>3, PacketKeyIs
<1> HIDE DEF f
<1>7. \A i \in 0 .. N : packet_key(i) \in K /\ f[packet_key(i)] = IF i < N THEN Some(packets[i + 1]) ELSE Absent
  BY <1>2, <1>4
<1>8. \A k \in K : f[k] = Absent \/ \E v : f[k] = Some(v)
  BY <1>2
<1>9. DOMAIN f = K
  BY <1>2
<1> HIDE DEF K
<1>10. f = [k \in DOMAIN f |-> f[k]]
  BY <1>2
<1>11. Store(f)
  BY <1>5, <1>6, <1>8, <1>9, <1>10 DEF Store
<1> QED
  BY <1>1, <1>7, <1>9, <1>11 DEF f

\* A packet that verifies is the one committed to at its index.
LEMMA PacketsSeen ==
  ASSUME NEW packets \in Packets, NEW header, NEW qc,
         NEW commit \in Range(commitment(header, qc, packets)), NEW i \in 0 .. Len(packets)
  PROVE  {p \in Range(packets) : verify_packet(commit, i, prove(commit.mpt_root, packet_key(i)), p)} =
            {packets[j] : j \in {i + 1} \cap (1 .. Len(packets))}
<1> DEFINE N == Len(packets)
<1> DEFINE entries == [k \in 1 .. N |-> <<packet_key(k - 1), packets[k]>>]
<1> DEFINE f == PacketsByKey(packets)
<1> DEFINE key == packet_key(i)
<1> DEFINE proof == prove(commit.mpt_root, key)
<1>1. /\ Store(f) /\ N \in Nat /\ \A k \in 0 .. N : packet_key(k) \in DOMAIN f
      /\ \A k \in 0 .. N : f[packet_key(k)] = IF k < N THEN Some(packets[k + 1]) ELSE Absent
  BY PacketsStored
<1>2. DOMAIN f = {packet_key(k) : k \in 0 .. N}
  BY DEF PacketsByKey
<1>3. commit.mpt_root = PutAll(EmptyRoot, entries)
  <2> DEFINE r == [header_hash |-> header, height |-> header.height, merkle_root |-> compute_root(packets),
                   mpt_root |-> PutAll(EmptyRoot, entries)]
  <2>1. commitment(header, qc, packets) = IF verify_qc(header, qc) THEN Some(r) ELSE Absent
    BY DEF commitment
  <2>2. r.mpt_root = PutAll(EmptyRoot, entries)
    OBVIOUS
  <2> HIDE DEF r, entries
  <2>3. commit = r
    BY <2>1 DEF Range, Some, Absent
  <2> QED
    BY <2>2, <2>3
<1>4. Len(entries) = N
  BY <1>1
<1>5. ASSUME NEW k \in 1 .. N
      PROVE  entries[k][1] \in DOMAIN f /\ f[entries[k][1]] = Some(entries[k][2])
  <2>1. k - 1 \in 0 .. N /\ k - 1 < N /\ (k - 1) + 1 = k
    BY <1>1
  <2>2. entries[k][1] = packet_key(k - 1) /\ entries[k][2] = packets[k]
    OBVIOUS
  <2> HIDE DEF entries, f
  <2> QED
    BY <1>1, <2>1, <2>2
<1>6. ASSUME NEW k \in DOMAIN f, f[k] # Absent
      PROVE  \E j \in 1 .. N : entries[j][1] = k
  <2>1. PICK j \in 0 .. N : k = packet_key(j)
    BY <1>2
  <2>2. j < N
    BY <1>1, <1>6, <2>1
  <2>3. j + 1 \in 1 .. N /\ (j + 1) - 1 = j
    BY <1>1, <2>2
  <2>4. entries[j + 1][1] = k
    BY <2>1, <2>3
  <2> QED
    BY <2>3, <2>4
<1> HIDE DEF entries, f
<1>7. commit.mpt_root = RootOf(f)
  BY <1>1, <1>3, <1>4, <1>5, <1>6, PutsRoot
<1>8. verify(key, proof, commit.mpt_root) /\ proof.value = f[key]
  BY <1>1, <1>7, ProofVerifies
<1> HIDE DEF proof, key
<1>9. \A p : verify_packet(commit, i, proof, p) <=> f[key] = Some(p)
  BY <1>8 DEF verify_packet, key
<1>10. f[key] = IF i < N THEN Some(packets[i + 1]) ELSE Absent
  BY <1>1 DEF key
<1>11. IsSeq(packets) /\ DOMAIN packets = 1 .. N
  BY LightAssumption, LenIs
<1>12. {p \in Range(packets) : f[key] = Some(p)} = {packets[j] : j \in {i + 1} \cap (1 .. N)}
  <2>1. CASE i < N
    <3>1. i + 1 \in 1 .. N
      BY <1>1, <2>1
    <3>2. {i + 1} \cap (1 .. N) = {i + 1}
      BY <3>1
    <3>3. packets[i + 1] \in Range(packets)
      BY <1>11, <3>1 DEF Range
    <3>4. \A p : f[key] = Some(p) <=> p = packets[i + 1]
      BY <1>10, <2>1 DEF Some
    <3> HIDE DEF N
    <3> QED
      BY <3>2, <3>3, <3>4
  <2>2. CASE ~(i < N)
    <3>1. {i + 1} \cap (1 .. N) = {}
      BY <1>1, <2>2
    <3>2. f[key] = Absent
      BY <1>10, <2>2
    <3>3. \A p : f[key] # Some(p)
      BY <3>2 DEF Some, Absent
    <3> HIDE DEF N
    <3> QED
      BY <3>1, <3>3
  <2> QED
    BY <2>1, <2>2
<1> QED
  BY <1>9, <1>12 DEF proof, key

\* A light client learns only what committed headers say, whoever answers it, as long
\* as the certificates state no more power than their signers have.
THEOREM LightSeesCommitted == LightSpec => []LightSees
<1>1. LightInv => LightSees
  <2> SUFFICES ASSUME LightInv, chain # <<>> PROVE LightSees
    BY DEF LightSees
  <2>1. ChainInv /\ IsSeq(chain) /\ Len(chain) \in Nat /\ \A i \in 1 .. Len(chain) : Committed(chain[i], i)
    BY LenIs DEF LightInv, ChainInv
  <2> DEFINE Announcements == {a \in Announced : ~Overstates(a.qc)}
  <2>2. ASSUME NEW n \in 1 .. 2, NEW s \in [1 .. n -> Announcements], NEW c \in Range(CheckpointOf(LastCheckpoint))
        PROVE  Range(sync_checkpoints(c, s)) \subseteq Headers
    <3>1. n \in Nat
      OBVIOUS
    <3>2. IsSeq(s) /\ Len(s) = n
      BY <3>1, MadeSeq
    <3>3. \A i \in 1 .. Len(s) : s[i] \in Announced /\ ~Overstates(s[i].qc)
      BY <3>2
    <3> QED
      BY <2>1, <3>2, <3>3, SyncReaches
  <2> DEFINE Certified == {<<chain[i], aggregate(chain[i].header)>> : i \in 1 .. Len(chain)}
  <2>5. ASSUME NEW s \in ShownTries
        PROVE  Offers(s[1], Addresses, AccountValues, LAMBDA p :
                 \A c \in Certified, t \in ShownTries, a \in Addresses :
                    LET resp == [accountRoot |-> s[1], storageRoot |-> t[2], proof |-> p]
                        seen == verify_account(c[1].header, c[2], resp, a)
                    IN  seen # Absent => seen = c[1].live[a])
    <3> SUFFICES ASSUME NEW j \in Addresses, NEW n \in 1 .. Len(ChainOf(s[1], bytes_to_nibbles(j))), NEW v,
                        NEW c \in Certified, NEW t \in ShownTries, NEW a \in Addresses, NEW resp,
                        resp = [accountRoot |-> s[1], storageRoot |-> t[2],
                                proof |-> Bound(SubSeq(ChainOf(s[1], bytes_to_nibbles(j)), 1, n), v)],
                        verify_account(c[1].header, c[2], resp, a) # Absent
                 PROVE  verify_account(c[1].header, c[2], resp, a) = c[1].live[a]
      BY DEF Offers
    <3>1. PICK i \in 1 .. Len(chain) : c = <<chain[i], aggregate(chain[i].header)>>
      OBVIOUS
    <3>2. Committed(c[1], i)
      BY <2>1, <3>1
    <3>3. PICK p : p = Bound(SubSeq(ChainOf(s[1], bytes_to_nibbles(j)), 1, n), v)
      OBVIOUS
    <3>4. IsSeq(p.nodes)
      <4>1. j \in Bytes
        BY LightAssumption
      <4> QED
        BY <3>3, <4>1, CutChain
    <3>5. PICK x, qc, root, other : x = c[1] /\ qc = c[2] /\ root = s[1] /\ other = t[2]
      OBVIOUS
    <3>6. Committed(x, i) /\ Response(resp, root, other, p)
      BY <3>2, <3>3, <3>5 DEF Response
    <3> HIDE DEF Certified
    <3>7. SeenTrue(x, qc, resp, a)
      BY <3>4, <3>6, AccountSeen, Zenon
    <3> QED
      BY <3>5, <3>7 DEF SeenTrue
  <2>6. ASSUME NEW packets \in Packets,
               NEW commit \in Range(commitment(chain[1].header, aggregate(chain[1].header), packets)),
               NEW i \in 0 .. Len(packets)
        PROVE  {p \in Range(packets) : verify_packet(commit, i, prove(commit.mpt_root, packet_key(i)), p)} =
                  {packets[j] : j \in {i + 1} \cap (1 .. Len(packets))}
    BY PacketsSeen
  <2> QED
    BY <2>2, <2>5, <2>6 DEF LightSees
<1> QED
  BY <1>1, LightInvariant, PTL
=============================================================================
