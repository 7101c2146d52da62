----------------------------- MODULE LiveProofs -----------------------------
(***************************************************************************)
(* Proofs about Live for every set of validators, every voting power and   *)
(* any number of heights, faulty validators, restarts, lost messages and   *)
(* votes and proposals that nobody signed.                                 *)
(***************************************************************************)
EXTENDS Live, ConsensusProofs

\* If the vote is signed by a validator, that validator has published it or is
\* publishing it, or is faulty.  Votes that nobody signed may be there too.
Sent(V, v) == v.signed /\ v.signer \in Validators => v \in V \/ v.signer \in Faulty

Authentic(V, s, v) == Sent(V \cup s.replay, v)

\* What a process knows, V being the votes published so far.
ProcessInv(n, s, V) ==
    /\ s \in Process
    /\ s.pending # None => s.pending.height = s.height
    /\ \A v \in s.precommits :
           v.kind = "precommit" /\ v.height = s.height /\ Authentic(V, s, v)
    /\ \A v \in s.replay : v.signer = n /\ v.signed
    /\ \A v, w \in s.replay : SameKey(v, w) => v.block = w.block

\* A later state t of the iteration keeps what identifies the height.
SameHeight(s, t) ==
    /\ t.height = s.height
    /\ t.last_hash = s.last_hash
    /\ t.commits = s.commits
    /\ s.replay \subseteq t.replay

----------------------------------------------------------------------------
(* The handlers.                                                           *)

\* A transaction only marks the mempool.
LEMMA HandleTxInv ==
  ASSUME NEW n, NEW V, NEW s, ProcessInv(n, s, V)
  PROVE  ProcessInv(n, handle_tx(s), V) /\ SameHeight(s, handle_tx(s))
         /\ handle_tx(s).replay = s.replay
  BY DEF ProcessInv, handle_tx, Process, Authentic, Sent, SameHeight

\* A received vote goes to one vector; those that are signed there were sent.
LEMMA HandleVoteInv ==
  ASSUME NEW n, NEW V, NEW s, ProcessInv(n, s, V),
         NEW v \in Vote, Sent(V, v)
  PROVE  ProcessInv(n, handle_vote(s, v), V) /\ SameHeight(s, handle_vote(s, v))
         /\ handle_vote(s, v).replay = s.replay
<1> USE DEF ProcessInv, Process, Authentic, Sent, SameHeight
<1>1. CASE v.height # s.height \/ v.round # s.round
  BY <1>1 DEF handle_vote
<1>2. CASE v.height = s.height /\ v.round = s.round /\ v.kind = "prevote"
  <2>1. handle_vote(s, v) = [s EXCEPT !.prevotes = insert_vote_sorted(@, v)]
    BY <1>2 DEF handle_vote
  <2>2. insert_vote_sorted(s.prevotes, v) \in SUBSET Vote
        /\ \A w \in insert_vote_sorted(s.prevotes, v) : w \in s.prevotes \/ w = v
    BY DEF insert_vote_sorted
  <2> QED
    BY <1>2, <2>1, <2>2
<1>3. CASE v.height = s.height /\ v.round = s.round /\ v.kind # "prevote"
  <2>1. handle_vote(s, v) = [s EXCEPT !.precommits = insert_vote_sorted(@, v)]
    BY <1>3 DEF handle_vote
  <2>2. insert_vote_sorted(s.precommits, v) \in SUBSET Vote
        /\ \A w \in insert_vote_sorted(s.precommits, v) : w \in s.precommits \/ w = v
    BY DEF insert_vote_sorted
  <2>3. v.kind = "precommit"
    BY <1>3 DEF Vote
  <2> QED
    BY <1>3, <2>1, <2>2, <2>3
<1> QED
  BY <1>1, <1>2, <1>3

\* Taking on a proposal empties the vectors and leaves the vote log alone.
LEMMA AdoptInv ==
  ASSUME NEW n, NEW V, NEW s, ProcessInv(n, s, V),
         NEW p \in Proposal, p.height = s.height
  PROVE  /\ ProcessInv(n, adopt(s, p), V) /\ SameHeight(s, adopt(s, p))
         /\ adopt(s, p).replay = s.replay
  BY DEF ProcessInv, Process, Authentic, Sent, SameHeight, adopt

\* A received proposal is taken on or ignored.
LEMMA HandleProposalInv ==
  ASSUME NEW n, NEW V, NEW s, ProcessInv(n, s, V), NEW p \in Proposal
  PROVE  ProcessInv(n, handle_proposal(s, p), V) /\ SameHeight(s, handle_proposal(s, p))
         /\ handle_proposal(s, p).replay = s.replay
<1>1. CASE p.height = s.height
  BY <1>1, AdoptInv DEF handle_proposal, SameHeight
<1>2. CASE p.height # s.height
  BY <1>2 DEF handle_proposal, SameHeight
<1> QED
  BY <1>1, <1>2

----------------------------------------------------------------------------
(* The stages of tick.                                                     *)

\* The proposing stage leaves a good state and the vote log alone.
LEMMA ProposeInv ==
  ASSUME NEW n \in Validators, NEW V, NEW s, ProcessInv(n, s, V), NEW t \in wire_propose(n, s)
  PROVE  ProcessInv(n, t, V) /\ SameHeight(s, t) /\ t.replay = s.replay
<1>1. CASE t = s
  BY <1>1 DEF SameHeight
<1>2. CASE t # s
  <2>1. PICK stamp \in Stamps :
            /\ CanPropose(n, s)
            /\ t = [adopt(s, BuiltProposal(n, s, stamp)) EXCEPT !.pool = FALSE]
    BY <1>2 DEF wire_propose
  <2> DEFINE p == BuiltProposal(n, s, stamp)
  <2>2. p \in Proposal /\ p.height = s.height
    BY <2>1, LiveAssumption DEF ProcessInv, Process, BuiltProposal, Proposal, Block, Heights, CanPropose, Ids
  <2>3. ProcessInv(n, adopt(s, p), V) /\ SameHeight(s, adopt(s, p)) /\ adopt(s, p).replay = s.replay
    BY <2>2, AdoptInv
  <2> HIDE DEF p
  <2> QED
    BY <2>1, <2>3 DEF ProcessInv, Process, Authentic, Sent, SameHeight, p
<1> QED
  BY <1>1, <1>2

\* What a process signs while a proposal is pending is a vote.
LEMMA VoteOfType ==
  ASSUME NEW n \in Validators, NEW V, NEW s, ProcessInv(n, s, V), s.pending # None,
         NEW kind \in {"prevote", "precommit"}, NEW b \in Block \cup {Nil}
  PROVE  /\ VoteOf(n, s, kind, b) \in Vote
         /\ s.pending \in Proposal /\ s.pending.header \in Block
         /\ s.height \in Heights
  BY DEF ProcessInv, Process, Proposal, VoteOf, Vote, Ids

\* Signing a vote that does not equivocate keeps the log consistent and puts the
\* vote in it.
LEMMA SignInv ==
  ASSUME NEW n, NEW V, NEW s, ProcessInv(n, s, V),
         NEW v \in Vote, v.signer = n, v.signed, ~Equivocates(s.replay, v)
  PROVE  /\ observe(s.replay, v) = s.replay \cup {v}
         /\ \A w \in observe(s.replay, v) : w.signer = n /\ w.signed
         /\ \A x, y \in observe(s.replay, v) : SameKey(x, y) => x.block = y.block
<1>1. s.replay \in SUBSET Vote
  BY DEF ProcessInv, Process
<1>2. /\ \A w \in s.replay : w.signer = n /\ w.signed
      /\ \A x, y \in s.replay : SameKey(x, y) => x.block = y.block
  BY DEF ProcessInv
<1>3. CASE \E w \in s.replay : SameKey(v, w)
  <2>1. PICK w \in s.replay : SameKey(v, w)
    BY <1>3
  <2>2. w = v
    BY <1>1, <1>2, <2>1 DEF Equivocates, SameKey, Vote
  <2> QED
    BY <1>2, <1>3, <2>1, <2>2 DEF observe
<1>4. CASE ~\E w \in s.replay : SameKey(v, w)
  BY <1>2, <1>4 DEF observe, SameKey
<1> QED
  BY <1>3, <1>4

\* The prevoting stage adds at most the process's own prevote, which the log allows.
LEMMA VoteInv ==
  ASSUME NEW n \in Validators, NEW V, NEW s, ProcessInv(n, s, V)
  PROVE  ProcessInv(n, wire_vote(n, s), V) /\ SameHeight(s, wire_vote(n, s))
<1> DEFINE t == wire_vote(n, s)
<1> DEFINE v == VoteOf(n, s, "prevote", s.pending.header)
<1>1. CASE t = s
  BY <1>1 DEF SameHeight
<1>2. CASE t # s
  <2>1. /\ s.pending # None
        /\ ~Equivocates(s.replay, v)
        /\ t = [s EXCEPT !.prevotes = insert_vote_sorted(@, v),
                         !.replay = observe(@, v)]
    BY <1>2 DEF wire_vote
  <2>2. v \in Vote
    BY <2>1, VoteOfType
  <2>3. v.signer = n /\ v.signed
    BY DEF VoteOf
  <2> HIDE DEF v, t
  <2>4. /\ observe(s.replay, v) = s.replay \cup {v}
        /\ \A w \in observe(s.replay, v) : w.signer = n /\ w.signed
        /\ \A x, y \in observe(s.replay, v) : SameKey(x, y) => x.block = y.block
    BY <2>1, <2>2, <2>3, SignInv
  <2>5. insert_vote_sorted(s.prevotes, v) \in SUBSET Vote
    BY <2>2 DEF insert_vote_sorted, ProcessInv, Process
  <2>6. /\ t \in Process /\ SameHeight(s, t) /\ t.pending = s.pending
        /\ t.replay = s.replay \cup {v} /\ t.precommits = s.precommits
        /\ t.prevotes = insert_vote_sorted(s.prevotes, v)
    BY <2>1, <2>2, <2>4, <2>5 DEF ProcessInv, Process, SameHeight
  <2>7. ProcessInv(n, t, V)
    BY <2>3, <2>4, <2>5, <2>6 DEF ProcessInv, Authentic, Sent, SameHeight
  <2> QED
    BY <2>6, <2>7 DEF t
<1> QED
  BY <1>1, <1>2

\* A process that sees a polka on a block in a vector of signed votes sees what a
\* quorum of validators has published.
LEMMA PolkaJustified ==
  ASSUME NEW W, NEW U \in SUBSET Vote, NEW kind, NEW h, NEW b, polka(U, b),
         \A v \in U : v.kind = kind /\ v.height = h /\ v.signed /\ Sent(W, v)
  PROVE  QuorumBehind(W, kind, h, b)
<1> DEFINE S == Signers(U, b) \cap Validators
<1> DEFINE T == VotedOrFaulty(W, kind, h, b)
<1>1. S \subseteq T
  BY DEF Signers, VotedOrFaulty, Sent
<1>2. T \in SUBSET Validators
  BY LiveAssumption DEF VotedOrFaulty
<1>3. 3 * PowerOf(S) > 2 * PowerOf(Validators)
  BY PolkaIsQuorum
<1>4. PowerOf(S) \in Nat /\ PowerOf(T) \in Nat /\ PowerOf(S) <= PowerOf(T)
  BY <1>1, <1>2, PowerMonotone
<1>5. PowerOf(Validators) \in Nat
  BY PowerAdditive
<1>6. 3 * PowerOf(T) > 2 * PowerOf(Validators)
  <2> HIDE DEF S, T
  <2> QED
    BY <1>3, <1>4, <1>5
<1> QED
  BY <1>6 DEF QuorumBehind

\* More published votes never take a quorum away.
LEMMA QuorumBehindMonotone ==
  ASSUME NEW V, NEW W, V \subseteq W, NEW kind, NEW h, NEW b, QuorumBehind(V, kind, h, b)
  PROVE  QuorumBehind(W, kind, h, b)
<1> DEFINE S == VotedOrFaulty(V, kind, h, b)
<1> DEFINE T == VotedOrFaulty(W, kind, h, b)
<1>1. S \subseteq T /\ T \in SUBSET Validators
  BY LiveAssumption DEF VotedOrFaulty
<1>2. PowerOf(S) \in Nat /\ PowerOf(T) \in Nat /\ PowerOf(S) <= PowerOf(T)
         /\ PowerOf(Validators) \in Nat
  BY <1>1, PowerMonotone, PowerAdditive
<1>3. 3 * PowerOf(S) > 2 * PowerOf(Validators)
  BY DEF QuorumBehind
<1>4. 3 * PowerOf(T) > 2 * PowerOf(Validators)
  <2> HIDE DEF S, T
  <2> QED
    BY <1>2, <1>3
<1> QED
  BY <1>4 DEF QuorumBehind

\* The precommitting stage adds at most the process's own precommit, which the log
\* allows.
LEMMA PrecommitInv ==
  ASSUME NEW n \in Validators, NEW V, NEW s, ProcessInv(n, s, V)
  PROVE  ProcessInv(n, wire_precommit(n, s), V) /\ SameHeight(s, wire_precommit(n, s))
<1> DEFINE t == wire_precommit(n, s)
<1> DEFINE v == VoteOf(n, s, "precommit", precommit_block(s))
<1>1. CASE t = s
  BY <1>1 DEF SameHeight
<1>2. CASE t # s
  <2>1. /\ s.pending # None
        /\ ~Equivocates(s.replay, v)
        /\ t = [s EXCEPT !.precommits = insert_vote_sorted(@, v),
                         !.replay = observe(@, v)]
    BY <1>2 DEF wire_precommit
  <2>2. precommit_block(s) \in Block \cup {Nil}
    BY <2>1, VoteOfType DEF precommit_block
  <2>3. v \in Vote
    BY <2>1, <2>2, VoteOfType
  <2>4. v.signer = n /\ v.signed /\ v.kind = "precommit" /\ v.height = s.height
    BY DEF VoteOf
  <2> HIDE DEF v, t
  <2>5. /\ observe(s.replay, v) = s.replay \cup {v}
        /\ \A w \in observe(s.replay, v) : w.signer = n /\ w.signed
        /\ \A x, y \in observe(s.replay, v) : SameKey(x, y) => x.block = y.block
    BY <2>1, <2>3, <2>4, SignInv
  <2>6. /\ insert_vote_sorted(s.precommits, v) \in SUBSET Vote
        /\ \A w \in insert_vote_sorted(s.precommits, v) : w \in s.precommits \/ w = v
    BY <2>3 DEF insert_vote_sorted, ProcessInv, Process
  <2>7. ProcessInv(n, t, V) /\ SameHeight(s, t) /\ t.replay = s.replay \cup {v}
    <3>1. /\ t \in Process /\ SameHeight(s, t) /\ t.pending = s.pending
          /\ t.replay = s.replay \cup {v} /\ t.prevotes = s.prevotes
          /\ t.precommits = insert_vote_sorted(s.precommits, v)
      BY <2>1, <2>3, <2>5, <2>6 DEF ProcessInv, Process, SameHeight
    <3>2. ProcessInv(n, t, V)
      BY <2>4, <2>5, <2>6, <3>1 DEF ProcessInv, Authentic, Sent, SameHeight
    <3> QED
      BY <3>1, <3>2
  <2> QED
    BY <2>7 DEF t
<1> QED
  BY <1>1, <1>2

\* A state of n in which `tick` comes to the commit.
LEMMA VotedInv ==
  ASSUME NEW n \in Validators, NEW V, NEW s, ProcessInv(n, s, V), NEW t \in Voted(n, s)
  PROVE  ProcessInv(n, t, V) /\ SameHeight(s, t)
<1>1. PICK q \in wire_propose(n, s) : t = wire_precommit(n, wire_vote(n, q))
  BY DEF Voted
<1>2. ProcessInv(n, q, V) /\ SameHeight(s, q) /\ q.replay = s.replay
  BY ProposeInv
<1> DEFINE r == wire_vote(n, q)
<1>3. ProcessInv(n, r, V) /\ SameHeight(q, r)
  BY <1>2, VoteInv
<1> HIDE DEF r
<1>4. ProcessInv(n, t, V) /\ SameHeight(r, t)
  BY <1>1, <1>3, PrecommitInv DEF r
<1> QED
  BY <1>2, <1>3, <1>4 DEF SameHeight

\* The commit stage leaves a good state and advances the tip by at most one height.
LEMMA CommitInv ==
  ASSUME NEW n, NEW V, NEW t, ProcessInv(n, t, V)
  PROVE  LET c == wire_commit(t)
             W == V \cup t.replay
         IN  /\ ProcessInv(n, c, W)
             /\ c.replay = t.replay
             /\ ~Commits(t) => c = t
             /\ Commits(t) => /\ t.height \in Heights
                              /\ t.pending.header \in Block
                              /\ QuorumBehind(W, "precommit", t.height, t.pending.header)
                              /\ c.height = t.height + 1
                              /\ c.last_hash = t.pending.header
<1> DEFINE c == wire_commit(t)
<1> DEFINE W == V \cup t.replay
<1>1. CASE ~Commits(t)
  <2>1. c = t
    BY <1>1 DEF wire_commit
  <2> QED
    BY <1>1, <2>1 DEF ProcessInv, Authentic, Sent
<1>2. CASE Commits(t)
  <2>1. c = [t EXCEPT !.commits[t.height] = t.pending.header,
                      !.last_hash = t.pending.header,
                      !.height = t.height + 1, !.round = RoundZero,
                      !.pending = None, !.prevotes = {}, !.precommits = {}]
    BY <1>2 DEF wire_commit
  <2>2. /\ t.pending # None /\ polka(t.precommits, t.pending.header)
        /\ \A v \in t.precommits : v.signed
    BY <1>2 DEF Commits, commit_ok
  <2>3. /\ t \in Process /\ t.pending \in Proposal /\ t.pending.header \in Block
        /\ t.height \in Heights /\ t.precommits \in SUBSET Vote
    BY <2>2 DEF ProcessInv, Process, Proposal
  <2>4. QuorumBehind(W, "precommit", t.height, t.pending.header)
    BY <2>2, <2>3, PolkaJustified DEF ProcessInv, Authentic
  <2>5. t.height + 1 \in 0 .. MaxHeight
    BY <2>3, LiveAssumption DEF Heights
  <2>6. [t.commits EXCEPT ![t.height] = t.pending.header] \in [Heights -> Block \cup {None}]
    BY <2>3 DEF Process
  <2>7. /\ c \in Process /\ c.replay = t.replay /\ c.pending = None
        /\ c.prevotes = {} /\ c.precommits = {}
        /\ c.height = t.height + 1 /\ c.last_hash = t.pending.header
    BY <2>1, <2>3, <2>5, <2>6 DEF Process
  <2> HIDE DEF c
  <2>8. ProcessInv(n, c, W)
    BY <2>7 DEF ProcessInv
  <2> QED
    BY <1>2, <2>3, <2>4, <2>7, <2>8 DEF c
<1> QED
  BY <1>1, <1>2

----------------------------------------------------------------------------
(* The inductive invariant.                                                *)

\* The log of a process that never restarts holds all the votes of its validator.
PublishedInv ==
    /\ \A v \in votes : v.signer \in Running
    /\ \A n \in Running : live[n].replay \subseteq votes
    /\ \A n \in Running \ MayRestart : \A v \in votes : v.signer = n => v \in live[n].replay

DecidedAt(D, k) == \E d \in D : d.height = k

\* A process builds on a decided block, and on decided heights only.
AtTip(s, D) ==
    /\ s.height = 0 => s.last_hash = Genesis
    /\ s.height > 0 => [height |-> s.height - 1, block |-> s.last_hash] \in D
    /\ \A k \in Heights : k < s.height => DecidedAt(D, k)

ChainInv ==
    /\ \A n \in Running : AtTip(live[n], decided)
    /\ \A d \in decided : \A k \in Heights : k < d.height => DecidedAt(decided, k)

Inv ==
    /\ TypeOK
    /\ \A n \in Running : ProcessInv(n, live[n], votes)
    /\ PublishedInv
    /\ CommitJustified
    /\ ChainInv

\* A process that has just started is in a good state.
LEMMA FreshInv ==
  ASSUME NEW n, NEW V, NEW D
  PROVE  ProcessInv(n, Fresh, V) /\ Fresh.replay = {} /\ AtTip(Fresh, D)
<1>1. /\ Fresh \in Process
      /\ Fresh.pending = None /\ Fresh.prevotes = {} /\ Fresh.precommits = {}
      /\ Fresh.replay = {} /\ Fresh.height = 0 /\ Fresh.last_hash = Genesis
  BY LiveAssumption DEF Fresh, Process
<1>2. ProcessInv(n, Fresh, V)
  BY <1>1 DEF ProcessInv
<1>3. AtTip(Fresh, D)
  BY <1>1 DEF AtTip, Heights
<1> QED
  BY <1>1, <1>2, <1>3

\* The invariant holds before anything has happened.
LEMMA InvInit == Init => Inv
<1> SUFFICES ASSUME Init PROVE Inv
  OBVIOUS
<1> USE DEF Init
<1>1. TypeOK
  BY FreshInv DEF TypeOK, ProcessInv
<1>2. \A n \in Running : ProcessInv(n, live[n], votes)
  BY FreshInv
<1>3. PublishedInv
  BY FreshInv DEF PublishedInv
<1>4. CommitJustified
  BY DEF CommitJustified
<1>5. ChainInv
  BY FreshInv DEF ChainInv
<1> QED
  BY <1>1, <1>2, <1>3, <1>4, <1>5 DEF Inv

\* ProcessInv only gets easier when more votes are published.
LEMMA ProcessInvMonotone ==
  ASSUME NEW n, NEW s, NEW V, NEW W, V \subseteq W, ProcessInv(n, s, V)
  PROVE  ProcessInv(n, s, W)
  BY DEF ProcessInv, Authentic, Sent

\* An iteration whose message handling ended in a good state keeps the invariant.
LEMMA IterateInv ==
  ASSUME Inv, NEW n \in Running, NEW s, ProcessInv(n, s, votes),
         SameHeight(live[n], s), s.replay = live[n].replay, Iterate(n, s)
  PROVE  Inv'
<1>0. n \in Validators /\ Running \subseteq Validators
  BY DEF Running
<1>1. PICK t \in Voted(n, s) :
        /\ live' = [live EXCEPT ![n] = wire_commit(t)]
        /\ proposals' = proposals \cup ({t.pending} \ {None})
        /\ votes' = votes \cup t.replay
        /\ decided' = decided \cup
               IF Commits(t) THEN {[height |-> t.height, block |-> t.pending.header]}
                             ELSE {}
  BY DEF Iterate
<1> DEFINE c == wire_commit(t)
<1>2. ProcessInv(n, t, votes) /\ SameHeight(s, t)
  BY <1>0, <1>1, VotedInv
<1>3. /\ ProcessInv(n, c, votes')
      /\ c.replay = t.replay
      /\ ~Commits(t) => c = t
      /\ Commits(t) => /\ t.height \in Heights
                       /\ t.pending.header \in Block
                       /\ QuorumBehind(votes', "precommit", t.height, t.pending.header)
                       /\ c.height = t.height + 1
                       /\ c.last_hash = t.pending.header
  BY <1>1, <1>2, CommitInv
<1>4. /\ live \in [Running -> Process] /\ live' = [live EXCEPT ![n] = c]
      /\ live'[n] = c /\ \A m \in Running : m # n => live'[m] = live[m]
  BY <1>1 DEF Inv, TypeOK
<1> HIDE DEF c
<1>5. votes \subseteq votes' /\ decided \subseteq decided'
  BY <1>1
<1>6. \A v \in votes' : v \in votes \/ (v \in t.replay /\ v.signer = n)
  BY <1>1, <1>2 DEF ProcessInv
<1>7. TypeOK'
  <2>1. c \in Process /\ t \in Process
    BY <1>2, <1>3 DEF ProcessInv
  <2>2. live' \in [Running -> Process]
    BY <1>4, <2>1
  <2>3. proposals' \subseteq Proposal
    BY <1>1, <2>1 DEF Inv, TypeOK, Process
  <2>4. votes' \subseteq Vote
    BY <1>1, <2>1 DEF Inv, TypeOK, Process
  <2>5. decided' \subseteq [height : Heights, block : Block]
    BY <1>1, <1>3 DEF Inv, TypeOK
  <2> QED
    BY <2>2, <2>3, <2>4, <2>5 DEF TypeOK, Running, Process, Proposal, Vote, Ids, Block, Heights
<1>8. ASSUME NEW m \in Running PROVE ProcessInv(m, live'[m], votes')
  <2>1. CASE m = n
    BY <2>1, <1>3, <1>4
  <2>2. CASE m # n
    BY <2>2, <1>4, <1>5, ProcessInvMonotone DEF Inv
  <2> QED
    BY <2>1, <2>2
<1>9. PublishedInv'
  <2>1. \A v \in votes' : v.signer \in Running
    BY <1>6 DEF Inv, PublishedInv
  <2>2. ASSUME NEW m \in Running PROVE live'[m].replay \subseteq votes'
    <3>1. CASE m = n
      BY <3>1, <1>1, <1>3, <1>4
    <3>2. CASE m # n
      BY <3>2, <1>4, <1>5 DEF Inv, PublishedInv
    <3> QED
      BY <3>1, <3>2
  <2>3. ASSUME NEW m \in Running \ MayRestart, NEW v \in votes', v.signer = m
        PROVE  v \in live'[m].replay
    <3>1. CASE m = n
      BY <3>1, <2>3, <1>2, <1>3, <1>4, <1>6 DEF Inv, PublishedInv, SameHeight
    <3>2. CASE m # n
      BY <3>2, <2>3, <1>4, <1>6 DEF Inv, PublishedInv
    <3> QED
      BY <3>1, <3>2
  <2> QED
    BY <2>1, <2>2, <2>3 DEF PublishedInv, Running
<1>10. CommitJustified'
  <2>1. ASSUME NEW d \in decided'
        PROVE  QuorumBehind(votes', "precommit", d.height, d.block)
    <3>1. CASE d \in decided
      BY <3>1, <1>5, QuorumBehindMonotone DEF Inv, CommitJustified
    <3>2. CASE d \notin decided
      <4>1. Commits(t) /\ d = [height |-> t.height, block |-> t.pending.header]
        BY <3>2, <1>1
      <4> QED
        BY <4>1, <1>3
    <3> QED
      BY <3>1, <3>2
  <2> QED
    BY <2>1 DEF CommitJustified, QuorumBehind, VotedOrFaulty
<1>11. ChainInv'
  <2>1. AtTip(t, decided)
    BY <1>2 DEF Inv, ChainInv, AtTip, SameHeight
  <2>2. AtTip(c, decided')
    <3>1. CASE ~Commits(t)
      BY <3>1, <2>1, <1>3, <1>5 DEF AtTip, DecidedAt
    <3>2. CASE Commits(t)
      <4>1. [height |-> t.height, block |-> t.pending.header] \in decided'
        BY <3>2, <1>1
      <4>2. t.height \in Nat /\ c.height = t.height + 1 /\ c.last_hash = t.pending.header
        BY <3>2, <1>3 DEF Heights
      <4>3. c.height # 0 /\ c.height - 1 = t.height
        BY <4>2
      <4>4. ASSUME NEW k \in Heights, k < c.height PROVE DecidedAt(decided', k)
        <5>1. k = t.height \/ k < t.height
          BY <4>2, <4>4 DEF Heights
        <5> QED
          BY <5>1, <4>1, <2>1, <1>5 DEF AtTip, DecidedAt
      <4> QED
        BY <4>1, <4>2, <4>3, <4>4 DEF AtTip
    <3> QED
      BY <3>1, <3>2
  <2>3. ASSUME NEW m \in Running PROVE AtTip(live'[m], decided')
    <3>1. CASE m = n
      BY <3>1, <2>2, <1>4
    <3>2. CASE m # n
      BY <3>2, <1>4, <1>5 DEF Inv, ChainInv, AtTip, DecidedAt
    <3> QED
      BY <3>1, <3>2
  <2>4. ASSUME NEW d \in decided', NEW k \in Heights, k < d.height
        PROVE  DecidedAt(decided', k)
    <3>1. CASE d \in decided
      BY <3>1, <2>4, <1>5 DEF Inv, ChainInv, DecidedAt
    <3>2. CASE d \notin decided
      <4>1. d.height = t.height
        BY <3>2, <1>1
      <4> QED
        BY <4>1, <2>1, <2>4, <1>5 DEF AtTip, DecidedAt
    <3> QED
      BY <3>1, <3>2
  <2> QED
    BY <2>3, <2>4 DEF ChainInv, AtTip, DecidedAt, Running, Heights
<1> QED
  BY <1>7, <1>8, <1>9, <1>10, <1>11
     DEF Inv, ProcessInv, Authentic, Sent, Process, Proposal, Vote, Ids, Block, Heights, Running

\* Losing the memory of a process that may restart keeps the invariant.
LEMMA RestartInv ==
  ASSUME Inv, NEW n \in Running, Restart(n)
  PROVE  Inv'
<1>1. /\ live \in [Running -> Process] /\ live' = [live EXCEPT ![n] = Fresh]
      /\ live'[n] = Fresh /\ \A m \in Running : m # n => live'[m] = live[m]
      /\ n \in MayRestart
  BY DEF Restart, Inv, TypeOK
<1>2. votes' = votes /\ proposals' = proposals /\ decided' = decided
  BY DEF Restart
<1>3. TypeOK'
  BY <1>1, <1>2, FreshInv DEF Inv, TypeOK, ProcessInv
<1>4. \A m \in Running : ProcessInv(m, live'[m], votes')
  BY <1>1, <1>2, FreshInv DEF Inv
<1>5. PublishedInv'
  BY <1>1, <1>2, FreshInv DEF Inv, PublishedInv
<1>6. CommitJustified'
  BY <1>2 DEF Inv, CommitJustified, QuorumBehind, VotedOrFaulty
<1>7. ChainInv'
  BY <1>1, <1>2, FreshInv DEF Inv, ChainInv
<1> QED
  BY <1>3, <1>4, <1>5, <1>6, <1>7 DEF Inv

\* Whatever is delivered is well formed, and a vote that is signed by a correct
\* validator was published by it.
LEMMA DeliverableMessages ==
  ASSUME TypeOK
  PROVE  /\ DeliverableProposals \subseteq Proposal
         /\ \A v \in DeliverableVotes : v \in Vote /\ Sent(votes, v)
<1>1. FaultyProposals \subseteq Proposal
  <2> SUFFICES ASSUME NEW p \in FaultyProposals PROVE p \in Proposal
    OBVIOUS
  <2>1. PICK h \in Heights, f \in Faulty, t \in Stamps :
          p = [height |-> h, round |-> RoundZero, proposer |-> f, signed |-> TRUE,
               header |-> [height |-> h, by |-> f, stamp |-> t, txs |-> FALSE]]
    BY DEF FaultyProposals
  <2>2. f \in Validators
    BY LiveAssumption
  <2> QED
    BY <2>1, <2>2 DEF Proposal, Block, Ids
<1>2. DeliverableProposals \subseteq Proposal
  BY <1>1, LiveAssumption DEF TypeOK, DeliverableProposals
<1>3. \A p \in DeliverableProposals : p.header \in Block
  BY <1>2 DEF Proposal
<1>4. {p.header : p \in proposals \cup FaultyProposals \cup StrayProposals} \subseteq Block
  BY <1>3 DEF DeliverableProposals
<1>5. \A v \in FaultyVotes : v \in Vote /\ v.signer \in Faulty
  BY <1>4, LiveAssumption DEF FaultyVotes, Vote, Ids
<1>6. \A v \in StrayVotes : v \in Vote /\ Sent(votes, v)
  BY LiveAssumption DEF Sent
<1> QED
  BY <1>2, <1>5, <1>6 DEF DeliverableVotes, TypeOK, Sent

\* Every step of every process keeps the invariant.
LEMMA InvNext ==
  ASSUME Inv, [Next]_vars
  PROVE  Inv'
<1>1. CASE UNCHANGED vars
  BY <1>1 DEF vars, Inv, TypeOK, ProcessInv, Authentic, PublishedInv, Sent,
              CommitJustified, QuorumBehind, VotedOrFaulty, ChainInv, AtTip, DecidedAt
<1>2. CASE Next
  <2>1. PICK n \in Running :
          \/ Idle(n)
          \/ RecvTx(n)
          \/ \E v \in DeliverableVotes : RecvVote(n, v)
          \/ \E p \in DeliverableProposals : RecvProposal(n, p)
          \/ Restart(n)
    BY <1>2 DEF Next
  <2>2. ProcessInv(n, live[n], votes) /\ SameHeight(live[n], live[n]) /\ TypeOK
    BY DEF Inv, SameHeight
  <2>3. CASE Idle(n)
    BY <2>2, <2>3, IterateInv DEF Idle
  <2>4. CASE RecvTx(n)
    BY <2>2, <2>4, HandleTxInv, IterateInv DEF RecvTx
  <2>5. ASSUME NEW v \in DeliverableVotes, RecvVote(n, v) PROVE Inv'
    <3>1. v \in Vote /\ Sent(votes, v)
      BY <2>2, DeliverableMessages
    <3> QED
      BY <3>1, <2>2, <2>5, HandleVoteInv, IterateInv DEF RecvVote
  <2>6. ASSUME NEW p \in DeliverableProposals, RecvProposal(n, p) PROVE Inv'
    <3>1. p \in Proposal
      BY <2>2, DeliverableMessages
    <3> QED
      BY <3>1, <2>2, <2>6, HandleProposalInv, IterateInv DEF RecvProposal
  <2>7. CASE Restart(n)
    BY <2>7, RestartInv
  <2> QED
    BY <2>1, <2>3, <2>4, <2>5, <2>6, <2>7
<1> QED
  BY <1>1, <1>2

\* The inductive invariant holds for any validators, powers, faults and restarts:
\* processes stay well formed, their logs consistent, their commits justified and their
\* chains made of decided blocks.
THEOREM Invariance == Spec => []Inv
<1>1. Init => Inv
  BY InvInit
<1>2. Inv /\ [Next]_vars => Inv'
  BY InvNext
<1> QED
  BY <1>1, <1>2, PTL DEF Spec

----------------------------------------------------------------------------
(* The theorems.                                                           *)

\* Every variable keeps its type.
THEOREM TypeCorrect == Spec => []TypeOK
<1>1. Inv => TypeOK
  BY DEF Inv
<1> QED
  BY <1>1, Invariance, PTL

\* A validator whose process does not restart never signs two bodies under one
\* replay key, whatever it receives and however often it changes height.
THEOREM NeverDoubleSigns == Spec => []NoDoubleSign
<1>1. Inv => NoDoubleSign
  <2> SUFFICES ASSUME Inv, NEW v \in votes, NEW w \in votes,
                      SameKey(v, w), v.signer \notin MayRestart
               PROVE  v.block = w.block
    BY DEF NoDoubleSign
  <2> DEFINE n == v.signer
  <2>1. n \in Running \ MayRestart /\ w.signer = n
    BY DEF Inv, PublishedInv, SameKey
  <2>2. v \in live[n].replay /\ w \in live[n].replay
    BY <2>1 DEF Inv, PublishedInv
  <2> QED
    BY <2>1, <2>2 DEF Inv, ProcessInv
<1> QED
  BY <1>1, Invariance, PTL

\* No commit without a published precommit quorum of its height, whoever assembled
\* the certificate.
THEOREM CommitsAreJustified == Spec => []CommitJustified
<1>1. Inv => CommitJustified
  BY DEF Inv
<1> QED
  BY <1>1, Invariance, PTL

\* What the validators that are faulty or lose their memory may hold: a third of
\* the power.
FaultBudget == 3 * PowerOf(Faulty \cup MayRestart) <= PowerOf(Validators)

\* Two quorums of precommits share a validator that is neither faulty nor restarted,
\* and that one signed a single block.
LEMMA AgreementFromInv ==
  ASSUME FaultBudget, Inv, NoDoubleSign
  PROVE  Agreement
<1> SUFFICES ASSUME NEW d \in decided, NEW e \in decided, d.height = e.height
             PROVE  d.block = e.block
  BY DEF Agreement
<1> DEFINE S == VotedOrFaulty(votes, "precommit", d.height, d.block)
<1> DEFINE T == VotedOrFaulty(votes, "precommit", e.height, e.block)
<1> DEFINE B == Faulty \cup MayRestart
<1>1. S \in SUBSET Validators /\ T \in SUBSET Validators /\ B \in SUBSET Validators
  BY LiveAssumption DEF VotedOrFaulty
<1>2. /\ 3 * PowerOf(S) > 2 * PowerOf(Validators)
      /\ 3 * PowerOf(T) > 2 * PowerOf(Validators)
  BY DEF Inv, CommitJustified, QuorumBehind
<1>3. 3 * PowerOf(B) <= PowerOf(Validators)
  BY DEF FaultBudget
<1>4. PICK n \in S \cap T : n \notin B
  <2> HIDE DEF S, T, B
  <2> QED
    BY <1>1, <1>2, <1>3, QuorumIntersection
<1>5. PICK v \in votes : /\ v.signer = n /\ v.kind = "precommit"
                         /\ v.height = d.height /\ v.block = d.block
  BY <1>4 DEF VotedOrFaulty
<1>6. PICK w \in votes : /\ w.signer = n /\ w.kind = "precommit"
                         /\ w.height = e.height /\ w.block = e.block
  BY <1>4 DEF VotedOrFaulty
<1>7. v.round = w.round
  BY DEF Inv, TypeOK, Vote
<1> QED
  BY <1>4, <1>5, <1>6, <1>7 DEF NoDoubleSign, SameKey

\* Within the fault budget no two commits of any processes disagree.
THEOREM AgreementHolds ==
  ASSUME FaultBudget
  PROVE  Spec => []Agreement
<1>1. Inv /\ NoDoubleSign => Agreement
  BY AgreementFromInv
<1> QED
  BY <1>1, Invariance, NeverDoubleSigns, PTL

\* Within the fault budget processes at the same height draw their leader from the
\* same seed.
THEOREM SameSeedHolds ==
  ASSUME FaultBudget
  PROVE  Spec => []SameSeed
<1>1. Inv /\ Agreement => SameSeed
  <2> SUFFICES ASSUME Inv, Agreement, NEW m \in Running, NEW n \in Running,
                      live[m].height = live[n].height
               PROVE  live[m].last_hash = live[n].last_hash
    BY DEF SameSeed
  <2> DEFINE h == live[m].height
  <2>1. h \in Nat
    BY LiveAssumption DEF Inv, TypeOK, Process
  <2>2. AtTip(live[m], decided) /\ AtTip(live[n], decided)
    BY DEF Inv, ChainInv
  <2>3. CASE h = 0
    BY <2>2, <2>3 DEF AtTip
  <2>4. CASE h > 0
    <3> DEFINE d == [height |-> h - 1, block |-> live[m].last_hash]
    <3> DEFINE e == [height |-> h - 1, block |-> live[n].last_hash]
    <3>1. d \in decided /\ e \in decided
      BY <2>2, <2>4 DEF AtTip
    <3>2. d.block = e.block
      BY <3>1 DEF Agreement
    <3> QED
      BY <3>2
  <2> QED
    BY <2>1, <2>3, <2>4
<1> QED
  BY <1>1, Invariance, AgreementHolds, PTL

\* With agreement, the block that FinalOf chooses is the one that was decided.
LEMMA FinalOfDecided ==
  ASSUME NEW D, NEW h, NEW d \in D, d.height = h,
         \A x, y \in D : x.height = y.height => x.block = y.block
  PROVE  (CHOOSE e \in D : e.height = h).block = d.block
<1>1. \E e \in D : e.height = h
  OBVIOUS
<1>2. (CHOOSE e \in D : e.height = h) \in D /\ (CHOOSE e \in D : e.height = h).height = h
  BY <1>1
<1> QED
  BY <1>2

\* The commits of a step: none, or one at a height whose predecessors are decided.
CommitOne ==
    \E h \in Heights, b \in Block :
        /\ decided' = decided \cup {[height |-> h, block |-> b]}
        /\ \A k \in Heights : k < h => DecidedAt(decided, k)

\* One iteration decides nothing, or one height above decided ones.
LEMMA IterateDecides ==
  ASSUME Inv, NEW n \in Running, NEW s, ProcessInv(n, s, votes),
         SameHeight(live[n], s), Iterate(n, s)
  PROVE  decided' = decided \/ CommitOne
<1>1. PICK t \in Voted(n, s) :
        decided' = decided \cup
               IF Commits(t) THEN {[height |-> t.height, block |-> t.pending.header]}
                             ELSE {}
  BY DEF Iterate
<1>2. ProcessInv(n, t, votes) /\ t.height = live[n].height
  <2>1. n \in Validators
    BY DEF Running
  <2>2. ProcessInv(n, t, votes) /\ SameHeight(s, t)
    BY <2>1, VotedInv
  <2> QED
    BY <2>2 DEF SameHeight
<1>3. CASE ~Commits(t)
  BY <1>1, <1>3
<1>4. CASE Commits(t)
  <2>1. t.height \in Heights /\ t.pending.header \in Block
    BY <1>2, <1>4, CommitInv
  <2>2. \A k \in Heights : k < t.height => DecidedAt(decided, k)
    BY <1>2 DEF Inv, ChainInv, AtTip
  <2> QED
    BY <1>1, <1>4, <2>1, <2>2 DEF CommitOne
<1> QED
  BY <1>3, <1>4

\* Any step decides nothing, or one height above decided ones.
LEMMA StepDecides ==
  ASSUME Inv, [Next]_vars
  PROVE  decided' = decided \/ CommitOne
<1>1. CASE UNCHANGED vars
  BY <1>1 DEF vars
<1>2. CASE Next
  <2>1. PICK n \in Running :
          \/ Idle(n)
          \/ RecvTx(n)
          \/ \E v \in DeliverableVotes : RecvVote(n, v)
          \/ \E p \in DeliverableProposals : RecvProposal(n, p)
          \/ Restart(n)
    BY <1>2 DEF Next
  <2>2. ProcessInv(n, live[n], votes) /\ SameHeight(live[n], live[n]) /\ TypeOK
    BY DEF Inv, SameHeight
  <2>3. CASE Idle(n)
    BY <2>2, <2>3, IterateDecides DEF Idle
  <2>4. CASE RecvTx(n)
    BY <2>2, <2>4, HandleTxInv, IterateDecides DEF RecvTx
  <2>5. ASSUME NEW v \in DeliverableVotes, RecvVote(n, v)
        PROVE  decided' = decided \/ CommitOne
    <3>1. v \in Vote /\ Sent(votes, v)
      BY <2>2, DeliverableMessages
    <3> QED
      BY <3>1, <2>2, <2>5, HandleVoteInv, IterateDecides DEF RecvVote
  <2>6. ASSUME NEW p \in DeliverableProposals, RecvProposal(n, p)
        PROVE  decided' = decided \/ CommitOne
    <3>1. p \in Proposal
      BY <2>2, DeliverableMessages
    <3> QED
      BY <3>1, <2>2, <2>6, HandleProposalInv, IterateDecides DEF RecvProposal
  <2>7. CASE Restart(n)
    BY <2>7 DEF Restart
  <2> QED
    BY <2>1, <2>3, <2>4, <2>5, <2>6, <2>7
<1> QED
  BY <1>1, <1>2

\* Under agreement a step that decides a height finalizes it or changes nothing.
LEMMA FinalStep ==
  ASSUME Inv, Inv', Agreement, Agreement', [Next]_vars
  PROVE  [Abstract!FinalNext]_([h \in Heights |-> FinalOf(h)])
<1> DEFINE final == [h \in Heights |-> FinalOf(h)]
<1>1. CASE decided' = decided
  <2>1. UNCHANGED final
    BY <1>1 DEF FinalOf, Heights
  <2> QED
    BY <2>1
<1>2. CASE decided' # decided
  <2>1. PICK h \in Heights, b \in Block :
            /\ decided' = decided \cup {[height |-> h, block |-> b]}
            /\ \A k \in Heights : k < h => DecidedAt(decided, k)
    BY <1>2, StepDecides DEF CommitOne
  <2> DEFINE new == [height |-> h, block |-> b]
  <2>2. new \in decided' /\ new.height = h /\ new.block = b
    BY <2>1
  <2>3. ~DecidedAt(decided, h)
    <3>1. SUFFICES ASSUME NEW d \in decided, d.height = h PROVE FALSE
      BY DEF DecidedAt
    <3>2. d \in decided' /\ d.block = b
      BY <2>1, <2>2, <3>1 DEF Agreement
    <3>3. d = new
      BY <3>1, <3>2 DEF Inv, TypeOK
    <3> QED
      BY <1>2, <2>1, <3>3
  <2>4. FinalOf(h) = None
    BY <2>3 DEF FinalOf, DecidedAt
  <2>5. FinalOf(h)' = b
    <3>1. (CHOOSE e \in decided' : e.height = h).block = b
      BY <2>2, FinalOfDecided DEF Agreement
    <3> QED
      BY <2>2, <3>1 DEF FinalOf
  <2>6. ASSUME NEW k \in Heights, NEW d \in decided, d.height = k
        PROVE  FinalOf(k) = d.block /\ FinalOf(k)' = d.block
    <3>1. (CHOOSE e \in decided : e.height = k).block = d.block
      BY <2>6, FinalOfDecided DEF Agreement
    <3>2. (CHOOSE e \in decided' : e.height = k).block = d.block
      BY <2>1, <2>6, FinalOfDecided DEF Agreement
    <3> QED
      BY <2>1, <2>6, <3>1, <3>2 DEF FinalOf
  <2>7. ASSUME NEW k \in Heights, k # h PROVE FinalOf(k)' = FinalOf(k)
    <3>1. CASE DecidedAt(decided, k)
      BY <2>6, <3>1 DEF DecidedAt
    <3>2. CASE ~DecidedAt(decided, k)
      BY <2>1, <2>7, <3>2 DEF FinalOf, DecidedAt
    <3> QED
      BY <3>1, <3>2
  <2>8. \A k \in Heights : k < h => FinalOf(k) # None
    <3>1. SUFFICES ASSUME NEW k \in Heights, k < h PROVE FinalOf(k) # None
      OBVIOUS
    <3>2. PICK d \in decided : d.height = k
      BY <2>1, <3>1 DEF DecidedAt
    <3>3. FinalOf(k) = d.block /\ d.block \in Block
      BY <2>6, <3>2 DEF Inv, TypeOK
    <3> QED
      BY <3>3, LiveAssumption
  <2>9. final' = [final EXCEPT ![h] = b]
    <3>1. final' = [k \in Heights |-> FinalOf(k)']
      BY DEF Heights
    <3> QED
      BY <2>5, <2>7, <3>1
  <2>10. Abstract!Finalize(h)
    <3>1. final[h] = None /\ final'[h] # None
      BY <2>4, <2>9, LiveAssumption
    <3> QED
      BY <2>8, <2>9, <3>1 DEF Abstract!Finalize
  <2> QED
    BY <2>10 DEF Abstract!FinalNext
<1> QED
  BY <1>1, <1>2

\* Within the fault budget the validators together implement a ledger whose heights
\* become final once, in order and for good.
THEOREM ImplementsFinality ==
  ASSUME FaultBudget
  PROVE  Spec => Finalizes
<1>1. Init => Abstract!FinalInit
  BY DEF Init, Abstract!FinalInit, FinalOf
<1>2. Inv /\ Inv' /\ Agreement /\ Agreement' /\ [Next]_vars
         => [Abstract!FinalNext]_([h \in Heights |-> FinalOf(h)])
  BY FinalStep
<1> QED
  BY <1>1, <1>2, Invariance, AgreementHolds, PTL DEF Spec, Finalizes, Abstract!FinalSpec
=============================================================================
