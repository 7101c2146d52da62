-------------------------------- MODULE Live --------------------------------
(***************************************************************************)
(* The validators of one chain, each running the event loop of the `node`  *)
(* binary (node/src/main.rs, `Live`) over the hand-offs of wire.rs.        *)
(*                                                                         *)
(* A process is single-threaded: one iteration of its loop takes at most   *)
(* one gossip message, handles it, runs `tick`, and publishes what both    *)
(* put in the outbox.  An action is one iteration.  `handle_*` and the     *)
(* stages of `tick` are functions from a process state to a process state. *)
(*                                                                         *)
(* Gossip is best effort: a published message may reach a validator late,  *)
(* repeatedly, out of order or never.  All state is in memory (the node    *)
(* opens a MemoryStore), so a restarted process is a fresh one.            *)
(*                                                                         *)
(* Anybody can publish.  The loop drops the result of checking a vote's    *)
(* signature and adopts a proposal unchecked, so messages that their       *)
(* signer never signed are delivered and counted like the others.          *)
(* Signatures are ideal: one verifies only if the key's owner made it.     *)
(***************************************************************************)
EXTENDS Consensus

CONSTANTS
    Faulty,             \* validators that may publish anything
    Offline,            \* validators that never run
    Outsiders,          \* ids that are no validators'
    StrayVotes,         \* bound: the votes of unknown origin that may turn up
    StrayProposals,     \* bound: the proposals of unknown origin that may turn up
    MayRestart,         \* correct validators whose process may restart
    Stamps,             \* header timestamps: what tells two builds apart
    TxArrivals,         \* whether transactions reach the mempools
    MaxHeight,          \* bound: heights 0 .. MaxHeight - 1 are explored
    Genesis,            \* the genesis hash, last_hash of height 0
    Lottery(_, _),      \* vrf::weighted_leader of a last_hash and a source
    RoundSource(_)      \* propose::round_vrf_source

VARIABLES
    live,       \* the state of the process of each running validator
    proposals,  \* the proposals published by running validators
    votes,      \* the votes published by running validators
    decided     \* history: every commit of every process, restarted or not

vars == <<live, proposals, votes, decided>>

Running == Validators \ (Faulty \cup Offline)
Heights == 0 .. MaxHeight - 1
RoundZero == 0

\* A header.  Its hash covers all of it, so a header stands for its own hash.
\* `txs` says whether the block has a transaction.
Block == [height : Heights, by : Validators, stamp : Stamps, txs : BOOLEAN]

Ids == Validators \cup Outsiders

\* `signed` says that the signature, and in a proposal the VRF proof, verifies.
Proposal == [height : Heights, round : {RoundZero}, header : Block,
             proposer : Ids, signed : BOOLEAN]

Vote == [height : Heights, round : {RoundZero}, kind : {"prevote", "precommit"},
         block : Block \cup {Nil}, signer : Ids, signed : BOOLEAN]

ASSUME LiveAssumption ==
    /\ MaxHeight \in Nat
    /\ Faulty \subseteq Validators
    /\ Offline \subseteq Validators
    /\ MayRestart \subseteq Validators
    /\ Outsiders \cap Validators = {}
    /\ StrayVotes \subseteq {v \in Vote : v.signed => v.signer \in Outsiders}
    /\ StrayProposals \subseteq {p \in Proposal : p.signed => p.proposer \in Outsiders}
    /\ Nil # None
    /\ None \notin Block /\ None \notin Proposal

\* `replay` keeps the entries of the process's own votes: the result of
\* observing another's vote is dropped and its entry never read again.
\* `pool` says whether the mempool has a ready transaction.
Process == [height : 0 .. MaxHeight, round : {RoundZero},
            last_hash : Block \cup {Genesis}, pending : Proposal \cup {None},
            prevotes : SUBSET Vote, precommits : SUBSET Vote,
            replay : SUBSET Vote, commits : [Heights -> Block \cup {None}],
            pool : BOOLEAN]

Fresh == [height |-> 0, round |-> RoundZero, last_hash |-> Genesis,
          pending |-> None, prevotes |-> {}, precommits |-> {}, replay |-> {},
          commits |-> [h \in Heights |-> None], pool |-> FALSE]

----------------------------------------------------------------------------
(* handle_bytes: what one gossip message does to the process.              *)

handle_tx(s) == [s EXCEPT !.pool = TRUE]

\* The result of wire_ingest_vote, which checks the signature and only then enters
\* the vote in the log, is dropped: a vote of the height and round is counted,
\* signed or not.
handle_vote(s, v) ==
    IF v.height # s.height \/ v.round # s.round THEN s
    ELSE IF v.kind = "prevote"
         THEN [s EXCEPT !.prevotes = insert_vote_sorted(@, v)]
         ELSE [s EXCEPT !.precommits = insert_vote_sorted(@, v)]

\* A proposal is rebuilt from an empty mempool, so the header can only match if
\* the proposer's block was empty too.
built_from_proposal(p) == ~p.header.txs

\* A process takes on a proposal and forgets the votes it holds.
adopt(s, p) == [s EXCEPT !.pending = p, !.prevotes = {}, !.precommits = {}]

\* Mutant: a new proposal for the height replaces the pending one and starts the
\* vote log afresh.
handle_proposal_anew(s, p) ==
    IF p.height = s.height /\ p.round = s.round /\ built_from_proposal(p)
    THEN [adopt(s, p) EXCEPT !.replay = {}]
    ELSE s

handle_proposal(s, p) ==
    IF /\ p.height = s.height
       /\ p.round = s.round
       /\ s.pending = None
       /\ built_from_proposal(p)
    THEN adopt(s, p)
    ELSE s

----------------------------------------------------------------------------
(* tick: propose, prevote, precommit, commit.                              *)

CanPropose(n, s) ==
    /\ s.height < MaxHeight
    /\ s.pending = None
    /\ Lottery(s.last_hash, RoundSource(s.round)) = n

BuiltProposal(n, s, stamp) ==
    [height |-> s.height, round |-> s.round, proposer |-> n, signed |-> TRUE,
     header |-> [height |-> s.height, by |-> n, stamp |-> stamp, txs |-> s.pool]]

\* The states the proposing stage may end in: the timers (2 s after start,
\* min_block_time after a commit) are due or not, the clock shows any stamp.
\* Building the block takes the ready transactions out of the mempool.
wire_propose(n, s) ==
    {s} \cup {[adopt(s, BuiltProposal(n, s, stamp)) EXCEPT !.pool = FALSE] :
                  stamp \in {t \in Stamps : CanPropose(n, s)}}

VoteOf(n, s, kind, block) ==
    [height |-> s.height, round |-> s.round, kind |-> kind,
     block |-> block, signer |-> n, signed |-> TRUE]

\* The proposer is a validator of the mesh and signed the proposal.
ingest_validator_proposal(p) == p.proposer \in Validators /\ p.signed

\* propose::verify_leader: the lottery of the source that the proposal names
\* selects the proposer.  The proposer names the source.
verify_leader(s, p) ==
    \E source \in Validators : Lottery(s.last_hash, source) = p.proposer

\* The node passes no lock, so prevote_step never prevotes nil.
wire_vote(n, s) ==
    LET v == VoteOf(n, s, "prevote", s.pending.header)
    IN  IF /\ s.pending # None
           /\ ~HasVoteOf(s.prevotes, n)
           /\ ingest_validator_proposal(s.pending)
           /\ s.pending.height = s.height
           /\ verify_leader(s, s.pending)
           /\ ~Equivocates(s.replay, v)
        THEN [s EXCEPT !.prevotes = insert_vote_sorted(@, v),
                       !.replay = observe(@, v)]
        ELSE s

\* precommit_step's vote; the lock it returns is dropped by the node.
precommit_block(s) ==
    IF polka(s.prevotes, s.pending.header) THEN s.pending.header ELSE Nil

\* Mutant: wait for the prevotes of all four.
wire_precommit_late(n, s) ==
    LET v == VoteOf(n, s, "precommit", precommit_block(s))
    IN  IF /\ s.pending # None
           /\ Cardinality(s.prevotes) > 3
           /\ ~HasVoteOf(s.precommits, n)
           /\ ~Equivocates(s.replay, v)
        THEN [s EXCEPT !.precommits = insert_vote_sorted(@, v),
                       !.replay = observe(@, v)]
        ELSE s

wire_precommit(n, s) ==
    LET v == VoteOf(n, s, "precommit", precommit_block(s))
    IN  IF /\ s.pending # None
           /\ Cardinality(s.prevotes) >= 3
           /\ ~HasVoteOf(s.precommits, n)
           /\ ~Equivocates(s.replay, v)
        THEN [s EXCEPT !.precommits = insert_vote_sorted(@, v),
                       !.replay = observe(@, v)]
        ELSE s

\* Mutant: the certificate's aggregate signature is not verified.
Commits_unverified(s) ==
    /\ s.pending # None
    /\ Cardinality(s.precommits) >= 3
    /\ commit_ok(s.precommits, total_power, s.pending.header,
                 s.commits[s.height])

\* The commit stage succeeds.  The aggregate of the whole vector verifies only if
\* every signature in it does.
Commits(s) ==
    /\ s.pending # None
    /\ Cardinality(s.precommits) >= 3
    /\ \A v \in s.precommits : v.signed
    /\ commit_ok(s.precommits, total_power, s.pending.header,
                 s.commits[s.height])

\* Mutant: the height is advanced twice.
wire_commit_twice(s) ==
    IF Commits(s)
    THEN [s EXCEPT !.commits[s.height] = s.pending.header,
                   !.last_hash = s.pending.header,
                   !.height = @ + 2, !.round = RoundZero,
                   !.pending = None, !.prevotes = {}, !.precommits = {}]
    ELSE s

\* Commit, persist, and start the next height.
wire_commit(s) ==
    IF Commits(s)
    THEN [s EXCEPT !.commits[s.height] = s.pending.header,
                   !.last_hash = s.pending.header,
                   !.height = @ + 1, !.round = RoundZero,
                   !.pending = None, !.prevotes = {}, !.precommits = {}]
    ELSE s

\* The states of n when `tick` comes to the commit.
Voted(n, s) == {wire_precommit(n, wire_vote(n, t)) : t \in wire_propose(n, s)}

----------------------------------------------------------------------------
(* The gossip network.                                                     *)

\* A faulty validator may propose any empty block at any height (one with
\* transactions is dropped by every receiver), and vote for nil or for any
\* block that is or could be proposed.
FaultyProposals ==
    {[height |-> h, round |-> RoundZero, proposer |-> f, signed |-> TRUE,
      header |-> [height |-> h, by |-> f, stamp |-> t, txs |-> FALSE]] :
        h \in Heights, f \in Faulty, t \in Stamps}

FaultyVotes ==
    [height : Heights, round : {RoundZero}, kind : {"prevote", "precommit"},
     block : {p.header : p \in proposals \cup FaultyProposals \cup StrayProposals}
                 \cup {Nil},
     signer : Faulty, signed : {TRUE}]

\* What a peer may hand to a validator: what validators published, and messages in
\* anybody's name, the receiver's included, that their signer never signed.
DeliverableVotes == votes \cup FaultyVotes \cup StrayVotes

DeliverableProposals == proposals \cup FaultyProposals \cup StrayProposals

----------------------------------------------------------------------------
(* The specification.                                                      *)

Init ==
    /\ live = [n \in Running |-> Fresh]
    /\ proposals = {}
    /\ votes = {}
    /\ decided = {}

\* The rest of an iteration of n whose message handling ended in state s.  The
\* pending proposal and the process's own votes go to the outbox.
Iterate(n, s) ==
    \E t \in Voted(n, s) :
        /\ live' = [live EXCEPT ![n] = wire_commit(t)]
        /\ proposals' = proposals \cup ({t.pending} \ {None})
        /\ votes' = votes \cup t.replay
        /\ decided' = decided \cup
               IF Commits(t) THEN {[height |-> t.height, block |-> t.pending.header]}
                             ELSE {}

Idle(n) == Iterate(n, live[n])

RecvTx(n) ==
    /\ TxArrivals
    /\ Iterate(n, handle_tx(live[n]))

\* Gossipsub drops what comes back to its own publisher; a peer's identity outlives
\* its process.  A message the handler ignores leaves an idle iteration.
RecvVote(n, v) ==
    /\ v.signed => v.signer # n
    /\ handle_vote(live[n], v) # live[n]
    /\ Iterate(n, handle_vote(live[n], v))

\* Every holder of a proposal publishes it, so a proposer can get its own back.
RecvProposal(n, p) ==
    /\ handle_proposal(live[n], p) # live[n]
    /\ Iterate(n, handle_proposal(live[n], p))

Restart(n) ==
    /\ n \in MayRestart
    /\ live' = [live EXCEPT ![n] = Fresh]
    /\ UNCHANGED <<proposals, votes, decided>>

Next ==
    \E n \in Running :
        \/ Idle(n)
        \/ RecvTx(n)
        \/ \E v \in DeliverableVotes : RecvVote(n, v)
        \/ \E p \in DeliverableProposals : RecvProposal(n, p)
        \/ Restart(n)

Spec == Init /\ [][Next]_vars

\* While its proposal is pending a process publishes it and its own votes again
\* every 250 ms.
Rebroadcast(m) == {v \in live[m].prevotes \cup live[m].precommits : v.signer = m}

RecvRebroadcast(n) ==
    \E m \in {k \in Running : live[k].pending # None} :
        \/ RecvProposal(n, live[m].pending)
        \/ \E v \in Rebroadcast(m) : RecvVote(n, v)

\* The loop never blocks for more than 15 ms, and what is published over and over
\* arrives in the end.  Nothing is assumed of a message that is published once.
Fairness ==
    \A n \in Running : WF_vars(Idle(n)) /\ WF_vars(RecvRebroadcast(n))

FairSpec == Spec /\ Fairness

----------------------------------------------------------------------------
(* Properties.                                                             *)

\* Every variable keeps its type; the processes are those of the running
\* validators.
TypeOK ==
    /\ live \in [Running -> Process]
    /\ proposals \subseteq Proposal
    /\ votes \subseteq Vote
    /\ decided \subseteq [height : Heights, block : Block]

\* No two processes, over all their lives, commit different blocks at one
\* height (README.md, "Finality"; safety.rs, no_two_commits, is only local).
Agreement ==
    \A d, e \in decided : d.height = e.height => d.block = e.block

\* A validator whose process never restarts signs one body per replay key,
\* although proposals, votes and height changes keep clearing its vote vectors.
NoDoubleSign ==
    \A v, w \in votes :
        SameKey(v, w) /\ v.signer \notin MayRestart => v.block = w.block

\* Validators whose vote was published; faulty ones count as having voted for
\* anything.
VotedOrFaulty(V, kind, h, b) ==
    Faulty \cup {n \in Validators :
        \E v \in V : /\ v.signer = n
                     /\ v.kind = kind
                     /\ v.height = h
                     /\ v.block = b}

QuorumBehind(V, kind, h, b) ==
    3 * PowerOf(VotedOrFaulty(V, kind, h, b)) > 2 * PowerOf(Validators)

\* A commit rests on a quorum of precommits that their signers really published,
\* although votes that nobody signed are counted on the way to it (wire.rs: "Local
\* finality. Trigger: precommit QC.").
CommitJustified ==
    \A d \in decided : QuorumBehind(votes, "precommit", d.height, d.block)

\* Processes at one height draw the next leader from the same seed, although each
\* got there by its own commits.
SameSeed ==
    \A m, n \in Running :
        live[m].height = live[n].height => live[m].last_hash = live[n].last_hash

\* Height 0 is committed by all but at most two of the running validators.  (The
\* last two can be left behind: a validator that has committed publishes its
\* precommit no more, and validators do not catch up from blocks.)
Progress ==
    <>(Cardinality({n \in Running : live[n].height > 0}) >= Cardinality(Running) - 2)

\* The abstract specification: the height's block is final once anybody has
\* committed it.
FinalOf(h) ==
    IF \E d \in decided : d.height = h
    THEN (CHOOSE d \in decided : d.height = h).block
    ELSE None

Abstract == INSTANCE Finality WITH
                Heights <- Heights, Blocks <- Block, NoBlock <- None,
                final <- [h \in Heights |-> FinalOf(h)]

Finalizes == Abstract!FinalSpec
=============================================================================
