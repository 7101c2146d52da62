------------------------------- MODULE MCLive -------------------------------
(* Instances of Live for TLC. *)
EXTENDS Live, Sequences, TLC

CONSTANTS v1, v2, v3, v4, outsider

\* Four validators of power 1, as in the devnet's genesis.
MCValidators == {v1, v2, v3, v4}
EqualPower == [v \in MCValidators |-> 1]

\* v1 leads height 0, v2 the later ones; the source does not matter.
MCLottery(last, source) == IF last = Genesis THEN v1 ELSE v2
MCRoundSource(round) == v1

\* The correct validators that never lead are interchangeable.
Followers == Permutations({v2, v3, v4})

\* Votes nobody signed in the names of the correct validators, for the second block
\* of v1, and a precommit that an outsider signed.
SecondBlock == [height |-> 0, by |-> v1, stamp |-> 2, txs |-> FALSE]

MCStrayVotes ==
    [height : {0}, round : {0}, kind : {"prevote", "precommit"},
     block : {SecondBlock}, signer : {v2, v3, v4}, signed : {FALSE}]
      \cup [height : {0}, round : {0}, kind : {"precommit"},
            block : {SecondBlock}, signer : {outsider}, signed : {TRUE}]

\* A copy of the first proposal of v1 whose signature is bad.
FirstBlock == [height |-> 0, by |-> v1, stamp |-> 1, txs |-> FALSE]

MCStrayProposals ==
    [height : {0}, round : {0}, header : {FirstBlock}, proposer : {v1}, signed : {FALSE}]

\* What the future of a process depends on.  Votes received before the proposal
\* are cleared with its arrival.  Prevotes are read until the process has
\* precommitted, and then only for whether they are for the proposal.  The log of a
\* process that does not restart is its votes among those published.
Matters(n, s, precommits) ==
    <<s.height, s.last_hash, s.pending, s.commits, s.pool,
      IF n \in MayRestart THEN s.replay ELSE {}>> \o
    IF s.pending = None THEN <<>>
    ELSE <<IF HasVoteOf(s.precommits, n) THEN HasVoteOf(s.prevotes, n)
           ELSE {<<v.signer, v.block = s.pending.header>> : v \in s.prevotes},
           precommits>>

\* Proposals that anybody can deliver at any time need not be remembered.
Published ==
    <<proposals \ (FaultyProposals \cup StrayProposals), decided,
      {<<v.signer, v.height, v.kind, v.block>> : v \in votes}>>

View == <<[n \in Running |-> Matters(n, live[n], live[n].precommits)], Published>>

\* A vector with a precommit that is not a validator's signed vote for the proposal
\* never makes a certificate: only the process's own place in it matters.
Useless(s) ==
    \E v \in s.precommits :
        ~v.signed \/ v.signer \notin Validators \/ v.block # s.pending.header

CoarseView ==
    <<[n \in Running |->
          LET s == live[n]
          IN  Matters(n, s, IF s.pending # None /\ Useless(s) THEN HasVoteOf(s.precommits, n)
                            ELSE {v.signer : v \in s.precommits})],
      Published>>
=============================================================================
