SPECIFICATION Spec
CONSTANTS
    v1 = v1
    v2 = v2
    v3 = v3
    v4 = v4
    outsider = outsider
    Validators <- MCValidators
    Power <- EqualPower
    MaxU64 = 100
    Nil = Nil
    None = None
    Genesis = Genesis
    Faulty = {v1}
    Offline = {}
    Outsiders = {outsider}
    StrayVotes <- MCStrayVotes
    StrayProposals = {}
    MayRestart = {}
    Stamps = {1, 2}
    TxArrivals = FALSE
    MaxHeight = 1
    Lottery <- MCLottery
    RoundSource <- MCRoundSource
INVARIANTS TypeOK Agreement NoDoubleSign CommitJustified
SYMMETRY Followers
VIEW CoarseView
