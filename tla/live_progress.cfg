SPECIFICATION FairSpec
CONSTANTS
    v1 = v1
    v2 = v2
    v3 = v3
    v4 = v4
    outsider = outsider
    Validators <- MCValidators
    Power <- EqualPower
    MaxU64 = 100
    Nil = Nil
    None = None
    Genesis = Genesis
    Faulty = {}
    Offline = {v4}
    Outsiders = {}
    StrayVotes = {}
    StrayProposals = {}
    MayRestart = {}
    Stamps = {1}
    TxArrivals = FALSE
    MaxHeight = 1
    Lottery <- MCLottery
    RoundSource <- MCRoundSource
PROPERTY Progress
