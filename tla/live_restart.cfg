SPECIFICATION Spec
CONSTANTS
    v1 = v1
    v2 = v2
    v3 = v3
    v4 = v4
    outsider = outsider
    Validators <- MCValidators
    Power <- EqualPower
    MaxU64 = 100
    Nil = Nil
    None = None
    Genesis = Genesis
    Faulty = {}
    Offline = {v4}
    Outsiders = {}
    StrayVotes = {}
    StrayProposals <- MCStrayProposals
    MayRestart = {v1}
    Stamps = {1}
    TxArrivals = TRUE
    MaxHeight = 2
    Lottery <- MCLottery
    RoundSource <- MCRoundSource
INVARIANT SameSeed
PROPERTY Finalizes
VIEW View
