SPECIFICATION Spec
CONSTANTS
    Accounts = {1, 2}
    MaxNonce = 1
    Prios = {10, 11, 12}
    Sizes = {1, 2}
    MaxTxs = 3
    MaxBytes = 5
    BlockCap = 3
    MayGossip = TRUE
    None = None
INVARIANT WithinCount
PROPERTIES EvictsLowest BuildsFullBlocks BuildsByFee
VIEW View
