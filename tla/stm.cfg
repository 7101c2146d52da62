SPECIFICATION Spec
CONSTANTS
    u1 = u1  u2 = u2  c1 = c1
    Installed <- MCInstalled
    Users = {u1, u2}
    Txs <- MCTxs
    BlockLen = 4
    Genesis <- MCGenesis
    Fee = 0
    Trap = 1
INVARIANTS SameAsSequential WavesIndependent
PROPERTIES FailureLeavesNoTrace
CHECK_DEADLOCK FALSE
