SPECIFICATION Spec
CONSTANTS
    v1 = v1  v2 = v2  v3 = v3  v4 = v4  b0 = b0  b1 = b1
    Validators = {v1, v2, v3, v4}
    Ids <- MCIds
    Power <- MCPower
    Ticket <- MCTicket
    Blocks = {b0, b1}
    Built <- MCBuilt
    Base <- MCBase
    Shown <- MCShown
    Delta = 0
    Byzantine = {v4}
    Restarting = {v1}
    Times = {0, 1, 2}
    MaxRound = 1
    RestartPoints <- MCRestartPoints
    MaxU64 = 100
    Nil = Nil
    None = None
INVARIANTS NoEvidenceAgainstCorrect LockRespected RoundsAgreement
SYMMETRY Followers
CHECK_DEADLOCK FALSE
