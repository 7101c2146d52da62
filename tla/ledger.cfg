SPECIFICATION LedgerSpec
CONSTANTS
    Accounts = {1, 2}
    Ids = {"x"}
    Alloc <- MCAlloc
    Amounts = {0, 1, 2, 3}
    Fees = {1}
    MaxAmount = 10
    MinBond = 2
    Period = 2
    EpochLen = 2
    Cap = 1
    Percent = 50
    Offences = {1}
    MaxHeight = 4
    MaxUnbonds = 3
    None = None
INVARIANTS LedgerTypeOK Conserved NoEarlyWithdraw NoDustBond
PROPERTY TombstoneBars
