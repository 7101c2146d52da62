SPECIFICATION Spec
CONSTANTS
    MaxHeight = 3
    HotWindow = 1
    MayPrune = TRUE
    MaySync = TRUE
    MayFail = TRUE
    Stray <- MCStray
    bad = bad
    other = other
    None = None
INVARIANTS StoredKept CrashRecoverable WorldStored
PROPERTY RecoversTip
