SPECIFICATION Spec
CONSTANTS
    Bodies <- MCBodies
    Validators = {1, 2, 3, 4}
    Outsider = 5
    DATA_SHARDS = 4
    PARITY_SHARDS = 2
    SAMPLE_COUNT = 3
    Subscriptions <- MCSubscriptions
    Stray <- MCStray
    Forged <- MCForged
    MaxDamage = 2
    None = None
INVARIANTS FollowerFollows HeardIntact ChunksRebuild
PROPERTY CatchesUp
