SPECIFICATION MCSpec
CONSTANTS
    PeerIds = {1, 2, 3}
    Addresses <- MCAddresses
    PeerStats <- MCStats
    PrefixLens = {12, 24}
    max_per_prefix = 2
    max_slots = 3
    Genesis <- MCGenesis
    BootLists <- MCBootLists
    VrfKeys <- MCVrfKeys
    SecretKeys <- MCSecretKeys
    MaxRewrites = 3
    NoNode = NoNode
    Client = Client
    Faucet = Faucet
    Recipients = {1, 2}
    IPs = {1, 2}
    MAX_BLOCK_BYTES = 4
    MAX_TX_BYTES = 1
    MEMPOOL_MAX_TXS = 9
    max_per_window = 2
    window = 2
    wait_timeout = 2
    retain = 1
    MaxTime = 2
    MaxBlocks = 2
    MaxSubs = 1
    MaxDrips = 2
    ClientSets <- MCClients
    Nothing = Nothing
INVARIANTS SlotsAccounted TornFilesHarmless StoredTxsFound DripQuota NoNonceGap
CHECK_DEADLOCK FALSE
