SPECIFICATION LightSpec
CONSTANTS
    Validators = {1, 2, 3, 4}
    Minority = {4}
    Claims <- MCClaims
    Power <- MCPower
    MaxU64 = 100
    Nil = Nil
    None = None
    Radix = 2
    Addresses <- MCAddresses
    Slots <- MCSlots
    Balances = {1, 2}
    Words = {1}
    Genesis <- MCGenesis
    Rent <- MCRent
    Prepaid = 1
    Packets <- MCPackets
    CHECKPOINT_INTERVAL = 2
    MaxHeight = 1
    MaxRecords = 1
    MaxWrites = 3
INVARIANTS CanonicalRoot ProofsSound LightSees ExpiredRecoverable
CHECK_DEADLOCK FALSE
