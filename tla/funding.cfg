SPECIFICATION OperatingSpec
CONSTANTS
    w1 = w1
    w2 = w2
    b1 = b1
    b2 = b2
    Makers = {w1, w2}
    Backers = {w1, b1, b2}
    Market = Market
    Wsol = Wsol
    Keepers = {}
    InitialMembers = {w1, b1, b2}
    MaxProposals = 1
    MaxMints = 1
    ConfigChoices <- SameStakeConfigs
    BackingPeriod = 0
    MaxTime = 1
    MaximumBackers = 2
    CycleMax = 1
    Float = 5
    RentExempt = 1
    PoolRent = 2
    Leftovers = {0}
    TopUps = {}
    MaxWsol = 0
    TradeSizes = {}
    BaseUnits = 1
INVARIANTS
    UnlaunchedDepositsHeld
    SlotsExact
    OpenWithinLimit
    VaultAccounting
    BackingMatches
    EscrowCovers
    DistributionExplained
    ClaimsFunded
PROPERTIES
    RefundReturnsDeposit
    EscrowSpec
CHECK_DEADLOCK FALSE
SYMMETRY BackerSymmetry
