SPECIFICATION FeeSpec
CONSTANTS
    Makers = {w1}
    Backers = {b1}
    Market = Market
    Wsol = Wsol
    Keepers = {}
    InitialMembers = {w1, b1}
    MaxProposals = 1
    MaxMints = 2
    ConfigChoices <- SoloConfig
    BackingPeriod = 1
    MaxTime = 0
    MaximumBackers = 1
    CycleMax = 1
    Float = 5
    RentExempt = 1
    PoolRent = 2
    Leftovers = {3}
    TopUps = {10}
    MaxWsol = 13
    TradeSizes = {}
    CollectFeeMode = 0
    BaseUnits = 2
    SwapFees = {0, 1, 3}
    MaxFees = 4
    TempRent = 2
    TempAccounts <- AllTemps
INVARIANTS
    FeesAccounted
PROPERTIES
    FeesPassThrough
CHECK_DEADLOCK FALSE
