SPECIFICATION FairFeeSpec
CONSTANTS
    Makers = {w1}
    Backers = {b1}
    Market = Market
    Wsol = Wsol
    Keepers = {}
    InitialMembers = {w1, b1}
    MaxProposals = 1
    MaxMints = 1
    ConfigChoices <- SoloConfig
    BackingPeriod = 1
    MaxTime = 0
    MaximumBackers = 1
    CycleMax = 2
    Float = 5
    RentExempt = 1
    PoolRent = 2
    Leftovers = {0}
    TopUps = {}
    MaxWsol = 0
    TradeSizes = {}
    CollectFeeMode = 1
    BaseUnits = 2
    SwapFees = {0, 3}
    MaxFees = 3
    TempRent = 2
    TempAccounts <- NoTemps
PROPERTIES
    FeesAreCollected
CHECK_DEADLOCK FALSE
