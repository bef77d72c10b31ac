SPECIFICATION ReplySpec
CONSTANTS
    w1 = w1
    w2 = w2
    b1 = b1
    b2 = b2
    Makers = {w1}
    Backers = {b1, b2}
    Market = Market
    Wsol = Wsol
    Keepers = {}
    InitialMembers = {w1, b1, b2}
    MaxProposals = 1
    MaxMints = 1
    ConfigChoices <- OneConfig
    BackingPeriod = 1
    MaxTime = 1
    MaximumBackers = 2
    CycleMax = 2
    Float = 5
    RentExempt = 1
    PoolRent = 2
    Leftovers = {0}
    TopUps = {}
    MaxWsol = 0
    TradeSizes = {}
    BaseUnits = 1
INVARIANTS
    ToldIsRejected
CHECK_DEADLOCK FALSE
