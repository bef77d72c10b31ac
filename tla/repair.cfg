SPECIFICATION Spec
CONSTANTS
    w1 = w1
    w2 = w2
    b1 = b1
    b2 = b2
    Makers = {w1}
    Backers = {b1, b2}
    Market = Market
    Wsol = Wsol
    Keepers = {b1, b2}
    InitialMembers = {w1, b1, b2}
    MaxProposals = 1
    MaxMints = 2
    ConfigChoices <- ScarceConfig
    BackingPeriod = 1
    MaxTime = 0
    MaximumBackers = 2
    CycleMax = 2
    Float = 50
    RentExempt = 1
    PoolRent = 2
    Leftovers = {3}
    TopUps = {20}
    MaxWsol = 20
    TradeSizes = {}
    BaseUnits = 1
INVARIANTS
    TypeOK
    BackersCounted
    SlotsNeverOvercounted
    OneDecision
    LaunchableIsMintable
    CycleOrder
    ReputationBounded
    WeightedAreSettled
PROPERTIES
    CycleEndsComplete
CHECK_DEADLOCK FALSE
SYMMETRY BackerSymmetry
