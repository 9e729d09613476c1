SPECIFICATION Spec
CONSTANTS
    p1 = p1
    p2 = p2
    u1 = u1
    u2 = u2
    Pools = {p1, p2}
    Users = {u1, u2}
    Scalar7 = 10
    Q4WLockTime = 1
    MaxQ4WSize = 1
    Amounts = {1}
    DrawAmounts = {}
    ClaimLists <- DistinctLists
    Recipients <- ToSelf
    CometOut = {3}
    TokenValues <- HighValue
    Wallet = 1
    ThresholdPC = 1
    DistroGap = 0
    RecentDistro = 1
    Window = 2
    ZoneSize = 1
    ZoneGrowth = 3
    MaxTime = 3
    None = None
CONSTRAINT Emissions
SYMMETRY Interchangeable
INVARIANTS ZoneWellFormed EmissionsFunded HistoryOnlyForEarlyHolders
PROPERTIES ReceivedTokensCredited
