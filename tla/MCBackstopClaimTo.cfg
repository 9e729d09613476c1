SPECIFICATION Spec
CONSTANTS
    p1 = p1
    p2 = p2
    u1 = u1
    u2 = u2
    Pools = {p1}
    Users = {u1, u2}
    Scalar7 = 10
    Q4WLockTime = 1
    MaxQ4WSize = 1
    Amounts = {1, 2}
    DrawAmounts = {}
    ClaimLists <- OneList
    Recipients <- ToAnybody
    CometOut = {1}
    TokenValues <- HighValue
    Wallet = 2
    ThresholdPC = 1
    DistroGap = 0
    RecentDistro = 1
    Window = 2
    ZoneSize = 1
    ZoneGrowth = 3
    MaxTime = 3
    None = None
CONSTRAINT Claims
SYMMETRY UserSymmetry
INVARIANTS HistoryOnlyForEarlyHolders
