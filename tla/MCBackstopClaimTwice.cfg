SPECIFICATION Spec
CONSTANTS
    p1 = p1
    p2 = p2
    u1 = u1
    u2 = u2
    Pools = {p1, p2}
    Users = {u1}
    Scalar7 = 10
    Q4WLockTime = 1
    MaxQ4WSize = 1
    Amounts = {1}
    DrawAmounts = {}
    ClaimLists <- AllLists
    Recipients <- ToSelf
    CometOut = {3}
    TokenValues <- HighValue
    Wallet = 3
    ThresholdPC = 1
    DistroGap = 0
    RecentDistro = 1
    Window = 2
    ZoneSize = 1
    ZoneGrowth = 3
    MaxTime = 3
    None = None
CONSTRAINT Claims
PROPERTIES ReceivedTokensCredited
