SPECIFICATION Spec
CONSTANTS
    p1 = p1
    p2 = p2
    u1 = u1
    u2 = u2
    Pools = {p1}
    Users = {u1, u2}
    Scalar7 = 10
    Q4WLockTime = 2
    MaxQ4WSize = 2
    Amounts = {1, 3}
    DrawAmounts = {1, 2}
    ClaimLists <- NoList
    Recipients <- ToSelf
    CometOut = {1}
    TokenValues = {}
    Wallet = 3
    ThresholdPC = 1
    DistroGap = 0
    RecentDistro = 1
    Window = 2
    ZoneSize = 1
    ZoneGrowth = 3
    MaxTime = 4
    None = None
CONSTRAINT FundsOnly
SYMMETRY UserSymmetry
INVARIANTS SharesMatchUsers TokensBackBalances QueueOrdered FundedPoolsDeployed
PROPERTIES ShareValueKept
