SPECIFICATION MCSpec
CONSTANTS
    a1 = a1
    u1 = u1
    u2 = u2
    lp = lp
    backstop_module = backstop_module
    Users = {u1, u2}
    Backstop = backstop_module
    BackstopToken = lp
    Assets = {a1}
    Amounts = {5}
    Accruals = {4, 6}
    Scalar7 = 100
    Scalar9 = 4
    BstopRate = 40
    CFactor <- CFactors
    LFactor <- LFactors
    MaxUtil <- LowUtil
    Unit <- Units
    OracleScalar = 100
    MinHealth = 100
    Failures <- NeverFail
    MaxRequests = 2
    ThresholdPC = 10
    MaxI128 = 1000000
    BackstopStates <- Deposits
    Ramp = 2
    Hundred = 100
    Percents = {50, 100}
    Waits = {1, 2}
    Prices <- FiveBase
    Premium = 140
    MinHf = 103
    MaxHf = 140
    MinInterest = 0
    Critical = 11
    LpBlnd = 10000
    LpUsdc = 10000
    NoTx = NoTx
    NoAuction = NoAuction
CONSTRAINT Bound
INVARIANTS SolventUpToLosses InterestCovered FillingInPartsGainsNothing
PROPERTIES LiquidatedByQuote SubmittersHealthy BackstopDebtAccounted
