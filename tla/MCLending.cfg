SPECIFICATION Spec
CONSTANTS
    a1 = a1
    a2 = a2
    u1 = u1
    u2 = u2
    backstop_module = backstop_module
    Users = {u1}
    Backstop = backstop_module
    Assets = {a1, a2}
    Amounts = {1, 2}
    Accruals = {4, 6}
    Scalar7 = 10
    Scalar9 = 4
    BstopRate = 4
    CFactor <- CFactors
    LFactor <- LFactors
    MaxUtil <- FullUtil
    Unit <- Units
    OracleScalar = 10
    MinHealth = 11
    Failures <- AllFail
    MaxRequests = 2
    ThresholdPC = 1
    MaxI128 = 1000
    BackstopStates <- AnyBackstop
    NoTx = NoTx
CONSTRAINT Explored
INVARIANTS SupplyMatchesPositions ReserveSolvent
PROPERTIES RatesNeverFall SubmitGainsNothing IcedPoolsShrink
