SPECIFICATION Spec
CONSTANTS
    a1 = a1
    a2 = a2
    Assets = {a1, a2}
    Scalar7 = 10
    ThresholdPC = 1
    MaxI128 = 1000
    BackstopStates <- OneHealthyBackstop
    MinRBase = 1
    MaxReactivity = 1
    Metadata <- Entries
    BstopRates = {1, 10}
    MaxPositions = {1, 2}
    Modifiers = {1, 2}
    Neutral = 1
    MaxReserves = 2
    Week = 1
    QueueTtl = 2
    MaxTime = 2
    None = None
SYMMETRY AssetSymmetry
INVARIANTS ListMatchesReserves ModifierFitsCurve
PROPERTIES IndexesStable TimelockHeld
