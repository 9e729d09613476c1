SPECIFICATION Spec
CONSTANTS
    Scalar7 = 20
    MinRBase = 1
    MaxReactivity = 4
    SecondsPerYear = 7
    Backdated = 2
    Metadata <- SomeCurves
    Utilizations = {0, 1, 10, 11, 14, 19, 20, 23}
    Delays <- SomeDelays
INVARIANTS TypeOK RateMonotone DebtNeverShrinks
