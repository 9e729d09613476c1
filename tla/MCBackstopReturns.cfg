SPECIFICATION SwapsSpec
CONSTANTS
    Backstops = {b1, b2}
    Tokens = {t1}
    Amounts = {0, 1}
    DropTotals = {}
    Scalar7 = 1
    SwapLock = 1
    DropCap = 1
    DistroGap = 0
    MaxTime = 5
    None = None
INVARIANTS EmissionsBacked
