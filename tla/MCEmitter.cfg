SPECIFICATION FairSwapsSpec
CONSTANTS
    Backstops = {b1, b2}
    Tokens = {t1}
    Amounts = {0, 1}
    DropTotals = {1, 3}
    Scalar7 = 10
    SwapLock = 2
    DropCap = 1
    MaxTime = 6
    DistroGap = 0
    None = None
INVARIANTS BackedInFirstTerm EmissionsExact DropOncePerBackstop
PROPERTIES SwapAnnouncedAndLarger ImplementsSchedule QueueResolved
