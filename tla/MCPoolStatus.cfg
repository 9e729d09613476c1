SPECIFICATION FairStatusSpec
CONSTANTS
    Scalar7 = 100
    ThresholdPC = 162
    MaxI128 = 100000
    BackstopStates <- Backstops
PROPERTIES BorrowingOpensOnHealth UnhealthyStopsBorrowing QueueFreezes
