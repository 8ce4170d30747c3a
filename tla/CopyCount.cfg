SPECIFICATION FairSpec
CHECK_DEADLOCK FALSE
CONSTANTS
    MaxInt = 7
    BufSize = 3
    Lengths <- MCLengths
INVARIANTS CounterExact SumOfWhole
PROPERTY CopyEnds
