CONSTANTS
    BatchSize <- MCBatchSize
    MaxIssued <- MCMaxIssued
    ChanCap <- MCChanCap
    MaxStopVertex <- MCMaxStopVertex
SPECIFICATION Spec
INVARIANT PendingBounded
CHECK_DEADLOCK FALSE
