CONSTANTS
    BatchSize <- MCBatchSize
    MaxIssued <- MCMaxIssued
    ChanCap <- MCChanCap
    MaxStopVertex <- MCMaxStopVertex
SPECIFICATION FairSpec
INVARIANT TxConservation
INVARIANT NotStranded
PROPERTY AllPulled
PROPERTY ShutdownCompletes
PROPERTY HandoffSpec
\* After Shutdown returns (shut = "closed") the VM takes no further step.
CHECK_DEADLOCK FALSE
