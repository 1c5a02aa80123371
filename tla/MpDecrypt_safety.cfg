\* Three orders on three APs, BSP numbered 1 so that a stale
\* AssignedProcessorNumber of 0 names a real AP, with threading on and off:
\* the safety properties and, under the fairness of every processor,
\* termination.
CONSTANTS
    NumProcs = 4
    BspNumber = 1
    MaxThreadCount = 3
    WorkOrders <- ThreeOrders
    ThreadingModes = {FALSE, TRUE}
    CryptFaults = TRUE
SPECIFICATION FairSpec
INVARIANT TypeOK
INVARIANT HaltsOnWorkerFailure
PROPERTY JobRefinement
PROPERTY ProgressNeverRegresses
PROPERTY Termination
CHECK_DEADLOCK FALSE
