\* Two orders on a single AP: the second thread needs the processor the
\* first one frees.
CONSTANTS
    NumProcs = 2
    BspNumber = 0
    MaxThreadCount = 2
    WorkOrders <- TwoOrdersOneAp
    ThreadingModes = {TRUE}
    CryptFaults = FALSE
SPECIFICATION FairSpec
PROPERTY Termination
CHECK_DEADLOCK FALSE
