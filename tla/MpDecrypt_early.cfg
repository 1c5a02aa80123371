\* Two orders on two APs (and an empty third): UefiSpin's loop test may see
\* the full progress before the last thread has run FinishThread.
CONSTANTS
    NumProcs = 3
    BspNumber = 0
    MaxThreadCount = 3
    WorkOrders <- TwoOrdersTwoAps
    ThreadingModes = {TRUE}
    CryptFaults = FALSE
SPECIFICATION Spec
INVARIANT SpinTerminationPerSpec
CHECK_DEADLOCK FALSE
