\* Five processor numbers (the BSP, two enabled APs, a disabled AP that
\* EnableDisableAP cannot enable, a missing number), faults on every
\* protocol call.
CONSTANTS
    NumProcs = 5
    Firmware <- McFirmware
    Faults = TRUE
SPECIFICATION Spec
INVARIANTS
    TypeOK
    RefreshPreservesWorking
