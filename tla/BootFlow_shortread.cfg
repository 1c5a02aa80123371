\* A Read that succeeds with fewer bytes than asked for, on a single
\* payload with no other faults.
CONSTANTS
    Volumes <- OneVolume
    HeaderLen = 2
    BlockLen = 2
    ChunkSize = 3
    MaxLength = 2
    Chars = {"k", "q", "b"}
    Keys = {"k", "q", "b"}
    Backspace = FALSE
    DeviceFaults = FALSE
    ShortReads = TRUE
    EnsureHints = TRUE
    FsOrders <- McFsOrders
SPECIFICATION Spec
INVARIANT BootsOnlyIntactImage
\* PANIC, ResetSystem and the chain-load end the program.
CHECK_DEADLOCK FALSE
