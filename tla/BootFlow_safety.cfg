\* Password loop, probe, load and hand-off with every firmware and library
\* call allowed to fail; reads return what the file has.
CONSTANTS
    Volumes <- McVolumes
    HeaderLen = 2
    BlockLen = 2
    ChunkSize = 3
    MaxLength = 2
    Chars = {"k", "q", "b"}
    Keys = {"k", "q", "b"}
    Backspace = TRUE
    DeviceFaults = TRUE
    ShortReads = FALSE
    EnsureHints = TRUE
    FsOrders <- McFsOrders
SPECIFICATION Spec
INVARIANTS TypeOK StructuralChecksPrecedeCrypto BootsOnlyIntactImage
PROPERTIES KeyNeverRefused
\* PANIC, ResetSystem and the chain-load end the program.
CHECK_DEADLOCK FALSE
