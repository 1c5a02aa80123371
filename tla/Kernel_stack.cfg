CONSTANTS
    Infos <- McInfos
    InfoAddr <- McInfoAddr
    MinInfoSize = 96
    MisreadHeaders <- McMisread
    InitialKmemBase <- McInitialKmemBase
SPECIFICATION Spec
INVARIANT
    HoleIsSuitable
CHECK_DEADLOCK FALSE
