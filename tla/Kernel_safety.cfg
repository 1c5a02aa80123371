CONSTANTS
    Infos <- McInfos
    InfoAddr <- McInfoAddr
    MinInfoSize = 96
    MisreadHeaders <- McMisread
    InitialKmemBase <- McInitialKmemBase
SPECIFICATION Spec
INVARIANTS
    TypeOK
    ReservedHoleIsFirstSuitable
    PrintedStartsWithFormatted
CHECK_DEADLOCK FALSE
