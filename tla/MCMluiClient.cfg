SPECIFICATION HostSpec
CONSTANTS
    U32 = 1000000
    AllocMayFail = TRUE
    Programs <- MCPrograms
    Raws <- MCRaws
INVARIANTS FrameIsWhole
PROPERTIES ActivatesOnce BorrowsLast
CHECK_DEADLOCK FALSE
