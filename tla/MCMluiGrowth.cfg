SPECIFICATION HostSpec
CONSTANTS
    U32 = 1000000
    AllocMayFail = FALSE
    Programs <- MCGrowing
    Raws <- MCRaws
INVARIANT WritesStayInBuffers
CHECK_DEADLOCK FALSE
