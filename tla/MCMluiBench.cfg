SPECIFICATION Spec
CONSTANTS
    U32 = 1000000
    Shapes = {"CHAIN", "FLAT", "BALANCED", "INTERACTIVE"}
    Sizes = {0, 5, 9}
    WrapperId = 4000
    LeafId = 4003
    AllocMayFail = TRUE
    Arguments <- MCArguments
INVARIANTS BuildsTrees SampleIsExact ExitMeans
PROPERTY BenchEnds
CHECK_DEADLOCK FALSE
