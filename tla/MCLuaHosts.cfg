SPECIFICATION Spec
CONSTANTS
    Trees <- MCTrees
    Limits = {0, 2, 3}
    Threads = {main, co1, co2}
    Main = main
    MaxRun = 5
INVARIANTS RowsRebuildChunk TraceIsPrefix ExitsAreClean
PROPERTY LinesReachTheFile
CHECK_DEADLOCK FALSE
