SPECIFICATION Spec
CONSTANTS
    Names = {"a", "b"}
    MaxSessions = 3
    Options <- MCOptions
INVARIANTS NothingLingers 
PROPERTY ClosesRestore
CHECK_DEADLOCK FALSE
