CONSTANTS
    a = a
    b = b
    c = c
    r = r
    r2 = r2
    Nil = Nil
    Packages <- AllPackages
    RootSpecs = {r, r2}
SPECIFICATION Spec
CHECK_DEADLOCK FALSE
INVARIANTS SearchIsOnPath SearchIsComplete PlanConnects
PROPERTIES Answers
