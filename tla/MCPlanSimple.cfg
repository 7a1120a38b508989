CONSTANTS
    a = a
    b = b
    c = c
    r = r
    r2 = r2
    Nil = Nil
    Packages <- BackEdge
    RootSpecs = {r, r2}
SPECIFICATION Spec
CHECK_DEADLOCK FALSE
INVARIANTS SelectsTheSimplePath
