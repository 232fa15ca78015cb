\* A crash or an I/O error between truncate and write.
SPECIFICATION Spec
CONSTANTS
    Id = {t1}
    Resource = {r1}
    Value = {v1}
    NoSnapshot = NoSnapshot
    NoProc = NoProc
    NoId = NoId
    Proc = {p1, p2}
    MaxSteps = 1
    Faults = {"crash"}
SYMMETRY Symmetry
INVARIANT ReadableOnceBegun
CHECK_DEADLOCK FALSE
