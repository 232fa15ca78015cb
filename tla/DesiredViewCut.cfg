\* Commands beside loads, one at a time, or two at once with discipline; may stop at
\* a bound.
SPECIFICATION DSpec
CONSTANTS
    Id = {t1, t2}
    Proc = {p1, p2}
    Resource = {r1, r2}
    Value = {v1, v2}
    NoSnapshot = NoSnapshot
    NoId = NoId
    Silent = {}
    Mapped = {r1, r2}
    Faults = {"step", "audit", "crash", "clock"}
    Command = {"propose", "apply", "rollback", "resolve"}
    MaxSteps = 2
    MaxLog = 4
    LoadValue = {v1}
    LoadSteps = 1
    LoadLog = 2
    CalmSteps = 2
    CalmLog = 0
SYMMETRY Symmetry
INVARIANT ViewIsOfSomeCut
INVARIANT ChainLinear
INVARIANT DesiredIsActual
CHECK_DEADLOCK FALSE
