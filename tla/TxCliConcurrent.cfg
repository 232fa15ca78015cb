\* Three processes on one transaction, every fault; nobody has to start a command, so it may stop.
SPECIFICATION Spec
CONSTANTS
    Id = {t1}
    Proc = {p1, p2, p3}
    Resource = {r1}
    Value = {v1}
    NoSnapshot = NoSnapshot
    NoId = NoId
    Silent = {}
    Faults = {"step", "audit", "io", "crash"}
    Command = {"propose", "apply", "rollback", "resolve"}
    MaxSteps = 2
    MaxLog = 2
SYMMETRY Symmetry
INVARIANT TypeOK
INVARIANT SoleApplier
INVARIANT StepsOnceInOrder
INVARIANT VerdictTells
INVARIANT UndoesOnlySuccesses
CHECK_DEADLOCK FALSE
