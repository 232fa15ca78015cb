\* A rollback one of whose steps cannot be undone.
SPECIFICATION Spec
CONSTANTS
    Id = {t1}
    Proc = {p1}
    Resource = {r1}
    Value = {v1, v2}
    NoSnapshot = NoSnapshot
    NoId = NoId
    Silent = {}
    Faults = {"undo"}
    Command = {"propose", "apply", "rollback", "resolve"}
    MaxSteps = 1
    MaxLog = 6
INVARIANT RolledBackRestores
CHECK_DEADLOCK FALSE
