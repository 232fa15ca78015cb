\* Two processes on one transaction; no rollback fails, everything else may.  May
\* stop: nobody has to start a command, and none is started past MaxLog.
SPECIFICATION ESpec
CONSTANTS
    Id = {t1}
    Proc = {p1, p2}
    Resource = {r1}
    Value = {v1, v2}
    NoSnapshot = NoSnapshot
    NoId = NoId
    Silent = {}
    Faults = {"step", "audit", "io", "crash"}
    Command = {"propose", "apply", "rollback", "resolve"}
    MaxSteps = 2
    MaxLog = 2
INVARIANT RolledBackRestores
PROPERTY CommandsEnd
CHECK_DEADLOCK FALSE
