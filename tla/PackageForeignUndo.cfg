\* package.set alone and undisturbed: its rollback is to undo its own entry of the
\* dnf history.  A step that is not accepted, failed or was undone goes no further.
SPECIFICATION Spec
CONSTANTS
    Content = {c1, c2}
    NoFile = NoFile
    Policy = {v1, v2}
    Sentinel = Sentinel
    NoPolicy = NoPolicy
    Path <- SmallTree
    Kinds = {"package"}
    Faults = {}
    MaxList = 1
INVARIANT SidecarIsOwn
CHECK_DEADLOCK FALSE
