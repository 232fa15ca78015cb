\* Every adapter, calls that fail, other programs, a history that is cleared.  A
\* step that is not accepted, failed or was undone goes no further.
SPECIFICATION Spec
CONSTANTS
    Content = {c1, c2}
    NoFile = NoFile
    Policy = {v1, v2}
    Sentinel = Sentinel
    NoPolicy = NoPolicy
    Path <- SmallTree
    Kinds = {"service", "task", "package", "container", "policy", "clean", "move"}
    Faults = {"call", "others", "clear"}
    MaxList = 2
INVARIANT AppliedIsDesired
INVARIANT UndoneIsRestored
INVARIANT UndoIsPossible
INVARIANT SidecarFits
PROPERTY KeepsData
PROPERTY UnitsInOrder
CHECK_DEADLOCK FALSE
