\* Two processes, one journal, I/O errors and crashes.  The system may stop: a
\* journal left garbled can be neither loaded nor created again.
SPECIFICATION FairSpec
CONSTANTS
    Id = {t1}
    Resource = {r1}
    Value = {v1}
    NoSnapshot = NoSnapshot
    NoProc = NoProc
    NoId = NoId
    Proc = {p1, p2}
    MaxSteps = 2
    Faults = {"io", "crash"}
INVARIANT TypeOK
INVARIANT LockProtectsFile
INVARIANT NoLostUpdate
INVARIANT MemoryFollowsDisk
PROPERTY Implements
PROPERTY CallsReturn
CHECK_DEADLOCK FALSE
