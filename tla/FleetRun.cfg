\* Three machines, every risk, one new node id, and everything that may go wrong.
\* A run ends, so the system stops.
SPECIFICATION Spec
CONSTANTS
    NumMachines = 3
    NumIntents = 2
    MaxRotations = 1
    Strategies = {"count", "importance"}
    Sizes = {1, 2}
    Classes = {"low"}
    Levels <- SomeMixed
    Capabilities = {"btrfs", "unspecified"}
    RetryMax = 1
    Faults <- AnyFault
INVARIANT TypeOK
INVARIANT NothingPastAFailure
INVARIANT VerdictIsEarned
INVARIANT AppliedWithinBudget
INVARIANT OneRowPerMachine
PROPERTY RunEnds
CHECK_DEADLOCK FALSE
