\* Everything may go wrong.  May stop: complete, torn, or at MaxCommands.
SPECIFICATION RSpec
CONSTANTS
    NumMachines = 2
    NumIntents = 2
    MaxRotations = 1
    Strategies = {"count"}
    Sizes = {1}
    Classes = {"low", "high"}
    Levels <- AllSupported
    Capabilities = {"btrfs", "none"}
    RetryMax = 0
    Faults <- AnyFault
    Moves = {"skip", "force", "resubmit"}
    MaxCommands = 3
INVARIANT AppliedOnce
INVARIANT NothingUnaccounted
INVARIANT CompleteMeansSettled
CHECK_DEADLOCK FALSE
