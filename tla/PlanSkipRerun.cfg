\* A person who only skips, and agents that only refuse.
SPECIFICATION RSpec
CONSTANTS
    NumMachines = 2
    NumIntents = 1
    MaxRotations = 0
    Strategies = {"count"}
    Sizes = {1}
    Classes = {"low", "high"}
    Levels <- AllSupported
    Capabilities = {"btrfs"}
    RetryMax = 0
    Faults = {"refused"}
    Moves = {"skip"}
    MaxCommands = 3
PROPERTY SkipStays
CHECK_DEADLOCK FALSE
