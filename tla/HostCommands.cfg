\* Three services of the host side by side: the controller, the node registry and
\* the rescue server.  Each may stop (told to, or at a bound), so the system stops.
SPECIFICATION HostSpec
CONSTANTS
    Row = {r1, r2, r3}
    Value = {v1}
    NoValue = NoValue
    Capacity = 2
    LoadFaults = TRUE
    MaxChanges = 1
    Writer = {p1, p2}
    Node = {n1, n2}
    Content = {c1, c2}
    Torn = Torn
    StoreFaults = {"io", "crash"}
    MaxStores = 3
    Session = {s1, s2}
    MaxCommands = 4
INVARIANT HostTypeOK
INVARIANT EventsAccountedFor
INVARIANT DrivesTheDesired
INVARIANT ReportedIsStored
INVARIANT ClaimIsTrue
PROPERTY RowsAreServed
PROPERTY StopsWhenTold
PROPERTY StartsOverStub
CHECK_DEADLOCK FALSE
