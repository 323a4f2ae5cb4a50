SPECIFICATION FairSpec
CONSTANTS
    Vehicles = {"v1"}
    CommandOf <- SomeCommands
    Messages = {"m1", "m2"}
    MaxId = 3
    Cap = 2
    Budgets <- SomeBudgets
CHECK_DEADLOCK FALSE
INVARIANTS Inv ReportsWhileConnected AckedIsFlown
PROPERTIES NewIdIsUnused DeadPeerIsNoticed
