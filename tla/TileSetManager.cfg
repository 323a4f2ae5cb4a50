SPECIFICATION ManagerSpec
CONSTANTS
    h1 = h1  h2 = h2
    Hash = {h1, h2}
    Names <- SomeNames
    MaxSets = 3
    Budgets <- SomeBudgets
CHECK_DEADLOCK FALSE
SYMMETRY HashSymmetry
INVARIANTS ManagerInv ListIsDatabase
PROPERTIES ImportKeeps
