SPECIFICATION Spec
CONSTANTS
    h1 = h1  h2 = h2
    Hash = {h1, h2}
    Limits <- SomeLimits
    Batch = 1
    MayCrash = TRUE
SYMMETRY HashSymmetry
INVARIANTS Inv SetsComplete
PROPERTIES KeepsTiles
