SPECIFICATION Spec
CONSTANTS
    h1 = h1  h2 = h2
    Hash = {h1, h2}
    Limits <- OneLimit
    Batch = 1
    MayCrash = FALSE
SYMMETRY HashSymmetry
PROPERTIES PruneSparesSets
