SPECIFICATION Spec
CONSTANTS
    NumTiles = 3
    Batch = 2
    Concurrent = 2
    LowWater = 2
    MaxResumes = 1
INVARIANTS Inv CompleteIsTaken
PROPERTIES Ends EveryTileTried
