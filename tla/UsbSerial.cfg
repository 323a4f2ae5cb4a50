SPECIFICATION Spec
CONSTANTS
    d1 = d1  d2 = d2  c1 = c1  c2 = c2  None = None
    Device = {d1, d2}
    Client = {c1, c2}
    Scenes <- SomeScenes
CHECK_DEADLOCK FALSE
INVARIANTS Inv
PROPERTIES ToldOfEnd
