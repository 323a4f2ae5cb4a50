SPECIFICATION Spec
CONSTANTS
    NoClient = NoClient
    c1 = c1  c2 = c2  c3 = c3  t1 = t1  t2 = t2  t3 = t3
    Client = {c1, c2, c3}
    Tile = {t1, t2}
    Paths <- SomePaths
    MaxRequests = 4
    MayMiss = TRUE
INVARIANTS Inv OwnPath
PROPERTIES EveryPathAnswered
