SPECIFICATION Spec
CONSTANTS
    NoTask = NoTask
    i1 = i1  s1 = s1  s2 = s2  p1 = p1  p2 = p2  x1 = x1  o1 = o1  r1 = r1
    Task = {i1, s1, o1, p1, p2}
    KindOf <- PruneKinds
    MaxEvents = 3
INVARIANTS PruneExact
PROPERTIES PruneKeepsUp
