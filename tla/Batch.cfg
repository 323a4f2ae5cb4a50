SPECIFICATION BatchSpec
CONSTANTS
    q1 = q1  q2 = q2  q3 = q3
    Query = {q1, q2, q3}
    AutoDelete = {q1, q2}
    Full = 2
    MaxAsked = 4
    MaxAnswers = 2
    Owners <- SomeOwners
INVARIANTS BatchInv
PROPERTIES OwnHeights EveryQueryAnswered
