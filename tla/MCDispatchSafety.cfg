SPECIFICATION SpecBetweenStamps
CONSTANTS
    Tests = {t1, t2}
    Agents = {a1, sim}
    TestAgents = {sim}
    Kinds <- SomeKinds
    Env <- AnyEvent
    MaxStale = 1
    MaxDay = 1
SYMMETRY RowSymmetry
INVARIANTS TypeOK AtMostOnePlace StatusIsEarned
PROPERTIES BenchmarksInOrder ImplementsDelivery
