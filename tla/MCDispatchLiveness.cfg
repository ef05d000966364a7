SPECIFICATION FairSpec
CONSTANTS
    Tests = {t1, t2}
    Agents = {a1, sim}
    TestAgents = {sim}
    Kinds <- LiveKinds
    Env <- OnlyRequestsLost
    MaxStale = 0
    MaxDay = 1
INVARIANTS DispatchedIsHeld
PROPERTIES StatusMovesForward QueuedWorkEnds
