SPECIFICATION Spec
CONSTANTS
    Tests = {t1}
    Agents = {a1}
    TestAgents = {}
    Kinds <- BenchmarksOnly
    Env <- UsersStop
    MaxStale = 0
    MaxDay = 0
PROPERTIES StoppedStaysStopped
