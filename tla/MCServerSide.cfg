SPECIFICATION ServerSpec
CONSTANTS
    n1 = n1
    n2 = n2
    a1 = a1
    Names = {n1, n2}
    Machines = {a1}
    NameOf <- MachineName
    Intervals = {1, 3}
    Timeout = 3
    Latency = 2
    MaxIds = 2
    MaxTokens = 2
    Disturbances = {"lost", "stop", "rotate", "delete", "reset", "interval", "reprovision"}
    Sources = {x, y}
    Subscribers = {s1, s2}
    Mine = x
    HistoryMax = 3
    QueueMax = 2
    MaxEvents = 4
    Target = 5
    Script <- FiveVersions
    Hooks <- FiveHooks
    Columns = {5}
    Openers = {p, q, r}
    MaxDeaths = 2
    Savers = {v1, v2}
    Cleaners = {c1}
    Writers = {w1}
    StoreFaults = {"malformed", "restart"}
INVARIANTS ServerTypeOK OfflineIsSilent NothingElseIsLost PageLacksOnlyTheGap
           OpenMeansWhole SavesAreAtomic
PROPERTIES AgentRecovers
CHECK_DEADLOCK FALSE
