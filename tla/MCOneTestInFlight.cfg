SPECIFICATION CampaignSpec
CONSTANTS
    Tests = {t1, t2}
    Agents = {a1}
    TestAgents = {}
    Kinds <- Benchmarks
    Env <- NoEvent
    MaxStale = 0
    MaxDay = 0
    Campaigns = {c1}
    Sessions = {s1, s2}
    MaxRuns = 1
    UserRows = 0
INVARIANTS OneTestInFlight
