SPECIFICATION CampaignSpec
CONSTANTS
    Tests = {t1, t2}
    Agents = {a1, sim}
    TestAgents = {sim}
    Kinds <- Benchmarks
    Env <- Trouble
    MaxStale = 0
    MaxDay = 0
    Campaigns = {c1}
    Sessions = {s1}
    MaxRuns = 2
    UserRows = 0
SYMMETRY RowSymmetry
INVARIANTS CampaignTypeOK LeftBehindEnded SucceededIsEarned
PROPERTIES ImplementsDispatch
