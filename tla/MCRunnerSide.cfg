SPECIFICATION SideSpecInTurn
CONSTANTS
    k1 = k1
    k2 = k2
    k3 = k3
    Keys = {k1, k2, k3}
    Repo <- CampaignRepo
    Size <- CampaignSize
    Params <- CampaignParams
    Bpp <- CampaignBpp
    Specs <- CampaignSpecs
    InDirectory = {k2}
    Unwanted = {}
    Room = 4
    Reserve = 1
    SizeLimits = {0, 1}
    Ids = {i1}
    Modes = {"sequential", "parallel"}
    MaxStarts = 2
    RunnerFaults = {"dies", "saveFails", "downloadFails", "benchFails", "gated",
                    "removeFails", "stopFails", "dockerFails", "orphan"}
    r1 = r1
    r2 = r2
    Runs = {r1, r2}
    NoRun = NoRun
    Service = Service
    Home = Home
    Settings <- RunSettings
    Items = 1
    BenchFaults = {"noModel", "spawnFails", "runTimesOut", "unhealthy", "loadFails",
                   "loadUnread", "answerFails", "raises", "killed", "dies", "stopFails", "sweep"}
    a1 = a1
    a2 = a2
    a3 = a3
    Attempts = {a1, a2, a3}
    ItemCount = 3
    Every = 2
    CheckpointFaults = {"fails", "killed", "tornRead", "unsaved"}
    Suites <- SomeSuites
    Overrides <- SomeOverrides
    MaxRuns = 2
    Prompts = 2
    Gpus = 2
    TpSizes <- Sizes
    c1 = c1
    c2 = c2
    c3 = c3
    Cells = {c1, c2, c3}
    Stages <- ScriptStages
    MaxScripts = 2
    ScriptFaults = {"killed", "lowDisk", "downloadFails", "noPath", "runFails",
                    "removeFails", "listFails", "dockerFails"}
    Operators = {o1, o2}
    Hosts = {h1}
    NoHost = NoHost
    Results = {x1}
    MaxPolls = 2
    MaxCommands = 3
    RemoteFaults = {"ssh", "installFails", "enginesFail", "scp", "killed"}
INVARIANTS SideTypeOK MeasuresWholeModel RecordedIsEarned LeftoverIsExplained
           MeasuresItsOwnEngine PassedIsWhole ResultsAddUp MeasuredOnce VerdictIsExplained
CHECK_DEADLOCK FALSE
